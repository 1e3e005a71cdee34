---------------------------- MODULE EnumReflector ----------------------------
(* The enum reflector (EnumReflector/Source): a build step that reads the   *)
(* enums marked in the headers of all projects and writes for every project *)
(* a source file that registers them for conversion from and to strings. A  *)
(* database remembers what the last run saw, so that a run only parses      *)
(* headers that are newer and only writes the files of projects whose enums *)
(* differ. The user edits headers at any time; a run may fail or be killed  *)
(* between any two of its steps.                                            *)
EXTENDS Naturals, FiniteSets, SequencesExt, FiniteSetsExt

CONSTANTS
  HeaderOrder,             \* all headers, as the project files list them
  ProjectOrder,            \* all projects, in the order of their directories
  ProjectOf,               \* the project whose file lists a header
  Texts,                   \* per header: what may be in it
  Absent,                  \* not in the project file
  None,                    \* no record; no base enum; not bound to an entry
  Unnamed,                 \* an entry that has no string, as the last of most base enums
  NoDatabase,              \* a database file that cannot be read
  Torn,                    \* a file whose writing was cut short
  Asserted

Converter == INSTANCE EnumConverter

Header  == ToSet(HeaderOrder)
Project == ToSet(ProjectOrder)

(* A text is the sequence of its enum definitions. *)
Definitions == UNION {ToSet(text) : text \in UNION {Texts[h] \ {Absent} : h \in Header}}
EnumName    == {d.name : d \in Definitions}

(* CEnumRecord. Entries are in order; the first of a derived enum is bound to *)
(* the value of an entry of its base, bound, and start is that value; values  *)
(* of a base enum count from 0. An entry's C++ name is its string.            *)
Record == [name : EnumName, extends : {d.extends : d \in Definitions},
           bound : {d.bound : d \in Definitions}, entries : {d.entries : d \in Definitions},
           start : Nat, header : Header]

(* The compiler refuses a header that defines an enum or an entry twice. *)
ASSUME ReflectorAssumption ==
  /\ HeaderOrder \in Seq(Header) /\ IsInjective(HeaderOrder)
  /\ ProjectOrder \in Seq(Project)
  /\ ProjectOf \in [Header -> Project]
  /\ \A h \in Header : \A text \in Texts[h] \ {Absent} :
       /\ text \in Seq(Definitions)
       /\ \A i, j \in DOMAIN text : text[i].name = text[j].name => i = j
  /\ \A d \in Definitions : 
       /\ DOMAIN d = {"name", "extends", "bound", "entries"}
       /\ d.entries \in Seq(ToSet(d.entries) \ {None}) /\ IsInjective(d.entries)
  /\ None \notin EnumName \cup Record

VARIABLES
  (* files *)
  source,                  \* the text of every header
  newer,                   \* headers with a time later than the database has
  db,                      \* the XML database
  registration,            \* the generated file of every project: records in order
  (* the run *)
  phase,
  headers,                 \* m_HeaderFiles, in order
  listed,                  \* those the project files list
  unchanged,               \* those with EHeaderFileState.Unchanged
  known_projects,          \* projects of the database; the others are New
  to_parse,                \* the others that the projects list, still to be parsed
  enums,                   \* m_Enums, in order
  to_write,                \* projects still to be written
  edited,                  \* headers edited since this run looked at their times
  (* history *)
  written,                 \* projects whose file this run wrote
  unsaved                  \* those whose file a run wrote that then saved no database

files   == <<source, newer, db, registration>>
run     == <<headers, listed, unchanged, known_projects, to_parse, enums, to_write>>
history == <<written, unsaved>>
vars    == <<files, phase, run, edited, history>>

(* CEnum: what the database had of an enum and what this run knows of it. *)
Enum == [old : Record \cup {None}, new : Record \cup {None}]

(* What is generated for an enum: its entries, and those of its base enums. *)
Registered == [enum : Record, bases : SUBSET Record]

EmptyDatabase == [projects |-> {}, headers |-> <<>>, enums |-> <<>>]

TypeOK ==
  /\ DOMAIN source = Header /\ \A h \in Header : source[h] \in Texts[h]
  /\ newer \in SUBSET Header
  /\ db = NoDatabase \/ /\ db.projects \in SUBSET Project
                        /\ db.headers \in Seq(Header)
                        /\ db.enums \in Seq(Record)
  /\ DOMAIN registration = Project
  /\ \A p \in Project : registration[p] = Torn \/ registration[p] \in Seq(Registered)
  /\ phase \in {"stopped", "parsing", "writing", "saving"}
  /\ headers \in Seq(Header) /\ IsInjective(headers)
  /\ listed \in SUBSET ToSet(headers) /\ unchanged \in SUBSET listed
  /\ known_projects \in SUBSET Project
  /\ to_parse \in Seq(listed \ unchanged)
  /\ enums \in Seq(Enum)
  /\ to_write \in Seq(Project)
  /\ edited \in SUBSET Header
  /\ written \in SUBSET Project /\ unsaved \in SUBSET Project

-----------------------------------------------------------------------------
(* The run up to the parsing of headers. *)

(* What of a sequence is in a set, in order. *)
Keep(seq, set) ==
  LET kept[n \in 0 .. Len(seq)] ==
        IF n = 0 THEN <<>>
        ELSE IF seq[n] \in set THEN Append(kept[n - 1], seq[n]) ELSE kept[n - 1]
  IN kept[Len(seq)]

(* Whatever keeps the database from being read, there is none then. *)
Load_Config(mode) == IF mode = "Clean" \/ db = NoDatabase THEN EmptyDatabase ELSE db

(* Parse_Project_File *)
Listed == {h \in Header : source[h] # Absent}

(* The database's headers come first in the dictionary, then the new ones. *)
Register_Header_Files(database) ==
  database.headers \o Keep(HeaderOrder, Listed \ ToSet(database.headers))

(* Mutant of the next: a header that is not listed any more is unchanged. *)
Unchanged_If_Not_Newer(database) == ToSet(database.headers) \ newer

(* Registered again, and no later than the database has it. *)
Unchanged(database) == (ToSet(database.headers) \cap Listed) \ newer

(* Trackers are filled from the database, then the projects are scanned. *)
Scan(mode) ==
  LET database == Load_Config(mode) IN
  /\ phase = "stopped"
  /\ phase' = "parsing"
  /\ headers' = Register_Header_Files(database)
  /\ listed' = Listed
  /\ unchanged' = Unchanged(database)
  /\ known_projects' = database.projects
  /\ to_parse' = Keep(headers', listed' \ unchanged')
  /\ enums' = [k \in DOMAIN database.enums |-> [old |-> database.enums[k], new |-> None]]
  /\ to_write' = <<>>
  /\ edited' = {}
  /\ written' = {}
  /\ UNCHANGED <<files, unsaved>>

(* A definition as it is parsed: a derived enum has no values yet. *)
Parse_Enum_Definition(d, h) ==
  [name |-> d.name, extends |-> d.extends, bound |-> d.bound, entries |-> d.entries, start |-> 0,
   header |-> h]

NameOf(en) == IF en.old # None THEN en.old.name ELSE en.new.name

Initialize_Parsed_Enum(ens, record) ==
  IF \E k \in DOMAIN ens : NameOf(ens[k]) = record.name
  THEN [k \in DOMAIN ens |->
          IF NameOf(ens[k]) = record.name THEN [ens[k] EXCEPT !.new = record] ELSE ens[k]]
  ELSE Append(ens, [old |-> None, new |-> record])

Reparse_Enums(ens, h) ==
  LET parsed[n \in 0 .. Len(source[h])] ==
        IF n = 0 THEN ens
        ELSE Initialize_Parsed_Enum(parsed[n - 1], Parse_Enum_Definition(source[h][n], h))
  IN parsed[Len(source[h])]

Process_Dirty_Header ==
  /\ phase = "parsing"
  /\ to_parse # <<>>
  /\ source[Head(to_parse)] # Absent
  /\ enums' = Reparse_Enums(enums, Head(to_parse))
  /\ to_parse' = Tail(to_parse)
  /\ UNCHANGED <<files, phase, headers, listed, unchanged, known_projects, to_write, edited, history>>

-----------------------------------------------------------------------------
(* Process_Final_States. *)

(* Mutant of the next: enums deleted from their header come back. *)
Promote_Always(en) ==
  IF en.old # None /\ en.new = None THEN [en EXCEPT !.new = en.old] ELSE en

(* "If the header the enum is defined in is unchanged, then this enum didn't change." *)
Promote_To_Unchanged(en) ==
  IF en.old # None /\ en.new = None /\ en.old.header \in unchanged
  THEN [en EXCEPT !.new = en.old]
  ELSE en

NewRecords(ens) == {en.new : en \in ToSet(ens)} \ {None}

(* A set that has the base enum of each of its records. *)
HasItsBases(set, records) == \A derived \in set, base \in records : base.name = derived.extends => base \in set

(* The base enums of a record, those of its base enum included: what must be *)
(* in a set that has the record and the base enum of each of its records.    *)
BasesOf(record, records) ==
  {base \in records \ {record} :
     \A set \in SUBSET records : record \in set /\ HasItsBases(set, records) => base \in set}

(* Set_Base_Enums and Bind_Derived_Enums throw unless every base enum is known *)
(* and has the entry that the first one of the derived enum is bound to, and   *)
(* no enum extends itself, not even in a circle.                               *)
Bindable(records) ==
  \A r \in records : r.extends # None =>
    /\ r.entries # <<>>
    /\ \E base \in records : base.name = r.extends /\ r.bound \in ToSet(base.entries)
    /\ \A base \in BasesOf(r, records) \cup {r} : base.extends # r.name

(* Get_Entry_By_CPP_Name: how far the entry's value is from the first one's. *)
EntriesBefore(entries, name) == (CHOOSE k \in DOMAIN entries : entries[k] = name) - 1

(* Compute_Extension_Enum_Starting_Value: the value of the base's entry that *)
(* the first one is bound to.                                                *)
StartingValue(records) ==
  LET start[r \in records] ==
        IF r.extends = None THEN 0
        ELSE LET base == CHOOSE b \in records : b.name = r.extends
             IN start[base] + EntriesBefore(base.entries, r.bound)
  IN start

(* Mutant of the next: an enum of an unchanged header keeps its values. *)
Bind_No_Promoted_Enums(ens) ==
  LET start == StartingValue(NewRecords(ens)) IN
  [k \in DOMAIN ens |-> IF ens[k].new \in {None, ens[k].old} THEN ens[k]
                        ELSE [ens[k] EXCEPT !.new.start = start[ens[k].new]]]

Bind_Derived_Enums(ens) ==
  LET start == StartingValue(NewRecords(ens)) IN
  [k \in DOMAIN ens |-> IF ens[k].new = None THEN ens[k]
                        ELSE [ens[k] EXCEPT !.new.start = start[ens[k].new]]]

(* Mutant of the next: deleted enums and the old headers of moved ones are  *)
(* forgotten.                                                               *)
Marked_Dirty_For_New(ens) ==
  {ProjectOf[en.new.header] : en \in {e \in ToSet(ens) : e.new \notin {e.old, None}}}

(* The projects of both records of every enum that is new, deleted or has *)
(* another value.                                                         *)
Marked_Dirty(ens) ==
  {ProjectOf[r.header] : r \in UNION {{en.old, en.new} \ {None} :
                                        en \in {e \in ToSet(ens) : e.old # e.new}}}

(* Mutant of the next: a project is written unless its state is Unchanged,  *)
(* which it never is.                                                       *)
To_Write_Unless_Unchanged(dirty) == ProjectOrder
To_Write(dirty) == Keep(ProjectOrder, dirty \cup (Project \ known_projects))

Process_Final_States ==
  LET promoted == [k \in DOMAIN enums |-> Promote_To_Unchanged(enums[k])] IN
  /\ phase = "parsing"
  /\ to_parse = <<>>
  /\ Bindable(NewRecords(promoted))
  /\ enums' = Bind_Derived_Enums(promoted)
  /\ to_write' = To_Write(Marked_Dirty(enums'))
  /\ phase' = "writing"
  /\ UNCHANGED <<files, headers, listed, unchanged, known_projects, to_parse, edited, history>>

-----------------------------------------------------------------------------
(* The files a run writes. *)

(* The enums that there still are. *)
SaveRecords(ens) ==
  LET kept == Keep(ens, {en \in ToSet(ens) : en.new # None})
  IN [k \in DOMAIN kept |-> kept[k].new]

(* A project's enums, each with the base enums whose entries it converts too *)
(* and which are to convert its own.                                         *)
Build_CPP_Text(p) ==
  LET records == SaveRecords(enums)
      own     == Keep(records, {r \in ToSet(records) : ProjectOf[r.header] = p})
  IN [k \in DOMAIN own |-> [enum |-> own[k], bases |-> BasesOf(own[k], ToSet(records))]]

Write_Enum_Registration_File ==
  /\ phase = "writing"
  /\ to_write # <<>>
  /\ LET p == Head(to_write) IN
       /\ registration' = [registration EXCEPT ![p] = Build_CPP_Text(p)]
       /\ written' = written \cup {p}
       /\ unsaved' = unsaved \cup {p}
  /\ to_write' = Tail(to_write)
  /\ UNCHANGED <<source, newer, db, phase, headers, listed, unchanged, known_projects, to_parse,
                 enums, edited>>

(* The process is gone, and with it what it had in memory. *)
Stop ==
  /\ phase' = "stopped"
  /\ headers' = <<>>
  /\ listed' = {}
  /\ unchanged' = {}
  /\ known_projects' = {}
  /\ to_parse' = <<>>
  /\ enums' = <<>>
  /\ to_write' = <<>>
  /\ edited' = {}
  /\ written' = {}

(* Opening the database file truncates it. *)
Begin_Save_Config ==
  /\ phase = "writing"
  /\ to_write = <<>>
  /\ phase' = "saving"
  /\ db' = NoDatabase
  /\ UNCHANGED <<source, newer, registration, run, edited, history>>

(* A database that cannot be opened is reported; the run succeeds all the same. *)
Save_Config_Fails ==
  /\ phase = "writing"
  /\ to_write = <<>>
  /\ Stop
  /\ UNCHANGED <<files, unsaved>>

(* The times saved are those of the scan. *)
Save_Config ==
  /\ phase = "saving"
  /\ db' = [projects |-> Project,
            headers  |-> Keep(headers, listed),
            enums    |-> SaveRecords(enums)]
  /\ newer' = edited
  /\ unsaved' = unsaved \ written
  /\ Stop
  /\ UNCHANGED <<source, registration>>

(* Main reports an exception, waits for a key and ends: a header that cannot *)
(* be opened or parsed, enums that cannot be bound, a file not writable.     *)
Throw ==
  /\ \/ phase = "parsing" /\ to_parse # <<>>
     \/ /\ phase = "parsing" /\ to_parse = <<>>
        /\ ~Bindable(NewRecords([k \in DOMAIN enums |-> Promote_To_Unchanged(enums[k])]))
     \/ phase = "writing" /\ to_write # <<>>
  /\ Stop
  /\ UNCHANGED <<files, unsaved>>

(* The build kills the run, perhaps in the middle of writing a file. *)
Crash ==
  /\ phase # "stopped"
  /\ \/ UNCHANGED <<registration, unsaved>>
     \/ /\ phase = "writing" /\ to_write # <<>>
        /\ registration' = [registration EXCEPT ![Head(to_write)] = Torn]
        /\ unsaved' = unsaved \cup {Head(to_write)}
  /\ Stop
  /\ UNCHANGED <<source, newer, db>>

-----------------------------------------------------------------------------
(* The user. *)

(* No enum is defined twice. *)
OneDefinitionEach ==
  \A g, h \in Listed : g # h => {d.name : d \in ToSet(source[g])} \cap {d.name : d \in ToSet(source[h])} = {}

(* A header is edited, or its project begins or ceases to list it; only the *)
(* last leaves the header's time as it is.                                  *)
Edit(h) ==
  /\ \E text \in Texts[h] \ {source[h]} : source' = [source EXCEPT ![h] = text]
  /\ OneDefinitionEach'
  /\ IF source'[h] = Absent
     THEN UNCHANGED <<newer, edited>>
     ELSE /\ newer' = newer \cup {h}
          /\ edited' = IF phase = "stopped" THEN {} ELSE edited \cup {h}
  /\ UNCHANGED <<db, registration, phase, run, history>>

-----------------------------------------------------------------------------
Init ==
  /\ source \in [Header -> UNION {Texts[h] : h \in Header}]
  /\ \A h \in Header : source[h] \in Texts[h]
  /\ OneDefinitionEach
  /\ newer = {}
  /\ db = NoDatabase
  /\ registration = [p \in Project |-> <<>>]
  /\ phase = "stopped"
  /\ headers = <<>> /\ listed = {} /\ unchanged = {}
  /\ known_projects = {}
  /\ to_parse = <<>>
  /\ enums = <<>>
  /\ to_write = <<>>
  /\ edited = {}
  /\ written = {} /\ unsaved = {}

Run ==
  \/ \E mode \in {"Normal", "Clean"} : Scan(mode)
  \/ Process_Dirty_Header
  \/ Process_Final_States
  \/ Write_Enum_Registration_File
  \/ Begin_Save_Config
  \/ Save_Config

Next ==
  \/ Run
  \/ Save_Config_Fails
  \/ Throw
  \/ Crash
  \/ \E h \in Header : Edit(h)

Spec == Init /\ [][Next]_vars

-----------------------------------------------------------------------------
(* Properties. *)

(* What the headers define, read at once. *)
DefinedIn(h) ==
  {[name |-> d.name, extends |-> d.extends, bound |-> d.bound, entries |-> d.entries, header |-> h] :
     d \in ToSet(source[h])}

Defined == UNION {DefinedIn(h) : h \in Listed}

Extended(d) == {b \in Defined : b.name = d.extends}

Values(d) ==
  LET start[e \in Defined] ==
        IF Extended(e) = {} THEN 0
        ELSE LET base == CHOOSE b \in Extended(e) : TRUE
             IN start[base] + EntriesBefore(base.entries, e.bound)
  IN [name |-> d.name, extends |-> d.extends, bound |-> d.bound, entries |-> d.entries,
      start |-> start[d], header |-> d.header]

(* No run is under way, the last one that saved its database saw the headers *)
(* as they are.                                                              *)
UpToDate ==
  phase = "stopped" /\ db # NoDatabase /\ newer = {} /\ ToSet(db.headers) = Listed

(* However the database came to be, run by run from headers that changed, it *)
(* has what a clean run finds: every enum that the headers define, with the  *)
(* values that follow from its base enums, and no other.                     *)
DatabaseIsCurrent == UpToDate => ToSet(db.enums) = {Values(d) : d \in Defined}

(* The file of a project registers the project's enums as they are now, but *)
(* for files written by a run that failed before it saved its database.     *)
OwnEnumsAreRegistered ==
  UpToDate => \A p \in Project \ unsaved :
    {r.enum : r \in ToSet(registration[p])} =
      {Values(d) : d \in {e \in Defined : ProjectOf[e.header] = p}}

(* Runs after the first, with no header changed since, write no file. *)
QuietRun ==
  [][unchanged = ToSet(headers) /\ known_projects = Project => registration' = registration]_vars

(* The calls of a generated function, for the entries that have a string. *)
Conversions(of, to) ==
  LET named == Keep(of.entries, ToSet(of.entries) \ {Unnamed})
  IN [k \in DOMAIN named |->
        <<to.name, named[k], of.start + EntriesBefore(of.entries, named[k])>>]

Calls(r) ==
  <<<<r.enum.name>>>> \o Conversions(r.enum, r.enum)
  \o FlattenSeq(SetToSeq({Conversions(r.enum, base) \o Conversions(base, r.enum) : base \in r.bases}))

ProgramStart ==
  FoldLeft(LAMBDA registry, p :
             IF registry = Asserted THEN Asserted
             ELSE FoldLeft(LAMBDA so_far, r : IF so_far = Asserted THEN Asserted
                                              ELSE Converter!Register(so_far, Calls(r)),
                           registry, registration[p]),
           Converter!NoEnums, ProjectOrder)

(* A program that is built from the files registers its enums without a *)
(* failing assertion.                                                   *)
ProgramStarts == UpToDate /\ unsaved = {} => ProgramStart # Asserted
=============================================================================
