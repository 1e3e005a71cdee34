---------------------------- MODULE EnumConverter ----------------------------
(* The run-time registry of enums (IPShared/EnumConversion): what a program *)
(* fills when it starts, by calling the registration functions generated for *)
(* its projects. A registry is a function from the registered enums to their *)
(* entries, pairs of a name and a value; a failed assertion ends the program.*)
EXTENDS Naturals, SequencesExt

CONSTANT Asserted                    \* stands for the registry after a FATAL_ASSERT

NoEnums == <<>>

(* CEnumConverter::Register_Enum_Internal; names are unique as types are. *)
Register_Enum(registry, enum) ==
  IF enum \in DOMAIN registry
  THEN Asserted
  ELSE [e \in DOMAIN registry \cup {enum} |-> IF e = enum THEN {} ELSE registry[e]]

(* CConvertibleEnum::Register_Entry: neither name nor value may be taken. *)
Register_Enum_Entry(registry, enum, name, value) ==
  IF \/ enum \notin DOMAIN registry
     \/ \E entry \in registry[enum] : entry[1] = name \/ entry[2] = value
  THEN Asserted
  ELSE [registry EXCEPT ![enum] = @ \cup {<<name, value>>}]

(* A call is <<enum>> or <<enum, name, value>>; the first failure is the last. *)
Register(registry, calls) ==
  FoldLeft(LAMBDA so_far, call :
             IF so_far = Asserted THEN Asserted
             ELSE IF Len(call) = 1 THEN Register_Enum(so_far, call[1])
             ELSE Register_Enum_Entry(so_far, call[1], call[2], call[3]),
           registry, calls)
=============================================================================
