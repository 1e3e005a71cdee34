--------------------------- MODULE MCEnumReflector ---------------------------
(* Two projects; the enum of the second extends one of the first. *)
EXTENDS EnumReflector, TLC

EnumNamed(name, entries) == [name |-> name, extends |-> None, bound |-> None, entries |-> entries]

B(entries) == EnumNamed("B", entries)
D          == [EnumNamed("D", <<"d">>) EXCEPT !.extends = "B", !.bound = Unnamed]
E          == EnumNamed("E", <<"e">>)

Projects == <<"P", "Q">>

(* The base enum grows and goes, or loses the entry that the derived one is *)
(* bound to, which comes and goes with its header; an enum moves from one   *)
(* project to the other.                                                    *)
TwoHeaders == <<"base", "derived">>
InProjects == ("base" :> "P") @@ ("derived" :> "Q")
AnyTexts   == ("base"    :> {<<B(<<"a", Unnamed>>)>>, <<B(<<"a", "b", Unnamed>>)>>, <<B(<<"a">>)>>, <<E>>}) @@
              ("derived" :> {Absent, <<D>>, <<E>>})

(* An entry of the base enum is renamed. *)
Renaming == ("base" :> {<<B(<<"a", Unnamed>>)>>, <<B(<<"b", Unnamed>>)>>}) @@ ("derived" :> {<<D>>})

(* A header gets a base enum for the enum it already has. *)
OneHeader   == <<"header">>
OneProject  == <<"P">>
InOneProject == "header" :> "P"
NewBase     == "header" :> {<<EnumNamed("D", <<"d">>)>>, <<B(<<"a", Unnamed>>), D>>}
=============================================================================
