-------------------------- MODULE MCPackageManager --------------------------
(* Two outputs that begin in one directory, of one package or of two. *)
EXTENDS PackageManager, TLC

CONSTANTS p, q, a, b, shared, own

OnePackage  == [o \in {a, b} |-> p]
TwoPackages == (a :> p) @@ (b :> q)

TwoFiles == (a :> {1, 2}) @@ (b :> {1})
OneFile  == [o \in {a, b} |-> {1}]

(* Version 1 of a file is longer. *)
MCLengthOf == [v \in Version |-> 10 - v]

ConfigOf(v) == [destination   |-> [o \in Output |-> shared],
                download_hash |-> [i \in Input |-> v],
                hash          |-> [o \in Output |-> v]]

MCInitialConfigs == {ConfigOf(NoHash)}

(* A package is set to a version, with all its outputs. *)
SetVersion(cfg, i, v) ==
  [cfg EXCEPT !.download_hash[i] = v,
              !.hash = [o \in Output |-> IF PackageOf[o] = i THEN v ELSE @[o]]]

SetAnyVersion(cfg) == {SetVersion(cfg, i, v) : i \in Input, v \in Version}

(* A package goes to another version or back, an output is to be built again, *)
(* or b moves.                                                                *)
AnyEdit(cfg) ==
  SetAnyVersion(cfg)
  \cup {[cfg EXCEPT !.hash[o] = NoHash] : o \in Output}
  \cup {[cfg EXCEPT !.destination[b] = d] : d \in Destination}
=============================================================================
