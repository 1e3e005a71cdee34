------------------------- MODULE EnumReflectorProofs -------------------------
(* Proofs about the enum reflector. What the database has of a header that  *)
(* is not newer, what a run under way knows of it, and what the files       *)
(* register are related by an inductive invariant, ReflectorInv; that the   *)
(* database is current, that projects register their own enums and that a   *)
(* run with nothing to parse writes no file follow from it. The first       *)
(* lemmas are about the model's recursive functions: that they exist, that  *)
(* there is one solution, and what they compute.                            *)
EXTENDS EnumReflector, SequenceTheorems, FiniteSetTheorems, WellFoundedInduction, TLAPS

-----------------------------------------------------------------------------
(* Induction and recursion.                                              *)

(* A set of natural numbers that is not empty has a smallest element.    *)
LEMMA NatSmallest ==
  ASSUME NEW T \in SUBSET Nat, T # {}
  PROVE  \E x \in T : \A y \in T : x <= y
<1> DEFINE less == OpToRel(<, Nat)
<1>1. \E x \in T : \A y \in T : ~ (<<y, x>> \in less)
  <2>1. IsWellFoundedOn(less, Nat)
    BY NatLessThanWellFounded
  <2> HIDE DEF less
  <2> QED BY <2>1, WFMin
<1>2. \A x, y \in Nat : <<y, x>> \in less <=> y < x
  BY DEF OpToRel
<1> HIDE DEF less
<1>3. PICK x \in T : \A y \in T : ~ (<<y, x>> \in less)
  BY <1>1
<1>4. ASSUME NEW y \in T PROVE x <= y
  <2>1. <<y, x>> \notin less /\ x \in Nat /\ y \in Nat
    BY <1>3
  <2>2. ~ (y < x)
    BY <2>1, <1>2, Zenon
  <2> QED BY <2>1, <2>2
<1> QED BY <1>4

(* What holds of 0, and of the successor of every number up to n that it *)
(* holds of, holds of all these numbers.                                 *)
LEMMA UpToInduction ==
  ASSUME NEW n \in Nat, NEW S, 0 \in S, \A m \in 1 .. n : m - 1 \in S => m \in S
  PROVE  0 .. n \subseteq S
<1> SUFFICES ASSUME (0 .. n) \ S # {} PROVE FALSE
  OBVIOUS
<1>1. PICK x \in (0 .. n) \ S : \A y \in (0 .. n) \ S : x <= y
  <2>1. (0 .. n) \ S \in SUBSET Nat
    OBVIOUS
  <2> QED BY <2>1, NatSmallest, Zenon
<1>2. x \in 1 .. n /\ x - 1 \in 0 .. n /\ ~ (x <= x - 1)
  BY <1>1
<1> QED BY <1>1, <1>2

(* A function that is defined by recursion on the numbers up to n.       *)
Iterates(f, n, T, base, step) ==
  f \in [0 .. n -> T] /\ f[0] = base /\ \A i \in 1 .. n : f[i] = step[i][f[i - 1]]

(* There is such a function.                                            *)
LEMMA Iterated ==
  ASSUME NEW n \in Nat, NEW T, NEW base \in T, NEW step \in [1 .. n -> [T -> T]]
  PROVE  \E f : Iterates(f, n, T, base, step)
<1> DEFINE Built(k, f) == f[0] = base /\ \A i \in 1 .. k : f[i] = step[i][f[i - 1]]
           S == {k \in 0 .. n : \E f \in [0 .. k -> T] : Built(k, f)}
<1>1. 0 \in S
  <2> DEFINE f == [i \in 0 .. 0 |-> base]
  <2>1. f \in [0 .. 0 -> T] /\ f[0] = base /\ 1 .. 0 = {}
    OBVIOUS
  <2> HIDE DEF f
  <2> QED BY <2>1
<1>2. ASSUME NEW k \in 1 .. n, k - 1 \in S PROVE k \in S
  <2>1. PICK f \in [0 .. k - 1 -> T] : Built(k - 1, f)
    BY <1>2
  <2> DEFINE last == step[k][f[k - 1]]
             g == [i \in 0 .. k |-> IF i = k THEN last ELSE f[i]]
  <2>2. k - 1 \in 0 .. k - 1 /\ f[k - 1] \in T /\ last \in T
    OBVIOUS
  <2> HIDE DEF last
  <2>3. g \in [0 .. k -> T] /\ g[0] = base /\ g[k] = last /\ \A i \in 0 .. k - 1 : g[i] = f[i]
    BY <2>1, <2>2
  <2> HIDE DEF g
  <2>4. ASSUME NEW i \in 1 .. k PROVE g[i] = step[i][g[i - 1]]
    <3>1. CASE i = k
      <4>1. g[k - 1] = f[k - 1]
        BY <2>2, <2>3
      <4> QED BY <3>1, <4>1, <2>3 DEF last
    <3>2. CASE i # k
      <4>1. i \in 1 .. k - 1 /\ i \in 0 .. k - 1 /\ i - 1 \in 0 .. k - 1
        BY <3>2
      <4> QED BY <4>1, <2>1, <2>3
    <3> QED BY <3>1, <3>2
  <2>5. \E h \in [0 .. k -> T] : Built(k, h)
    BY <2>3, <2>4
  <2>6. k \in 0 .. n
    OBVIOUS
  <2> QED BY <2>5, <2>6, Zenon
<1>3. n \in S
  <2> HIDE DEF S
  <2>1. \A k \in 1 .. n : k - 1 \in S => k \in S
    BY <1>2
  <2>2. 0 .. n \subseteq S
    BY <1>1, <2>1, UpToInduction, Zenon
  <2> QED BY <2>2
<1> QED BY <1>3, Zenon DEF Iterates

-----------------------------------------------------------------------------
(* Sequences.                                                            *)

(* The members of a sequence.                                            *)
LEMMA Members ==
  ASSUME NEW S, NEW s \in Seq(S)
  PROVE  /\ Len(s) \in Nat /\ DOMAIN s = 1 .. Len(s)
         /\ \A x : x \in ToSet(s) <=> \E i \in 1 .. Len(s) : s[i] = x
         /\ ToSet(s) \subseteq S
         /\ s = <<>> <=> ToSet(s) = {}
<1>1. Len(s) \in Nat /\ DOMAIN s = 1 .. Len(s) /\ \A i \in 1 .. Len(s) : s[i] \in S
  OBVIOUS
<1>2. \A x : x \in ToSet(s) <=> \E i \in 1 .. Len(s) : s[i] = x
  BY <1>1 DEF ToSet
<1>3. ToSet(s) \subseteq S
  BY <1>1, <1>2
<1>4. s = <<>> <=> Len(s) = 0
  BY EmptySeq
<1>5. ToSet(s) = {} <=> Len(s) = 0
  <2>1. Len(s) # 0 => 1 \in 1 .. Len(s)
    BY <1>1
  <2>2. Len(s) = 0 => 1 .. Len(s) = {}
    OBVIOUS
  <2> QED BY <1>2, <2>1, <2>2
<1> QED BY <1>1, <1>2, <1>3, <1>4, <1>5

(* What Keep has of a sequence after each of its places.                 *)
IsKept(f, S, s, set) ==
  /\ f \in [0 .. Len(s) -> Seq(S)]
  /\ Keep(s, set) = f[Len(s)] /\ f[0] = <<>>
  /\ \A i \in 1 .. Len(s) : f[i] = IF s[i] \in set THEN Append(f[i - 1], s[i]) ELSE f[i - 1]

(* Its recursion computes that.                                          *)
LEMMA KeepSteps ==
  ASSUME NEW S, NEW s \in Seq(S), NEW set
  PROVE  \E f : IsKept(f, S, s, set)
<1> DEFINE Next1(i, v) == IF s[i] \in set THEN Append(v, s[i]) ELSE v
           Body(g) == [i \in 0 .. Len(s) |-> IF i = 0 THEN <<>> ELSE Next1(i, g[i - 1])]
           step == [i \in 1 .. Len(s) |-> [v \in Seq(S) |-> Next1(i, v)]]
           f == CHOOSE g : g = Body(g)
<1>1. Keep(s, set) = f[Len(s)]
  BY DEF Keep
<1>2. /\ Len(s) \in Nat /\ <<>> \in Seq(S)
      /\ \A i \in 1 .. Len(s), v \in Seq(S) : Next1(i, v) \in Seq(S)
  OBVIOUS
<1>3. PICK n \in Nat : n = Len(s)
  BY <1>2
<1> HIDE DEF Next1
<1>4. step \in [1 .. n -> [Seq(S) -> Seq(S)]]
  BY <1>2, <1>3
<1>5. PICK g \in [0 .. n -> Seq(S)] : g[0] = <<>> /\ \A i \in 1 .. n : g[i] = step[i][g[i - 1]]
  <2> DEFINE V == Seq(S)
             base == <<>>
  <2>1. base \in V /\ step \in [1 .. n -> [V -> V]]
    BY <1>2, <1>4
  <2> HIDE DEF step, V, base
  <2>2. \E g : Iterates(g, n, V, base, step)
    BY <2>1, Iterated, Zenon
  <2> QED BY <2>2, Zenon DEF V, base, Iterates
<1>6. ASSUME NEW i \in 1 .. n PROVE g[i] = Next1(i, g[i - 1])
  <2>1. g[i - 1] \in Seq(S) /\ i \in 1 .. Len(s)
    BY <1>3
  <2> QED BY <1>5, <2>1
<1>7. g = Body(g)
  <2>1. \A i \in 0 .. n : g[i] = IF i = 0 THEN <<>> ELSE Next1(i, g[i - 1])
    BY <1>5, <1>6
  <2>2. g = [i \in 0 .. n |-> g[i]]
    OBVIOUS
  <2> QED BY <1>3, <2>1, <2>2
<1>8. f = Body(f)
  <2> HIDE DEF Body
  <2> QED BY <1>7
<1> HIDE DEF f
<1>9. DOMAIN f = 0 .. n /\ f[0] = <<>> /\ \A i \in 1 .. n : f[i] = Next1(i, f[i - 1])
  BY <1>3, <1>8
<1>10. f \in [0 .. n -> Seq(S)]
  <2> DEFINE T == {i \in 0 .. n : f[i] \in Seq(S)}
  <2>1. 0 \in T
    <3>1. 0 \in 0 .. n
      OBVIOUS
    <3> QED BY <3>1, <1>2, <1>9, Zenon
  <2>2. \A i \in 1 .. n : i - 1 \in T => i \in T
    BY <1>2, <1>3, <1>9
  <2>3. 0 .. n \subseteq T
    <3> HIDE DEF T
    <3> QED BY <2>1, <2>2, UpToInduction
  <2>4. f = [i \in 0 .. n |-> f[i]]
    BY <1>3, <1>8
  <2> QED BY <2>3, <2>4
<1> QED BY <1>1, <1>3, <1>9, <1>10, Zenon DEF Next1, IsKept

(* Keep takes the members that are in the set, and no member twice that  *)
(* the sequence has once.                                                *)
LEMMA Kept ==
  ASSUME NEW S, NEW s \in Seq(S), NEW set
  PROVE  /\ Keep(s, set) \in Seq(S)
         /\ ToSet(Keep(s, set)) = ToSet(s) \cap set
         /\ IsInjective(s) => IsInjective(Keep(s, set))
<1>1. PICK n \in Nat : n = Len(s)
  OBVIOUS
<1>2. PICK f \in [0 .. n -> Seq(S)] :
        /\ Keep(s, set) = f[n] /\ f[0] = <<>>
        /\ \A i \in 1 .. n : f[i] = IF s[i] \in set THEN Append(f[i - 1], s[i]) ELSE f[i - 1]
  <2>1. \E f : IsKept(f, S, s, set)
    BY KeepSteps, Zenon
  <2> QED BY <2>1, <1>1, Zenon DEF IsKept
<1> DEFINE Upto(i) == {s[j] : j \in 1 .. i} \cap set
           T == {i \in 0 .. n : ToSet(f[i]) = Upto(i)}
           U == {i \in 0 .. n : IsInjective(f[i])}
<1>3. ASSUME NEW v \in Seq(S), NEW x \in S
      PROVE  /\ ToSet(Append(v, x)) = ToSet(v) \cup {x}
             /\ IsInjective(v) /\ x \notin ToSet(v) => IsInjective(Append(v, x))
  <2>1. /\ Append(v, x) \in Seq(S) /\ Len(Append(v, x)) = Len(v) + 1 /\ Len(v) \in Nat
        /\ \A i \in 1 .. Len(v) + 1 : Append(v, x)[i] = IF i <= Len(v) THEN v[i] ELSE x
    BY AppendProperties
  <2>2. ASSUME NEW y PROVE y \in ToSet(Append(v, x)) <=> y \in ToSet(v) \/ y = x
    <3>1. y \in ToSet(v) <=> \E i \in 1 .. Len(v) : v[i] = y
      BY Members
    <3>2. y \in ToSet(Append(v, x)) <=> \E i \in 1 .. Len(v) + 1 : Append(v, x)[i] = y
      BY <2>1, Members
    <3>3. \A i \in 1 .. Len(v) : i \in 1 .. Len(v) + 1 /\ i <= Len(v)
      BY <2>1
    <3>4. Len(v) + 1 \in 1 .. Len(v) + 1 /\ ~ (Len(v) + 1 <= Len(v))
      BY <2>1
    <3>5. \A i \in 1 .. Len(v) + 1 : i <= Len(v) => i \in 1 .. Len(v)
      BY <2>1
    <3> QED BY <3>1, <3>2, <3>3, <3>4, <3>5, <2>1
  <2>3. ASSUME IsInjective(v), x \notin ToSet(v) PROVE IsInjective(Append(v, x))
    <3>1. \A i \in 1 .. Len(v) : v[i] # x
      BY <2>3, Members
    <3>2. \A i, j \in 1 .. Len(v) : v[i] = v[j] => i = j
      BY <2>3 DEF IsInjective
    <3>3. DOMAIN Append(v, x) = 1 .. Len(v) + 1
      BY <2>1
    <3> QED BY <3>1, <3>2, <3>3, <2>1 DEF IsInjective
  <2> QED BY <2>2, <2>3
<1>4. 0 .. n \subseteq T
  <2>1. 0 \in T
    <3>1. ToSet(<<>>) = {} /\ 1 .. 0 = {}
      BY DEF ToSet
    <3> QED BY <3>1, <1>2
  <2>2. ASSUME NEW i \in 1 .. n, i - 1 \in T PROVE i \in T
    <3>1. Upto(i) = Upto(i - 1) \cup ({s[i]} \cap set)
      <4>1. \A j : j \in 1 .. i <=> j \in 1 .. i - 1 \/ j = i
        OBVIOUS
      <4>2. {s[j] : j \in 1 .. i} = {s[j] : j \in 1 .. i - 1} \cup {s[i]}
        BY <4>1
      <4> QED BY <4>2
    <3>2. s[i] \in S /\ f[i - 1] \in Seq(S)
      BY <1>1
    <3>3. CASE s[i] \in set
      <4>1. ToSet(f[i]) = ToSet(f[i - 1]) \cup {s[i]}
        BY <3>2, <3>3, <1>2, <1>3
      <4> QED BY <4>1, <2>2, <3>1, <3>3
    <3>4. CASE s[i] \notin set
      <4>1. f[i] = f[i - 1]
        BY <3>4, <1>2
      <4> QED BY <4>1, <2>2, <3>1, <3>4
    <3> QED BY <3>3, <3>4
  <2> HIDE DEF T
  <2> QED BY <2>1, <2>2, UpToInduction
<1>5. ASSUME IsInjective(s) PROVE n \in U
  <2>1. 0 \in U
    BY <1>2 DEF IsInjective
  <2>2. ASSUME NEW i \in 1 .. n, i - 1 \in U PROVE i \in U
    <3>1. s[i] \in S /\ f[i - 1] \in Seq(S)
      BY <1>1
    <3>2. s[i] \notin ToSet(f[i - 1])
      <4>1. DOMAIN s = 1 .. n
        BY <1>1
      <4>2. ASSUME NEW j \in 1 .. i - 1 PROVE s[j] # s[i]
        <5>1. j \in 1 .. n /\ j # i
          OBVIOUS
        <5> QED BY <5>1, <4>1, <1>5, Zenon DEF IsInjective
      <4>3. i - 1 \in T
        BY <1>4
      <4> QED BY <4>2, <4>3
    <3>3. CASE s[i] \in set
      BY <2>2, <3>1, <3>2, <3>3, <1>2, <1>3
    <3>4. CASE s[i] \notin set
      BY <2>2, <3>4, <1>2
    <3> QED BY <3>3, <3>4
  <2> HIDE DEF U
  <2>3. \A i \in 1 .. n : i - 1 \in U => i \in U
    BY <2>2
  <2>4. 0 .. n \subseteq U
    BY <2>1, <2>3, UpToInduction, Zenon
  <2> QED BY <2>4
<1>6. Upto(n) = ToSet(s) \cap set
  BY <1>1, Members
<1> QED BY <1>1, <1>2, <1>4, <1>5, <1>6

(* A sequence is over every set that has its members.                    *)
LEMMA SeqOver ==
  ASSUME NEW S, NEW s \in Seq(S), NEW T, ToSet(s) \subseteq T
  PROVE  s \in Seq(T)
<1>1. Len(s) \in Nat /\ DOMAIN s = 1 .. Len(s) /\ \A i \in 1 .. Len(s) : s[i] \in T
  BY Members
<1>2. s = [i \in 1 .. Len(s) |-> s[i]]
  BY <1>1
<1> QED BY <1>1, <1>2

(* A sequence with a member of T for each place of another, and what is  *)
(* then in it.                                                           *)
MapsTo(s, t, T) == t = [k \in DOMAIN s |-> t[k]] /\ \A k \in DOMAIN s : t[k] \in T

MembersByPlace(s, t) == \A x : x \in ToSet(t) <=> \E k \in DOMAIN s : t[k] = x

(* It is a sequence over T.                                              *)
LEMMA MappedSeq ==
  ASSUME NEW S, NEW s \in Seq(S), NEW T, NEW t, MapsTo(s, t, T)
  PROVE  t \in Seq(T) /\ MembersByPlace(s, t)
<1>0. t = [k \in DOMAIN s |-> t[k]] /\ \A k \in DOMAIN s : t[k] \in T
  BY Zenon DEF MapsTo
<1>1. Len(s) \in Nat /\ DOMAIN s = 1 .. Len(s)
  BY Members
<1>2. t \in Seq(T) /\ DOMAIN t = DOMAIN s
  BY <1>0, <1>1
<1>3. Len(t) \in Nat /\ DOMAIN t = 1 .. Len(t) /\ \A x : x \in ToSet(t) <=> \E i \in 1 .. Len(t) : t[i] = x
  BY <1>2, Members
<1> QED BY <1>1, <1>2, <1>3 DEF MembersByPlace

(* A sequence has finitely many members.                                 *)
LEMMA FiniteToSet ==
  ASSUME NEW S, NEW s \in Seq(S)
  PROVE  IsFiniteSet(ToSet(s))
<1>1. Len(s) \in Nat /\ \A x : x \in ToSet(s) <=> \E i \in 1 .. Len(s) : s[i] = x
  BY Members
<1>2. IsFiniteSet(1 .. Len(s))
  BY <1>1, FS_Interval
<1> DEFINE f == [i \in 1 .. Len(s) |-> s[i]]
<1>3. f \in Surjection(1 .. Len(s), ToSet(s))
  BY <1>1 DEF Surjection
<1> QED BY <1>2, <1>3, FS_Surjection

-----------------------------------------------------------------------------
(* The invariant.                                                        *)

(* A record without its value, as the headers define it.                 *)
Bare(r) == [name |-> r.name, extends |-> r.extends, bound |-> r.bound, entries |-> r.entries,
            header |-> r.header]
BareOf(records, h) == {Bare(r) : r \in {x \in records : x.header = h}}

OfProject(records, p) == {r \in records : ProjectOf[r.header] = p}
RegisteredIn(p)       == {r.enum : r \in ToSet(registration[p])}

OldRecords(ens) == {en.old : en \in ToSet(ens)} \ {None}

OneNameEach(records) == \A r, s \in records : r.name = s.name => r = s
KnowsBases(records)  ==
  \A r \in records : r.extends # None =>
    \E b \in records : b.name = r.extends /\ r.bound \in ToSet(b.entries)

(* No enum extends itself, not even in a circle: every name has a rank.  *)
Ranks(rank, records) == \A r, b \in records : r.extends = b.name => rank[b.name] < rank[r.name]

(* The values of the records follow from those of their base enums.      *)
Bound(records) ==
  /\ OneNameEach(records) /\ KnowsBases(records)
  /\ \E n \in Nat : \E rank \in [EnumName -> 0 .. n] : Ranks(rank, records)
  /\ \A r \in records : r.extends = None => r.start = 0
  /\ \A r, b \in records : r.extends = b.name => r.start = b.start + EntriesBefore(b.entries, r.bound)

(* The database and the files, run or no run.                            *)
DatabaseInv ==
  db # NoDatabase =>
    /\ IsInjective(db.headers)
    /\ db.projects = Project
    /\ Bound(ToSet(db.enums))
    /\ \A r \in ToSet(db.enums) : r.header \in ToSet(db.headers)
    /\ \A h \in (ToSet(db.headers) \cap Listed) \ newer : BareOf(ToSet(db.enums), h) = DefinedIn(h)
    /\ \A p \in Project \ unsaved : RegisteredIn(p) = OfProject(ToSet(db.enums), p)

(* An enum has an old or a new record, and no other has its name.        *)
WellFormed(set) ==
  /\ \A en \in set : /\ en.old # None \/ en.new # None
                     /\ en.old # None /\ en.new # None => en.old.name = en.new.name
  /\ \A en, other \in set : NameOf(en) = NameOf(other) => en = other

EnumsInv == WellFormed(ToSet(enums))

(* What a run took from the database.                                    *)
LoadedInv ==
  phase # "stopped" =>
    /\ Bound(OldRecords(enums))
    /\ \A r \in OldRecords(enums) : r.header \in ToSet(headers)
    /\ \A p \in known_projects \ unsaved : RegisteredIn(p) = OfProject(OldRecords(enums), p)

(* While headers are parsed: what is known of those that are unchanged, and *)
(* of those that have been parsed.                                          *)
ParsingInv ==
  phase = "parsing" =>
    /\ IsInjective(to_parse) /\ written = {}
    /\ \A en \in ToSet(enums) : en.new # None => en.new.header \in (listed \ unchanged) \ ToSet(to_parse)
    /\ \A h \in (unchanged \cap Listed) \ edited :
         /\ BareOf(OldRecords(enums), h) = DefinedIn(h)
         /\ \A en \in ToSet(enums) : en.old # None /\ en.old.header = h => en.new = None
    /\ \A h \in (listed \cap Listed) \ (unchanged \cup edited \cup ToSet(to_parse)) :
         BareOf(NewRecords(enums), h) = DefinedIn(h)

(* From then on: what is saved, and what the files have of it.           *)
WritingInv ==
  phase \in {"writing", "saving"} =>
    /\ Bound(NewRecords(enums))
    /\ \A r \in NewRecords(enums) : r.header \in listed
    /\ \A h \in (listed \cap Listed) \ edited : BareOf(NewRecords(enums), h) = DefinedIn(h)
    /\ \A p \in Project \ ToSet(to_write) :
         IF p \in written
         THEN RegisteredIn(p) = OfProject(NewRecords(enums), p)
         ELSE p \in known_projects /\ OfProject(OldRecords(enums), p) = OfProject(NewRecords(enums), p)
    /\ phase = "saving" => to_write = <<>>

(* A run with nothing to parse has nothing to write.                     *)
QuietInv ==
  phase = "writing" /\ unchanged = ToSet(headers) /\ known_projects = Project => to_write = <<>>

ReflectorInv == /\ OneDefinitionEach /\ DatabaseInv /\ EnumsInv
                /\ LoadedInv /\ ParsingInv /\ WritingInv /\ QuietInv
-----------------------------------------------------------------------------
(* Records and their base enums.                                         *)

(* A record with its base enums.                                         *)
Reach(r, records) == BasesOf(r, records) \cup {r}

(* Reach is the smallest set with the record and the base enum of each.  *)
LEMMA ReachLeast ==
  ASSUME NEW R, NEW r \in R
  PROVE  /\ Reach(r, R) \subseteq R /\ r \in Reach(r, R)
         /\ HasItsBases(Reach(r, R), R)
         /\ \A set \in SUBSET R : r \in set /\ HasItsBases(set, R) => Reach(r, R) \subseteq set
<1>1. Reach(r, R) = {b \in R : \A set \in SUBSET R : r \in set /\ HasItsBases(set, R) => b \in set}
  BY Zenon DEF Reach, BasesOf
<1>2. ASSUME NEW d \in Reach(r, R), NEW b \in R, b.name = d.extends
      PROVE  b \in Reach(r, R)
  <2>1. \A set \in SUBSET R : r \in set /\ HasItsBases(set, R) => d \in set
    BY <1>1
  <2>2. \A set \in SUBSET R : r \in set /\ HasItsBases(set, R) => b \in set
    BY <2>1, <1>2, Zenon DEF HasItsBases
  <2> QED BY <2>2, <1>1
<1>3. HasItsBases(Reach(r, R), R)
  BY <1>2, Zenon DEF HasItsBases
<1> QED BY <1>1, <1>3

(* A base enum has fewer base enums than what extends it.                *)
LEMMA ReachShrinks ==
  ASSUME NEW R \in SUBSET Record, ReflectorAssumption, Bindable(R),
         NEW r \in R, NEW b \in R, r.extends = b.name
  PROVE  Reach(b, R) \subseteq Reach(r, R) /\ r \notin Reach(b, R)
<1>1. r.extends # None
  BY DEF ReflectorAssumption, Record
<1>2. \A c \in Reach(r, R) : c.extends # r.name
  BY <1>1, Zenon DEF Bindable, Reach
<1>3. b \in Reach(r, R) /\ Reach(r, R) \in SUBSET R
  BY ReachLeast, Zenon DEF HasItsBases
<1>4. Reach(b, R) \subseteq Reach(r, R)
  BY <1>3, ReachLeast, Zenon
<1> DEFINE rest == Reach(b, R) \ {r}
<1>5. b \in rest
  <2>1. b # r
    <3>1. r \in Reach(r, R)
      BY ReachLeast
    <3> QED BY <3>1, <1>2
  <2> QED BY <2>1, ReachLeast
<1>6. HasItsBases(rest, R)
  <2> SUFFICES ASSUME NEW d \in rest, NEW c \in R, c.name = d.extends
               PROVE  c \in rest
    BY DEF HasItsBases
  <2>1. c \in Reach(b, R)
    BY ReachLeast, Zenon DEF HasItsBases
  <2>2. c # r
    BY <1>2, <1>4
  <2> QED BY <2>1, <2>2
<1>7. Reach(b, R) \subseteq rest
  <2>1. rest \in SUBSET R
    BY <1>3, <1>4
  <2> HIDE DEF rest
  <2> QED BY <1>5, <1>6, <2>1, ReachLeast, Zenon
<1> QED BY <1>4, <1>7

(* Records that can be bound have ranks: the number of their base enums. *)
LEMMA RankExists ==
  ASSUME NEW R \in SUBSET Record, ReflectorAssumption, IsFiniteSet(R), Bindable(R), OneNameEach(R)
  PROVE  \E n \in Nat : \E rank \in [EnumName -> 0 .. n] : Ranks(rank, R)
<1> DEFINE n == Cardinality(R)
           Size(r) == Cardinality(Reach(r, R))
           rank == [name \in EnumName |->
                      IF \E r \in R : r.name = name THEN Size(CHOOSE r \in R : r.name = name) ELSE 0]
<1>1. n \in Nat
  BY FS_CardinalityType
<1>2. ASSUME NEW r \in R PROVE Size(r) \in 0 .. n /\ IsFiniteSet(Reach(r, R))
  <2>1. Reach(r, R) \subseteq R
    BY ReachLeast
  <2>2. IsFiniteSet(Reach(r, R)) /\ Size(r) <= n
    BY <2>1, FS_Subset
  <2>3. Size(r) \in Nat
    BY <2>2, FS_CardinalityType
  <2> QED BY <1>1, <2>2, <2>3
<1>3. ASSUME NEW r \in R, NEW b \in R, r.extends = b.name PROVE Size(b) < Size(r)
  <2>1. Reach(b, R) \subseteq Reach(r, R) /\ r \notin Reach(b, R)
    BY <1>3, ReachShrinks
  <2>2. r \in Reach(r, R)
    BY ReachLeast
  <2>3. Reach(b, R) # Reach(r, R) /\ IsFiniteSet(Reach(r, R)) /\ Size(b) \in Nat /\ Size(r) \in Nat
    BY <1>2, <2>1, <2>2, <1>1
  <2>4. Size(b) <= Size(r) /\ Size(b) # Size(r)
    BY <2>1, <2>3, FS_Subset
  <2> QED BY <2>3, <2>4
<1> HIDE DEF n, Size
<1>4. rank \in [EnumName -> 0 .. n]
  <2>1. 0 \in 0 .. n
    BY <1>1
  <2> QED BY <1>2, <2>1
<1>5. ASSUME NEW r \in R PROVE rank[r.name] = Size(r)
  <2>1. r.name \in EnumName
    BY DEF Record
  <2>2. (CHOOSE x \in R : x.name = r.name) = r
    BY DEF OneNameEach
  <2> QED BY <2>1, <2>2
<1> HIDE DEF rank
<1>6. Ranks(rank, R)
  BY <1>3, <1>5 DEF Ranks
<1> QED BY <1>1, <1>4, <1>6

-----------------------------------------------------------------------------
(* The values of records.                                                *)

(* What a record is made of.                                             *)
LEMMA RecordParts ==
  ASSUME ReflectorAssumption, NEW r \in Record
  PROVE  /\ r.name \in EnumName /\ r.name # None /\ r # None
         /\ r.header \in Header /\ r.start \in Nat
         /\ \A name \in ToSet(r.entries) : EntriesBefore(r.entries, name) \in Nat
<1>1. r.name \in EnumName /\ r.header \in Header /\ r.start \in Nat /\ r.entries \in {d.entries : d \in Definitions}
  BY DEF Record
<1>2. PICK d \in Definitions : r.entries = d.entries
  BY <1>1
<1>3. r.entries \in Seq(ToSet(r.entries) \ {None})
  BY <1>2, Zenon DEF ReflectorAssumption
<1>4. ASSUME NEW name \in ToSet(r.entries) PROVE EntriesBefore(r.entries, name) \in Nat
  <2> DEFINE entries == r.entries
  <2>1. DOMAIN entries = 1 .. Len(entries) /\ Len(entries) \in Nat
    BY <1>3
  <2>2. \E k \in DOMAIN entries : entries[k] = name
    BY <1>3, Members
  <2> HIDE DEF entries
  <2>3. PICK k \in DOMAIN entries : k = CHOOSE i \in DOMAIN entries : entries[i] = name
    BY <2>2
  <2>4. k - 1 \in Nat
    BY <2>1
  <2> QED BY <2>3, <2>4 DEF EntriesBefore, entries
<1>5. r.name # None /\ r # None
  BY <1>1, Zenon DEF ReflectorAssumption
<1> QED BY <1>1, <1>4, <1>5

(* Functions that agree, and those that agree on a record whenever they  *)
(* do on the records of lower rank.                                      *)
Agree(R, f, g) == \A r \in R : f[r] = g[r]

AgreeByRank(R, f, g, rank) ==
  \A r \in R : (\A b \in R : rank[b] < rank[r] => f[b] = g[b]) => f[r] = g[r]

(* The latter agree.                                                     *)
LEMMA OneSolution ==
  ASSUME NEW R, NEW f, NEW g, NEW rank \in [R -> Nat], AgreeByRank(R, f, g, rank)
  PROVE  Agree(R, f, g)
<1> DEFINE bad == {r \in R : f[r] # g[r]}
           ranks == {rank[r] : r \in bad}
<1> SUFFICES ASSUME bad # {} PROVE FALSE
  BY DEF Agree
<1>1. ranks \in SUBSET Nat /\ ranks # {}
  OBVIOUS
<1>2. PICK m \in ranks : \A k \in ranks : m <= k
  <2> HIDE DEF ranks
  <2> QED BY <1>1, NatSmallest, Zenon
<1>3. PICK r \in bad : rank[r] = m
  OBVIOUS
<1>4. \A b \in R : rank[b] < rank[r] => f[b] = g[b]
  <2> SUFFICES ASSUME NEW b \in R, rank[b] < rank[r], f[b] # g[b] PROVE FALSE
    OBVIOUS
  <2>1. m <= rank[b]
    BY <1>2
  <2>2. rank[b] \in Nat /\ rank[r] \in Nat
    OBVIOUS
  <2> QED BY <2>1, <2>2, <1>3
<1> QED BY <1>3, <1>4 DEF AgreeByRank

(* Compute_Extension_Enum_Starting_Value ends for records with ranks, and *)
(* its values are those that follow from the base enums.                 *)
LEMMA StartingValueSolved ==
  ASSUME ReflectorAssumption, NEW R \in SUBSET Record, OneNameEach(R), KnowsBases(R),
         NEW n \in Nat, NEW rank \in [EnumName -> 0 .. n], Ranks(rank, R)
  PROVE  /\ StartingValue(R) \in [R -> Nat]
         /\ \A r \in R : r.extends = None => StartingValue(R)[r] = 0
         /\ \A r, b \in R : r.extends = b.name =>
              StartingValue(R)[r] = StartingValue(R)[b] + EntriesBefore(b.entries, r.bound)
<1> DEFINE Base(r) == CHOOSE b \in R : b.name = r.extends
           Value(f, r) == IF r.extends = None THEN 0 ELSE f[Base(r)] + EntriesBefore(Base(r).entries, r.bound)
           Body(f) == [r \in R |-> Value(f, r)]
           start == CHOOSE f : f = Body(f)
           T == [R -> Nat]
           zero == [r \in R |-> 0]
           step == [i \in 1 .. n + 1 |-> [f \in T |-> Body(f)]]
<1>1. StartingValue(R) = start
  BY DEF StartingValue
<1>2. ASSUME NEW r \in R
      PROVE  /\ r.name \in EnumName /\ r.name # None
             /\ \A name \in ToSet(r.entries) : EntriesBefore(r.entries, name) \in Nat
  BY RecordParts
<1>3. ASSUME NEW r \in R, NEW b \in R, r.extends = b.name
      PROVE  Base(r) = b /\ r.extends # None /\ rank[b.name] < rank[r.name]
  BY <1>2, <1>3 DEF OneNameEach, Ranks
<1>4. ASSUME NEW r \in R, r.extends # None
      PROVE  Base(r) \in R /\ Base(r).name = r.extends /\ r.bound \in ToSet(Base(r).entries)
  <2>1. PICK b \in R : b.name = r.extends /\ r.bound \in ToSet(b.entries)
    BY <1>4 DEF KnowsBases
  <2>2. Base(r) = b
    BY <1>3, <2>1
  <2> HIDE DEF Base
  <2> QED BY <2>1, <2>2
<1>5. ASSUME NEW f \in T PROVE Body(f) \in T
  <2> SUFFICES ASSUME NEW r \in R PROVE Value(f, r) \in Nat
    OBVIOUS
  <2>1. CASE r.extends = None
    BY <2>1
  <2>2. CASE r.extends # None
    <3> DEFINE b == Base(r)
    <3>1. b \in R /\ r.bound \in ToSet(b.entries)
      BY <1>4, <2>2
    <3> HIDE DEF b
    <3>2. f[b] \in Nat /\ EntriesBefore(b.entries, r.bound) \in Nat
      BY <3>1, <1>2
    <3> QED BY <3>2, <2>2 DEF b
  <2> QED BY <2>1, <2>2
<1>6. PICK build : Iterates(build, n + 1, T, zero, step)
  <2>1. zero \in T /\ n + 1 \in Nat
    OBVIOUS
  <2>2. step \in [1 .. n + 1 -> [T -> T]]
    <3> HIDE DEF Body, T
    <3> QED BY <1>5
  <2> HIDE DEF zero, T, step
  <2> QED BY <2>1, <2>2, Iterated, Zenon
<1>7. /\ build \in [0 .. n + 1 -> T]
      /\ \A i \in 1 .. n + 1 : build[i] = Body(build[i - 1])
  <2> HIDE DEF T, Body
  <2>1. ASSUME NEW i \in 1 .. n + 1 PROVE i - 1 \in 0 .. n + 1
    OBVIOUS
  <2> QED BY <1>6, <2>1 DEF Iterates
<1> HIDE DEF step, zero
(* After i steps the values of the records of a rank below i are there.  *)
<1> DEFINE Settled(i) == \A r \in R : rank[r.name] < i => Value(build[i], r) = build[i][r]
           S == {i \in 0 .. n + 1 : Settled(i)}
<1>8. 0 \in S
  <2>1. \A r \in R : ~ (rank[r.name] < 0)
    BY <1>2
  <2> QED BY <2>1
<1>9. ASSUME NEW i \in 1 .. n + 1, i - 1 \in S PROVE i \in S
  <2> SUFFICES ASSUME NEW r \in R, rank[r.name] < i PROVE Value(build[i], r) = build[i][r]
    OBVIOUS
  <2>0. \A x \in R : build[i][x] = Value(build[i - 1], x)
    <3>1. build[i] = Body(build[i - 1])
      <4> HIDE DEF Body
      <4> QED BY <1>7
    <3> HIDE DEF Value
    <3> QED BY <3>1
  <2>1. CASE r.extends = None
    BY <2>0, <2>1
  <2>2. CASE r.extends # None
    <3> DEFINE b == Base(r)
    <3>1. b \in R /\ b.name = r.extends
      BY <1>4, <2>2
    <3>2. Base(r) = b
      OBVIOUS
    <3> HIDE DEF b
    <3>3. rank[b.name] < rank[r.name]
      BY <3>1 DEF Ranks
    <3>4. rank[b.name] < i - 1
      <4>1. rank[b.name] \in Nat /\ rank[r.name] \in Nat /\ i \in Nat
        BY <3>1, <1>2
      <4> QED BY <4>1, <3>3
    <3>5. Value(build[i - 1], b) = build[i - 1][b]
      <4> HIDE DEF Value
      <4> QED BY <3>1, <3>4, <1>9
    <3>6. build[i][b] = build[i - 1][b]
      <4> HIDE DEF Value
      <4> QED BY <2>0, <3>1, <3>5
    <3>7. build[i][r] = build[i - 1][b] + EntriesBefore(b.entries, r.bound)
      BY <2>0, <2>2, <3>2
    <3>8. Value(build[i], r) = build[i][b] + EntriesBefore(b.entries, r.bound)
      BY <2>2, <3>2
    <3> QED BY <3>6, <3>7, <3>8
  <2> QED BY <2>1, <2>2
<1>10. build[n + 1] \in T /\ build[n + 1] = Body(build[n + 1])
  <2>1. n + 1 \in S
    <3> HIDE DEF S
    <3>1. n + 1 \in Nat /\ \A i \in 1 .. n + 1 : i - 1 \in S => i \in S
      BY <1>9
    <3>2. 0 .. n + 1 \subseteq S
      BY <1>8, <3>1, UpToInduction, Zenon
    <3> QED BY <3>2
  <2>2. \A r \in R : rank[r.name] < n + 1
    BY <1>2
  <2>3. \A r \in R : Value(build[n + 1], r) = build[n + 1][r]
    <3> HIDE DEF Value
    <3> QED BY <2>1, <2>2
  <2>4. build[n + 1] \in T
    <3> HIDE DEF T
    <3> QED BY <1>7
  <2> HIDE DEF Value
  <2>5. build[n + 1] = [r \in R |-> build[n + 1][r]]
    BY <2>4
  <2> QED BY <2>3, <2>4, <2>5
<1>11. start = Body(start)
  <2> HIDE DEF Body
  <2> QED BY <1>10
<1> HIDE DEF start
<1>12. \A r \in R : start[r] = Value(start, r)
  <2> HIDE DEF Value
  <2> QED BY <1>11
<1> DEFINE final == build[n + 1]
<1>13. \A r \in R : final[r] = Value(final, r)
  <2> HIDE DEF Value
  <2> QED BY <1>10
<1>14. Agree(R, start, final)
  <2> DEFINE height == [r \in R |-> rank[r.name]]
  <2>1. height \in [R -> Nat]
    BY <1>2
  <2>2. ASSUME NEW r \in R, \A b \in R : height[b] < height[r] => start[b] = final[b]
        PROVE  start[r] = final[r]
    <3>1. CASE r.extends = None
      BY <3>1, <1>12, <1>13
    <3>2. CASE r.extends # None
      <4> DEFINE b == Base(r)
      <4>1. b \in R /\ b.name = r.extends
        BY <1>4, <3>2
      <4>2. Base(r) = b
        OBVIOUS
      <4> HIDE DEF b, final
      <4>3. height[b] < height[r]
        BY <4>1 DEF Ranks
      <4> HIDE DEF height
      <4>4. start[b] = final[b]
        BY <2>2, <4>1, <4>3
      <4>5. /\ start[r] = start[b] + EntriesBefore(b.entries, r.bound)
            /\ final[r] = final[b] + EntriesBefore(b.entries, r.bound)
        BY <1>12, <1>13, <3>2, <4>2
      <4> QED BY <4>4, <4>5
    <3> QED BY <3>1, <3>2
  <2> HIDE DEF height, final
  <2>3. AgreeByRank(R, start, final, height)
    BY <2>2, Zenon DEF AgreeByRank
  <2> QED BY <2>1, <2>3, OneSolution, Zenon
<1>15. start \in T
  <2>1. start = [r \in R |-> start[r]]
    <3> HIDE DEF Value
    <3> QED BY <1>11
  <2>2. \A r \in R : start[r] \in Nat
    BY <1>10, <1>14 DEF Agree
  <2> QED BY <2>1, <2>2
<1>16. ASSUME NEW r \in R, r.extends = None PROVE start[r] = 0
  BY <1>12, <1>16
<1>17. ASSUME NEW r \in R, NEW b \in R, r.extends = b.name
       PROVE  start[r] = start[b] + EntriesBefore(b.entries, r.bound)
  <2>1. Base(r) = b /\ r.extends # None
    BY <1>3, <1>17
  <2> HIDE DEF Base
  <2> QED BY <2>1, <1>12
<1> QED BY <1>1, <1>15, <1>16, <1>17

(* Records that are bound already keep their values.                     *)
LEMMA BoundKeepsValues ==
  ASSUME ReflectorAssumption, NEW R \in SUBSET Record, Bound(R)
  PROVE  \A r \in R : StartingValue(R)[r] = r.start
<1>1. PICK n \in Nat : \E rank \in [EnumName -> 0 .. n] : Ranks(rank, R)
  BY DEF Bound
<1>2. PICK rank \in [EnumName -> 0 .. n] : Ranks(rank, R)
  BY <1>1
<1> DEFINE start == StartingValue(R)
           own   == [r \in R |-> r.start]
           height == [r \in R |-> rank[r.name]]
<1>3. OneNameEach(R) /\ KnowsBases(R)
  BY DEF Bound
<1>4. /\ \A r \in R : r.extends = None => start[r] = 0
      /\ \A r, b \in R : r.extends = b.name => start[r] = start[b] + EntriesBefore(b.entries, r.bound)
  BY <1>2, <1>3, StartingValueSolved
<1> HIDE DEF start
<1>5. height \in [R -> Nat]
  <2>1. \A r \in R : r.name \in EnumName
    BY RecordParts
  <2> QED BY <2>1
<1>6. ASSUME NEW r \in R, \A b \in R : height[b] < height[r] => start[b] = own[b]
      PROVE  start[r] = own[r]
  <2>1. CASE r.extends = None
    BY <2>1, <1>4 DEF Bound
  <2>2. CASE r.extends # None
    <3>1. PICK b \in R : b.name = r.extends
      BY <2>2, <1>3 DEF KnowsBases
    <3>2. height[b] < height[r]
      BY <3>1, <1>2 DEF Ranks
    <3>3. start[b] = own[b]
      <4> HIDE DEF height, own
      <4> QED BY <3>2, <1>6
    <3>4. /\ start[r] = start[b] + EntriesBefore(b.entries, r.bound)
          /\ r.start = b.start + EntriesBefore(b.entries, r.bound)
      BY <3>1, <1>4 DEF Bound
    <3> QED BY <3>3, <3>4
  <2> QED BY <2>1, <2>2
<1>7. Agree(R, start, own)
  <2> HIDE DEF height, own
  <2>1. AgreeByRank(R, start, own, height)
    BY <1>6, Zenon DEF AgreeByRank
  <2> QED BY <1>5, <2>1, OneSolution, Zenon
<1> QED BY <1>7 DEF start, Agree

(* The values of what the headers define are those of records that are   *)
(* bound and define the same.                                            *)
LEMMA ValuesOfBound ==
  ASSUME ReflectorAssumption, NEW R \in SUBSET Record, Bound(R), {Bare(r) : r \in R} = Defined
  PROVE  \A r \in R : Values(Bare(r)) = r
<1> DEFINE Base(e) == CHOOSE b \in Extended(e) : TRUE
           Value(f, e) == IF Extended(e) = {} THEN 0 ELSE f[Base(e)] + EntriesBefore(Base(e).entries, e.bound)
           Body(f) == [e \in Defined |-> Value(f, e)]
           start == CHOOSE f : f = Body(f)
           Source(e) == CHOOSE r \in R : Bare(r) = e
           own == [e \in Defined |-> Source(e).start]
<1>1. PICK n \in Nat : \E rank \in [EnumName -> 0 .. n] : Ranks(rank, R)
  BY DEF Bound
<1>2. PICK rank \in [EnumName -> 0 .. n] : Ranks(rank, R)
  BY <1>1
<1>3. OneNameEach(R) /\ KnowsBases(R)
  BY DEF Bound
<1>4. ASSUME NEW r \in R
      PROVE  /\ r.name \in EnumName /\ r.name # None
             /\ Bare(r) \in Defined /\ Source(Bare(r)) = r
             /\ Bare(r).name = r.name /\ Bare(r).extends = r.extends
             /\ Bare(r).bound = r.bound /\ Bare(r).entries = r.entries
  <2>1. \A x \in R : Bare(x) = Bare(r) => x.name = r.name
    BY DEF Bare
  <2>2. \A x \in R : Bare(x) = Bare(r) => x = r
    BY <2>1, <1>3 DEF OneNameEach
  <2>3. Source(Bare(r)) = r
    BY <2>2
  <2>4. r.name \in EnumName /\ r.name # None
    BY RecordParts
  <2> QED BY <2>3, <2>4 DEF Bare
<1>5. ASSUME NEW e \in Defined PROVE Source(e) \in R /\ Bare(Source(e)) = e
  OBVIOUS
<1> HIDE DEF Source
<1>6. ASSUME NEW r \in R, r.extends = None
      PROVE  Extended(Bare(r)) = {}
  <2>1. \A e \in Defined : e.name # None
    BY <1>4, <1>5
  <2> QED BY <2>1, <1>4, <1>6 DEF Extended
<1>7. ASSUME NEW r \in R, NEW b \in R, r.extends = b.name
      PROVE  Extended(Bare(r)) # {} /\ Base(Bare(r)) = Bare(b)
  <2>1. Bare(b) \in Extended(Bare(r))
    BY <1>4, <1>7 DEF Extended
  <2>2. ASSUME NEW e \in Extended(Bare(r)) PROVE e = Bare(b)
    <3>1. e \in Defined /\ e.name = b.name
      BY <1>4, <1>7 DEF Extended
    <3>2. Source(e) \in R /\ Bare(Source(e)) = e /\ Source(e).name = e.name
      BY <3>1, <1>4, <1>5
    <3>3. Source(e) = b
      BY <3>1, <3>2, <1>3 DEF OneNameEach
    <3> QED BY <3>2, <3>3
  <2> QED BY <2>1, <2>2
<1> HIDE DEF Base
<1>8. ASSUME NEW r \in R, r.extends # None
      PROVE  \E b \in R : r.extends = b.name
  BY <1>8, <1>3 DEF KnowsBases
<1>9. ASSUME NEW f, NEW r \in R, r.extends = None
      PROVE  Value(f, Bare(r)) = 0 /\ own[Bare(r)] = 0
  <2>1. r.start = 0
    BY <1>9 DEF Bound
  <2>2. own[Bare(r)] = r.start
    BY <1>4
  <2> QED BY <2>1, <2>2, <1>6, <1>9
<1>10. ASSUME NEW f, NEW r \in R, NEW b \in R, r.extends = b.name
       PROVE  /\ Value(f, Bare(r)) = f[Bare(b)] + EntriesBefore(b.entries, r.bound)
              /\ own[Bare(r)] = own[Bare(b)] + EntriesBefore(b.entries, r.bound)
  <2>1. r.start = b.start + EntriesBefore(b.entries, r.bound)
    BY <1>10 DEF Bound
  <2>2. own[Bare(r)] = r.start /\ own[Bare(b)] = b.start
    BY <1>4
  <2>3. Bare(b).entries = b.entries /\ Bare(r).bound = r.bound
    BY <1>4
  <2> HIDE DEF own
  <2>4. Value(f, Bare(r)) = f[Bare(b)] + EntriesBefore(Bare(b).entries, Bare(r).bound)
    BY <1>7, <1>10
  <2> QED BY <2>1, <2>2, <2>3, <2>4
<1>11. own = Body(own)
  <2>1. ASSUME NEW e \in Defined PROVE own[e] = Value(own, e)
    <3>1. PICK r \in R : e = Bare(r)
      BY <1>5
    <3> HIDE DEF own, Value
    <3>2. CASE r.extends = None
      BY <3>1, <3>2, <1>9
    <3>3. CASE r.extends # None
      <4>1. PICK b \in R : r.extends = b.name
        BY <1>8, <3>3
      <4> QED BY <3>1, <4>1, <1>10
    <3> QED BY <3>2, <3>3
  <2>2. own = [e \in Defined |-> own[e]]
    OBVIOUS
  <2> HIDE DEF own, Value
  <2> QED BY <2>1, <2>2
<1>12. start = Body(start)
  <2> HIDE DEF Body, own
  <2> QED BY <1>11
<1> HIDE DEF start, own
<1>13. \A e \in Defined : start[e] = Value(start, e)
  <2> HIDE DEF Value
  <2> QED BY <1>12
<1> HIDE DEF Value
<1> DEFINE height == [e \in Defined |-> rank[e.name]]
<1>14. \A e \in Defined : start[e] = own[e]
  <2>1. height \in [Defined -> Nat]
    <3>1. \A e \in Defined : e.name \in EnumName
      BY <1>4, <1>5
    <3> QED BY <3>1
  <2>2. ASSUME NEW e \in Defined, \A x \in Defined : height[x] < height[e] => start[x] = own[x]
        PROVE  start[e] = own[e]
    <3>1. PICK r \in R : e = Bare(r)
      BY <1>5
    <3>2. CASE r.extends = None
      BY <3>1, <3>2, <1>9, <1>13
    <3>3. CASE r.extends # None
      <4>1. PICK b \in R : r.extends = b.name
        BY <1>8, <3>3
      <4>2. rank[b.name] < rank[r.name]
        BY <4>1, <1>2 DEF Ranks
      <4>3. height[Bare(b)] < height[e] /\ Bare(b) \in Defined
        BY <4>2, <3>1, <1>4
      <4>4. start[Bare(b)] = own[Bare(b)]
        <5> HIDE DEF height
        <5> QED BY <4>3, <2>2
      <4>5. /\ start[e] = start[Bare(b)] + EntriesBefore(b.entries, r.bound)
            /\ own[e] = own[Bare(b)] + EntriesBefore(b.entries, r.bound)
        BY <3>1, <4>1, <1>10, <1>13
      <4> QED BY <4>4, <4>5
    <3> QED BY <3>2, <3>3
  <2> HIDE DEF height
  <2>3. AgreeByRank(Defined, start, own, height)
    BY <2>2, Zenon DEF AgreeByRank
  <2>4. Agree(Defined, start, own)
    BY <2>1, <2>3, OneSolution, Zenon
  <2> QED BY <2>4 DEF Agree
<1>15. ASSUME NEW r \in R PROVE Values(Bare(r)) = r
  <2> DEFINE d == Bare(r)
  <2>1. Values(d) = [name |-> d.name, extends |-> d.extends, bound |-> d.bound,
                     entries |-> d.entries, start |-> start[d], header |-> d.header]
    <3> HIDE DEF d
    <3> QED BY Zenon DEF Values, start, Body, Value, Base
  <2>2. start[d] = r.start
    <3>1. own[d] = r.start
      BY <1>4 DEF own
    <3> QED BY <3>1, <1>4, <1>14
  <2>3. /\ d.name = r.name /\ d.extends = r.extends /\ d.bound = r.bound
        /\ d.entries = r.entries /\ d.header = r.header
    BY DEF Bare
  <2>4. r = [name |-> r.name, extends |-> r.extends, bound |-> r.bound, entries |-> r.entries,
             start |-> r.start, header |-> r.header]
    BY DEF Record
  <2> HIDE DEF d
  <2> QED BY <2>1, <2>2, <2>3, <2>4 DEF d
<1> QED BY <1>15

-----------------------------------------------------------------------------
(* What a run does to enums.                                             *)

(* The records of a sequence of enums.                                   *)
LEMMA EnumRecords ==
  ASSUME NEW ens \in Seq(Enum)
  PROVE  /\ NewRecords(ens) \in SUBSET Record /\ OldRecords(ens) \in SUBSET Record
         /\ \A r : r \in NewRecords(ens) <=> r # None /\ \E en \in ToSet(ens) : en.new = r
         /\ \A r : r \in OldRecords(ens) <=> r # None /\ \E en \in ToSet(ens) : en.old = r
<1>1. ToSet(ens) \subseteq Enum
  BY Members
<1>2. \A en \in ToSet(ens) : en.new \in Record \cup {None} /\ en.old \in Record \cup {None}
  BY <1>1 DEF Enum
<1> QED BY <1>2 DEF NewRecords, OldRecords

(* The records that are saved.                                           *)
LEMMA SavedRecords ==
  ASSUME NEW ens \in Seq(Enum)
  PROVE  SaveRecords(ens) \in Seq(Record) /\ ToSet(SaveRecords(ens)) = NewRecords(ens)
<1> DEFINE live == {en \in ToSet(ens) : en.new # None}
           kept == Keep(ens, live)
           saved == [k \in DOMAIN kept |-> kept[k].new]
<1>1. SaveRecords(ens) = saved
  BY DEF SaveRecords
<1>2. kept \in Seq(Enum) /\ ToSet(kept) = live
  <2>1. ToSet(ens) \cap live = live
    OBVIOUS
  <2> HIDE DEF live
  <2> QED BY <2>1, Kept
<1>3. \A en \in live : en.new \in Record
  <2>1. live \subseteq Enum
    BY Members
  <2> QED BY <2>1 DEF Enum
<1> HIDE DEF live, kept
<1>4. \A x : x \in ToSet(kept) <=> \E k \in DOMAIN kept : kept[k] = x
  BY <1>2, Members
<1>5. saved = [k \in DOMAIN kept |-> saved[k]] /\ \A k \in DOMAIN kept : saved[k] = kept[k].new
  OBVIOUS
<1>6. \A k \in DOMAIN kept : saved[k] \in Record
  BY <1>2, <1>3, <1>4
<1> HIDE DEF saved
<1>7. saved \in Seq(Record) /\ \A x : x \in ToSet(saved) <=> \E k \in DOMAIN kept : saved[k] = x
  <2>1. MapsTo(kept, saved, Record)
    BY <1>5, <1>6, Zenon DEF MapsTo
  <2>2. saved \in Seq(Record) /\ MembersByPlace(kept, saved)
    BY <1>2, <2>1, MappedSeq, Zenon
  <2> QED BY <2>2, Zenon DEF MembersByPlace
<1>8. \A x : x \in ToSet(saved) <=> \E en \in live : en.new = x
  BY <1>2, <1>4, <1>5, <1>7
<1>9. \A x : x \in NewRecords(ens) <=> \E en \in live : en.new = x
  BY EnumRecords DEF live
<1> QED BY <1>1, <1>7, <1>8, <1>9

(* The file of a project registers the project's records.                *)
LEMMA BuiltText ==
  ASSUME enums \in Seq(Enum), NEW p
  PROVE  /\ Build_CPP_Text(p) \in Seq(Registered)
         /\ {r.enum : r \in ToSet(Build_CPP_Text(p))} = OfProject(NewRecords(enums), p)
<1> DEFINE records == SaveRecords(enums)
           mine    == {r \in ToSet(records) : ProjectOf[r.header] = p}
           own     == Keep(records, mine)
           text    == [k \in DOMAIN own |-> [enum |-> own[k], bases |-> BasesOf(own[k], ToSet(records))]]
<1>1. Build_CPP_Text(p) = text
  BY DEF Build_CPP_Text
<1>2. records \in Seq(Record) /\ ToSet(records) = NewRecords(enums)
  BY SavedRecords
<1>3. mine = OfProject(NewRecords(enums), p)
  BY <1>2 DEF OfProject
<1>4. own \in Seq(Record) /\ ToSet(own) = mine
  <2>1. ToSet(records) \cap mine = mine
    OBVIOUS
  <2> HIDE DEF mine, records
  <2> QED BY <1>2, <2>1, Kept
<1>5. ToSet(records) \subseteq Record
  BY <1>2, Members
<1> HIDE DEF own, mine, records
<1>6. \A x : x \in ToSet(own) <=> \E k \in DOMAIN own : own[k] = x
  BY <1>4, Members
<1>7. \A k \in DOMAIN own : text[k] \in Registered
  <2> SUFFICES ASSUME NEW k \in DOMAIN own PROVE text[k] \in Registered
    OBVIOUS
  <2>1. own[k] \in Record
    BY <1>4, <1>6, Members
  <2>2. BasesOf(own[k], ToSet(records)) \subseteq Record
    BY <1>5 DEF BasesOf
  <2> QED BY <2>1, <2>2 DEF Registered
<1>8. text = [k \in DOMAIN own |-> text[k]] /\ \A k \in DOMAIN own : text[k].enum = own[k]
  OBVIOUS
<1> HIDE DEF text
<1>9. text \in Seq(Registered) /\ \A x : x \in ToSet(text) <=> \E k \in DOMAIN own : text[k] = x
  <2>1. MapsTo(own, text, Registered)
    BY <1>7, <1>8, Zenon DEF MapsTo
  <2>2. text \in Seq(Registered) /\ MembersByPlace(own, text)
    BY <1>4, <2>1, MappedSeq, Zenon
  <2> QED BY <2>2, Zenon DEF MembersByPlace
<1>10. {r.enum : r \in ToSet(text)} = ToSet(own)
  BY <1>6, <1>8, <1>9
<1> QED BY <1>1, <1>3, <1>4, <1>9, <1>10

(* A parsed definition gives a new record to the enum of its name, and   *)
(* leaves every other as it is.                                          *)
Parsed(set, record, result) ==
  /\ WellFormed(result)
  /\ \A r : r # None => ((\E en \in result : en.old = r) <=> (\E en \in set : en.old = r))
  /\ \A en \in result : (en \in set /\ NameOf(en) # record.name) \/ en.new = record
  /\ \A en \in set : NameOf(en) # record.name => en \in result
  /\ \E en \in result : en.new = record

(* That is what Initialize_Parsed_Enum does.                             *)
LEMMA Initialized ==
  ASSUME ReflectorAssumption, NEW ens \in Seq(Enum), WellFormed(ToSet(ens)), NEW record \in Record
  PROVE  /\ Initialize_Parsed_Enum(ens, record) \in Seq(Enum)
         /\ Parsed(ToSet(ens), record, ToSet(Initialize_Parsed_Enum(ens, record)))
<1> DEFINE result == Initialize_Parsed_Enum(ens, record)
<1>1. record # None
  BY RecordParts
<1>2. /\ Len(ens) \in Nat /\ DOMAIN ens = 1 .. Len(ens) /\ ToSet(ens) \subseteq Enum
      /\ \A x : x \in ToSet(ens) <=> \E k \in DOMAIN ens : ens[k] = x
  BY Members
<1>3. CASE \E k \in DOMAIN ens : NameOf(ens[k]) = record.name
  <2> DEFINE Given(en) == IF NameOf(en) = record.name THEN [en EXCEPT !.new = record] ELSE en
             given == [k \in DOMAIN ens |-> Given(ens[k])]
  <2>1. result = given
    BY <1>3 DEF Initialize_Parsed_Enum
  <2>2. ASSUME NEW en \in ToSet(ens)
        PROVE  /\ Given(en) \in Enum /\ Given(en).old = en.old
               /\ NameOf(en) = record.name => Given(en).new = record
               /\ NameOf(en) # record.name => Given(en) = en
    <3>1. en \in Enum
      BY <1>2
    <3>2. CASE NameOf(en) # record.name
      BY <3>1, <3>2
    <3>3. CASE NameOf(en) = record.name
      <4>1. Given(en) = [en EXCEPT !.new = record]
        BY <3>3
      <4>2. Given(en) = [old |-> en.old, new |-> record]
        BY <3>1, <4>1 DEF Enum
      <4>3. en.old \in Record \cup {None}
        BY <3>1 DEF Enum
      <4> HIDE DEF Given
      <4> QED BY <4>2, <4>3, <3>3 DEF Enum
    <3> QED BY <3>2, <3>3
  <2>3. ASSUME NEW en \in ToSet(ens) PROVE NameOf(Given(en)) = NameOf(en)
    <3>1. CASE NameOf(en) # record.name
      BY <2>2, <3>1
    <3>2. CASE NameOf(en) = record.name
      BY <2>2, <3>2 DEF NameOf
    <3> QED BY <3>1, <3>2
  <2> HIDE DEF Given
  <2>4. given \in Seq(Enum) /\ \A x : x \in ToSet(given) <=> \E en \in ToSet(ens) : Given(en) = x
    <3>1. given = [k \in DOMAIN ens |-> given[k]] /\ \A k \in DOMAIN ens : given[k] = Given(ens[k])
      OBVIOUS
    <3> HIDE DEF given
    <3>2. given \in Seq(Enum) /\ \A x : x \in ToSet(given) <=> \E k \in DOMAIN ens : given[k] = x
      <4>1. \A k \in DOMAIN ens : given[k] \in Enum
        BY <1>2, <2>2, <3>1
      <4>2. MapsTo(ens, given, Enum)
        BY <3>1, <4>1, Zenon DEF MapsTo
      <4>3. given \in Seq(Enum) /\ MembersByPlace(ens, given)
        BY <4>2, MappedSeq, Zenon
      <4> QED BY <4>3, Zenon DEF MembersByPlace
    <3>3. \A k \in DOMAIN ens : ens[k] \in ToSet(ens)
      BY <1>2
    <3>4. ASSUME NEW x \in ToSet(given) PROVE \E en \in ToSet(ens) : Given(en) = x
      <4>1. PICK k \in DOMAIN ens : given[k] = x
        BY <3>2
      <4>2. Given(ens[k]) = x /\ ens[k] \in ToSet(ens)
        BY <3>1, <3>3, <4>1
      <4> QED BY <4>2
    <3>5. ASSUME NEW en \in ToSet(ens) PROVE Given(en) \in ToSet(given)
      <4>1. PICK k \in DOMAIN ens : ens[k] = en
        BY <1>2
      <4> QED BY <3>1, <3>2, <4>1
    <3> QED BY <3>2, <3>4, <3>5
  <2> HIDE DEF given
  <2>5. WellFormed(ToSet(given))
    <3>1. ASSUME NEW x \in ToSet(given)
          PROVE  /\ x.old # None \/ x.new # None
                 /\ x.old # None /\ x.new # None => x.old.name = x.new.name
      <4>1. PICK en \in ToSet(ens) : Given(en) = x
        BY <2>4
      <4>2. CASE NameOf(en) # record.name
        BY <2>2, <4>1, <4>2 DEF WellFormed
      <4>3. CASE NameOf(en) = record.name
        <5>1. x.new = record /\ x.old = en.old
          BY <2>2, <4>1, <4>3
        <5> QED BY <5>1, <4>3, <1>1 DEF NameOf
      <4> QED BY <4>2, <4>3
    <3>2. ASSUME NEW x \in ToSet(given), NEW y \in ToSet(given), NameOf(x) = NameOf(y)
          PROVE  x = y
      <4>1. PICK en \in ToSet(ens) : Given(en) = x
        BY <2>4
      <4>2. PICK other \in ToSet(ens) : Given(other) = y
        BY <2>4
      <4>3. NameOf(en) = NameOf(other)
        BY <2>3, <3>2, <4>1, <4>2
      <4>4. en = other
        BY <4>3 DEF WellFormed
      <4> QED BY <4>1, <4>2, <4>4
    <3> QED BY <3>1, <3>2 DEF WellFormed
  <2>6. \A r : (\E en \in ToSet(given) : en.old = r) <=> (\E en \in ToSet(ens) : en.old = r)
    BY <2>2, <2>4
  <2>7. /\ \A x \in ToSet(given) : (x \in ToSet(ens) /\ NameOf(x) # record.name) \/ x.new = record
        /\ \A en \in ToSet(ens) : NameOf(en) # record.name => en \in ToSet(given)
        /\ \E x \in ToSet(given) : x.new = record
    <3>1. \E en \in ToSet(ens) : NameOf(en) = record.name
      BY <1>2, <1>3
    <3> QED BY <3>1, <2>2, <2>4
  <2> HIDE DEF result
  <2> QED BY <2>1, <2>4, <2>5, <2>6, <2>7, Zenon DEF Parsed, result
<1>4. CASE ~ \E k \in DOMAIN ens : NameOf(ens[k]) = record.name
  <2> DEFINE en0 == [old |-> None, new |-> record]
             given == Append(ens, en0)
  <2>1. result = given
    BY <1>4 DEF Initialize_Parsed_Enum
  <2>2. en0 \in Enum /\ en0.old = None /\ en0.new = record /\ NameOf(en0) = record.name
    BY <1>1 DEF Enum, NameOf
  <2>3. \A en \in ToSet(ens) : NameOf(en) # record.name
    BY <1>2, <1>4
  <2> HIDE DEF en0
  <2>4. given \in Seq(Enum) /\ ToSet(given) = ToSet(ens) \cup {en0}
    <3>1. /\ given \in Seq(Enum) /\ Len(given) = Len(ens) + 1
          /\ \A i \in 1 .. Len(ens) + 1 : given[i] = IF i <= Len(ens) THEN ens[i] ELSE en0
      BY <2>2, AppendProperties
    <3> HIDE DEF given
    <3>2. \A x : x \in ToSet(given) <=> \E i \in 1 .. Len(ens) + 1 : given[i] = x
      BY <3>1, Members
    <3>3. \A i \in 1 .. Len(ens) : i \in 1 .. Len(ens) + 1 /\ given[i] = ens[i]
      BY <3>1, <1>2
    <3>4. Len(ens) + 1 \in 1 .. Len(ens) + 1 /\ given[Len(ens) + 1] = en0
      BY <3>1, <1>2
    <3>5. \A i \in 1 .. Len(ens) + 1 : i \in 1 .. Len(ens) \/ i = Len(ens) + 1
      BY <1>2
    <3>6. \A x : x \in ToSet(given) <=> x \in ToSet(ens) \/ x = en0
      BY <3>2, <3>3, <3>4, <3>5, <1>2
    <3> QED BY <3>1, <3>6
  <2> HIDE DEF given
  <2>5. WellFormed(ToSet(given))
    <3>1. ASSUME NEW x \in ToSet(given)
          PROVE  /\ x.old # None \/ x.new # None
                 /\ x.old # None /\ x.new # None => x.old.name = x.new.name
      BY <1>1, <2>2, <2>4 DEF WellFormed
    <3>2. ASSUME NEW x \in ToSet(given), NEW y \in ToSet(given), NameOf(x) = NameOf(y)
          PROVE  x = y
      BY <3>2, <2>2, <2>3, <2>4 DEF WellFormed
    <3> QED BY <3>1, <3>2 DEF WellFormed
  <2>6. \A r : r # None => ((\E en \in ToSet(given) : en.old = r) <=> (\E en \in ToSet(ens) : en.old = r))
    BY <2>2, <2>4
  <2>7. /\ \A x \in ToSet(given) : (x \in ToSet(ens) /\ NameOf(x) # record.name) \/ x.new = record
        /\ \A en \in ToSet(ens) : NameOf(en) # record.name => en \in ToSet(given)
        /\ \E x \in ToSet(given) : x.new = record
    BY <2>2, <2>3, <2>4
  <2> HIDE DEF result
  <2> QED BY <2>1, <2>4, <2>5, <2>6, <2>7, Zenon DEF Parsed, result
<1> QED BY <1>3, <1>4

(* A parsed header gives new records to the enums that it defines, and   *)
(* leaves every other enum as it is.                                     *)
NamesIn(h) == {d.name : d \in ToSet(source[h])}

Reparsed(set, h, result) ==
  /\ WellFormed(result)
  /\ \A r : r # None => ((\E en \in result : en.old = r) <=> (\E en \in set : en.old = r))
  /\ \A en \in result : \/ en \in set /\ NameOf(en) \notin NamesIn(h)
                        \/ \E d \in ToSet(source[h]) : en.new = Parse_Enum_Definition(d, h)
  /\ \A en \in set : NameOf(en) \notin NamesIn(h) => en \in result
  /\ \A d \in ToSet(source[h]) : \E en \in result : en.new = Parse_Enum_Definition(d, h)

(* What the text of a header is.                                         *)
LEMMA TextParts ==
  ASSUME ReflectorAssumption, TypeOK, NEW h \in Listed
  PROVE  /\ h \in Header /\ source[h] \in Seq(Definitions)
         /\ \A i, j \in DOMAIN source[h] : source[h][i].name = source[h][j].name => i = j
         /\ \A d \in ToSet(source[h]) : Parse_Enum_Definition(d, h) \in Record
<1>1. h \in Header /\ source[h] \in Texts[h] \ {Absent}
  BY DEF Listed, TypeOK
<1>2. /\ source[h] \in Seq(Definitions)
      /\ \A i, j \in DOMAIN source[h] : source[h][i].name = source[h][j].name => i = j
  BY <1>1, Zenon DEF ReflectorAssumption
<1>3. ASSUME NEW d \in ToSet(source[h]) PROVE Parse_Enum_Definition(d, h) \in Record
  <2>1. d \in Definitions
    BY <1>2, Members
  <2>2. /\ d.name \in EnumName /\ d.extends \in {x.extends : x \in Definitions}
        /\ d.bound \in {x.bound : x \in Definitions} /\ d.entries \in {x.entries : x \in Definitions}
    BY <2>1 DEF EnumName
  <2> QED BY <1>1, <2>2 DEF Record, Parse_Enum_Definition
<1> QED BY <1>1, <1>2, <1>3

(* That is what Reparse_Enums does.                                      *)
LEMMA HeaderReparsed ==
  ASSUME ReflectorAssumption, TypeOK, NEW h \in Listed,
         NEW ens \in Seq(Enum), WellFormed(ToSet(ens))
  PROVE  /\ Reparse_Enums(ens, h) \in Seq(Enum)
         /\ Reparsed(ToSet(ens), h, ToSet(Reparse_Enums(ens, h)))
<1> DEFINE text == source[h]
           New(i) == Parse_Enum_Definition(text[i], h)
           n == Len(text)
           V == {v \in Seq(Enum) : WellFormed(ToSet(v))}
           step == [i \in 1 .. n |-> [v \in V |-> Initialize_Parsed_Enum(v, New(i))]]
           Body(f) == [i \in 0 .. n |-> IF i = 0 THEN ens ELSE Initialize_Parsed_Enum(f[i - 1], New(i))]
           f == CHOOSE g : g = Body(g)
<1>1. Reparse_Enums(ens, h) = f[n]
  BY DEF Reparse_Enums
<1>2. /\ n \in Nat /\ DOMAIN text = 1 .. n
      /\ \A d : d \in ToSet(text) <=> \E i \in 1 .. n : text[i] = d
  BY TextParts, Members
<1>3. \A i \in 1 .. n : New(i) \in Record /\ New(i).name = text[i].name
  <2>1. \A i \in 1 .. n : New(i) \in Record
    BY <1>2, TextParts
  <2> QED BY <2>1 DEF Parse_Enum_Definition
<1>4. ASSUME NEW i \in 1 .. n, NEW j \in 1 .. n, New(i).name = New(j).name PROVE i = j
  <2>1. \A k, l \in DOMAIN text : text[k].name = text[l].name => k = l
    BY TextParts
  <2>2. text[i].name = text[j].name
    BY <1>3, <1>4
  <2>3. i \in DOMAIN text /\ j \in DOMAIN text
    BY <1>2
  <2> QED BY <2>1, <2>2, <2>3, Zenon
<1> HIDE DEF New, text, n
<1>5. ASSUME NEW i \in 1 .. n, NEW v \in V
      PROVE  /\ Initialize_Parsed_Enum(v, New(i)) \in V
             /\ Parsed(ToSet(v), New(i), ToSet(Initialize_Parsed_Enum(v, New(i))))
  <2>1. /\ Initialize_Parsed_Enum(v, New(i)) \in Seq(Enum)
        /\ Parsed(ToSet(v), New(i), ToSet(Initialize_Parsed_Enum(v, New(i))))
    BY <1>3, Initialized
  <2> QED BY <2>1 DEF Parsed
<1>6. PICK g : Iterates(g, n, V, ens, step)
  <2>1. ens \in V /\ n \in Nat
    BY <1>2
  <2>2. step \in [1 .. n -> [V -> V]]
    <3> HIDE DEF V
    <3> QED BY <1>5
  <2> HIDE DEF V, step
  <2> QED BY <2>1, <2>2, Iterated, Zenon
<1>7. /\ g \in [0 .. n -> V] /\ g[0] = ens
      /\ \A i \in 1 .. n : i - 1 \in 0 .. n /\ g[i - 1] \in V /\ g[i] = Initialize_Parsed_Enum(g[i - 1], New(i))
  <2>1. g \in [0 .. n -> V] /\ g[0] = ens /\ \A i \in 1 .. n : g[i] = step[i][g[i - 1]]
    BY <1>6, Zenon DEF Iterates
  <2> HIDE DEF V
  <2>2. \A i \in 1 .. n : i - 1 \in 0 .. n
    BY <1>2
  <2>3. \A i \in 1 .. n : g[i - 1] \in V
    BY <2>1, <2>2
  <2> QED BY <2>1, <2>2, <2>3
<1> HIDE DEF step
<1>8. f = Body(f)
  <2>1. \A i \in 0 .. n : g[i] = IF i = 0 THEN ens ELSE Initialize_Parsed_Enum(g[i - 1], New(i))
    <3>1. \A i \in 0 .. n : i # 0 => i \in 1 .. n
      BY <1>2
    <3> QED BY <1>7, <3>1
  <2>2. g = [i \in 0 .. n |-> g[i]]
    BY <1>7
  <2>3. g = Body(g)
    BY <2>1, <2>2
  <2> HIDE DEF Body
  <2> QED BY <2>3
<1> HIDE DEF f
<1>9. f[0] = ens /\ \A i \in 1 .. n : i - 1 \in 0 .. n /\ f[i] = Initialize_Parsed_Enum(f[i - 1], New(i))
  <2>1. 0 \in 0 .. n /\ \A i \in 1 .. n : i \in 0 .. n /\ i # 0 /\ i - 1 \in 0 .. n
    BY <1>2
  <2>2. \A i \in 0 .. n : f[i] = IF i = 0 THEN ens ELSE Initialize_Parsed_Enum(f[i - 1], New(i))
    BY <1>8
  <2> QED BY <2>1, <2>2
<1> HIDE DEF Body
(* After i definitions, the enums that these define have new records.    *)
<1> DEFINE Names(i) == {New(j).name : j \in 1 .. i}
           Good(i, result) ==
             /\ WellFormed(result)
             /\ \A r : r # None => ((\E en \in result : en.old = r) <=> (\E en \in ToSet(ens) : en.old = r))
             /\ \A en \in result : \/ en \in ToSet(ens) /\ NameOf(en) \notin Names(i)
                                   \/ \E j \in 1 .. i : en.new = New(j)
             /\ \A en \in ToSet(ens) : NameOf(en) \notin Names(i) => en \in result
             /\ \A j \in 1 .. i : \E en \in result : en.new = New(j)
           S == {i \in 0 .. n : f[i] \in V /\ Good(i, ToSet(f[i]))}
<1>10. 0 \in S
  <2>1. Names(0) = {} /\ 1 .. 0 = {} /\ 0 \in 0 .. n
    BY <1>2
  <2>2. Good(0, ToSet(ens))
    BY <2>1
  <2> HIDE DEF Good
  <2> QED BY <1>9, <2>1, <2>2
<1>11. ASSUME NEW i \in 1 .. n, i - 1 \in S PROVE i \in S
  <2> DEFINE before == ToSet(f[i - 1])
             after  == ToSet(f[i])
  <2>1. f[i - 1] \in V /\ Good(i - 1, before)
    BY <1>11
  <2>2. f[i] \in V /\ Parsed(before, New(i), after)
    <3> HIDE DEF V
    <3> QED BY <1>5, <1>9, <2>1
  <2>3. /\ i \in 0 .. n /\ i \in Nat
        /\ 1 .. i - 1 \subseteq 1 .. i /\ i \in 1 .. i /\ \A j \in 1 .. i : j = i \/ j \in 1 .. i - 1
        /\ \A j \in 1 .. i - 1 : j \in 1 .. n /\ j # i
    BY <1>2
  <2>4. /\ Names(i) = Names(i - 1) \cup {New(i).name}
        /\ New(i).name \notin Names(i - 1)
        /\ \A j \in 1 .. i - 1 : New(j).name # New(i).name
    <3>1. \A j \in 1 .. i - 1 : New(j).name # New(i).name
      BY <1>4, <2>3
    <3> QED BY <2>3, <3>1
  <2>5. \A j \in 1 .. n : New(j) # None
    BY <1>3, RecordParts
  <2> HIDE DEF before, after, Names
  <2>6. WellFormed(after)
    BY <2>2 DEF Parsed
  <2>7. \A r : r # None => ((\E en \in after : en.old = r) <=> (\E en \in ToSet(ens) : en.old = r))
    <3>1. \A r : r # None => ((\E en \in after : en.old = r) <=> (\E en \in before : en.old = r))
      BY <2>2, Zenon DEF Parsed
    <3>2. \A r : r # None => ((\E en \in before : en.old = r) <=> (\E en \in ToSet(ens) : en.old = r))
      BY <2>1, Zenon
    <3> QED BY <3>1, <3>2, Zenon
  <2>8. ASSUME NEW en \in after
        PROVE  \/ en \in ToSet(ens) /\ NameOf(en) \notin Names(i)
               \/ \E j \in 1 .. i : en.new = New(j)
    <3>1. CASE en.new = New(i)
      BY <3>1, <2>3
    <3>2. CASE en \in before /\ NameOf(en) # New(i).name
      <4>1. \/ en \in ToSet(ens) /\ NameOf(en) \notin Names(i - 1)
            \/ \E j \in 1 .. i - 1 : en.new = New(j)
        BY <2>1, <3>2
      <4> QED BY <4>1, <3>2, <2>3, <2>4
    <3> QED BY <3>1, <3>2, <2>2, Zenon DEF Parsed
  <2>9. ASSUME NEW en \in ToSet(ens), NameOf(en) \notin Names(i) PROVE en \in after
    <3>1. NameOf(en) \notin Names(i - 1) /\ NameOf(en) # New(i).name
      BY <2>4, <2>9
    <3>2. en \in before
      BY <2>1, <3>1
    <3> QED BY <2>2, <3>1, <3>2, Zenon DEF Parsed
  <2>10. ASSUME NEW j \in 1 .. i PROVE \E en \in after : en.new = New(j)
    <3>1. CASE j = i
      BY <3>1, <2>2, Zenon DEF Parsed
    <3>2. CASE j \in 1 .. i - 1
      <4>1. PICK en \in before : en.new = New(j)
        BY <2>1, <3>2
      <4>2. NameOf(en) = New(j).name
        <5>1. en.new # None /\ (en.old # None => en.old.name = en.new.name)
          BY <2>1, <2>3, <2>5, <3>2, <4>1 DEF WellFormed
        <5> QED BY <4>1, <5>1 DEF NameOf
      <4>3. NameOf(en) # New(i).name
        BY <2>4, <3>2, <4>2
      <4>4. en \in after
        BY <2>2, <4>3, Zenon DEF Parsed
      <4> QED BY <4>1, <4>4
    <3> QED BY <3>1, <3>2, <2>3
  <2>11. Good(i, after)
    BY <2>6, <2>7, <2>8, <2>9, <2>10, Zenon
  <2> HIDE DEF Good, V
  <2> QED BY <2>2, <2>3, <2>11 DEF after
<1>12. f[n] \in V /\ Good(n, ToSet(f[n]))
  <2> HIDE DEF S
  <2>1. \A i \in 1 .. n : i - 1 \in S => i \in S
    BY <1>11
  <2>2. 0 .. n \subseteq S
    BY <1>2, <1>10, <2>1, UpToInduction, Zenon
  <2>3. n \in S
    BY <1>2, <2>2
  <2> HIDE DEF Good, V
  <2> QED BY <2>3 DEF S
<1>13. Names(n) = NamesIn(h)
  <2>1. \A x : x \in Names(n) <=> \E j \in 1 .. n : text[j].name = x
    BY <1>3
  <2>2. \A x : x \in NamesIn(h) <=> \E d \in ToSet(text) : d.name = x
    BY DEF NamesIn, text
  <2> QED BY <1>2, <2>1, <2>2
<1>14. \A r : (\E j \in 1 .. n : r = New(j)) <=> (\E d \in ToSet(text) : r = Parse_Enum_Definition(d, h))
  BY <1>2 DEF New
<1>15. Reparsed(ToSet(ens), h, ToSet(f[n]))
  <2> DEFINE result == ToSet(f[n])
  <2> HIDE DEF Names, result
  <2>1. Good(n, result)
    BY <1>12 DEF result
  <2>2. \A en \in result : \/ en \in ToSet(ens) /\ NameOf(en) \notin NamesIn(h)
                           \/ \E d \in ToSet(text) : en.new = Parse_Enum_Definition(d, h)
    BY <1>13, <1>14, <2>1
  <2>3. ASSUME NEW d \in ToSet(text) PROVE \E en \in result : en.new = Parse_Enum_Definition(d, h)
    <3>1. PICK j \in 1 .. n : Parse_Enum_Definition(d, h) = New(j)
      BY <1>14, Zenon
    <3>2. PICK en \in result : en.new = New(j)
      BY <2>1, Zenon
    <3> QED BY <3>1, <3>2
  <2>4. \A en \in ToSet(ens) : NameOf(en) \notin NamesIn(h) => en \in result
    BY <1>13, <2>1
  <2>5. /\ WellFormed(result)
        /\ \A r : r # None => ((\E en \in result : en.old = r) <=> (\E en \in ToSet(ens) : en.old = r))
    BY <2>1, Zenon
  <2> QED BY <2>2, <2>3, <2>4, <2>5, Zenon DEF Reparsed, text, result
<1> QED BY <1>1, <1>12, <1>15

-----------------------------------------------------------------------------
(* The steps of a run and of the user.                                   *)

(* Steps that leave the headers leave what they define.                  *)
LEMMA SourceUnchanged ==
  ASSUME UNCHANGED source
  PROVE  /\ Listed' = Listed /\ \A h : DefinedIn(h)' = DefinedIn(h)
         /\ OneDefinitionEach => OneDefinitionEach'
  BY DEF Listed, DefinedIn, OneDefinitionEach

(* The database and the files depend on nothing that a run has.          *)
LEMMA FilesUnchanged ==
  ASSUME DatabaseInv, UNCHANGED <<source, newer, db, registration, unsaved>>
  PROVE  DatabaseInv'
  BY SourceUnchanged DEF DatabaseInv, RegisteredIn

(* No records are bound.                                                 *)
LEMMA NoRecordsBound == Bound({})
<1> DEFINE rank == [name \in EnumName |-> 0]
<1>1. 0 \in Nat /\ rank \in [EnumName -> 0 .. 0]
  OBVIOUS
<1>2. Ranks(rank, {})
  BY DEF Ranks
<1> HIDE DEF rank
<1> QED BY <1>1, <1>2 DEF Bound, OneNameEach, KnowsBases

(* The empty sequence has no members.                                    *)
LEMMA EmptyMembers == ToSet(<<>>) = {}
  BY DEF ToSet

(* At first there is no database, no file and no run.                    *)
LEMMA InitCorrect ==
  ASSUME ReflectorAssumption, Init
  PROVE  TypeOK /\ ReflectorInv
<1>1. TypeOK
  <2>1. headers \in Seq(Header) /\ IsInjective(headers) /\ to_parse \in Seq(listed \ unchanged)
        /\ enums \in Seq(Enum) /\ to_write \in Seq(Project)
    BY DEF Init, IsInjective
  <2>2. DOMAIN registration = Project /\ \A p \in Project : registration[p] \in Seq(Registered)
    BY DEF Init
  <2>3. DOMAIN source = Header /\ \A h \in Header : source[h] \in Texts[h]
    BY DEF Init
  <2> QED BY <2>1, <2>2, <2>3 DEF Init, TypeOK
<1>2. OneDefinitionEach /\ DatabaseInv
  BY DEF Init, DatabaseInv
<1>3. EnumsInv
  BY EmptyMembers DEF Init, EnumsInv, WellFormed
<1>4. LoadedInv /\ ParsingInv /\ WritingInv /\ QuietInv
  BY DEF Init, LoadedInv, ParsingInv, WritingInv, QuietInv
<1> QED BY <1>1, <1>2, <1>3, <1>4 DEF ReflectorInv

(* A run that is gone has nothing that could be wrong.                   *)
LEMMA Stopped ==
  ASSUME Stop
  PROVE  /\ EnumsInv' /\ LoadedInv' /\ ParsingInv' /\ WritingInv' /\ QuietInv'
         /\ phase' = "stopped" /\ headers' \in Seq(Header) /\ IsInjective(headers') /\ headers' = <<>>
         /\ listed' = {} /\ unchanged' = {} /\ known_projects' = {} /\ to_parse' \in Seq(listed' \ unchanged')
         /\ enums' \in Seq(Enum) /\ to_write' \in Seq(Project) /\ edited' = {} /\ written' = {}
<1>1. EnumsInv'
  BY EmptyMembers DEF Stop, EnumsInv, WellFormed
<1>2. LoadedInv' /\ ParsingInv' /\ WritingInv' /\ QuietInv'
  BY DEF Stop, LoadedInv, ParsingInv, WritingInv, QuietInv
<1>3. headers' \in Seq(Header) /\ IsInjective(headers') /\ to_parse' \in Seq(listed' \ unchanged')
      /\ enums' \in Seq(Enum) /\ to_write' \in Seq(Project)
  BY DEF Stop, IsInjective
<1> QED BY <1>1, <1>2, <1>3 DEF Stop

(* A database that cannot be opened is as it was.                        *)
LEMMA SaveFailsCorrect ==
  ASSUME ReflectorAssumption, TypeOK, ReflectorInv, Save_Config_Fails
  PROVE  TypeOK' /\ ReflectorInv'
<1>1. Stop /\ UNCHANGED <<source, newer, db, registration, unsaved>>
  BY DEF Save_Config_Fails, files
<1>2. TypeOK'
  BY <1>1, Stopped DEF TypeOK
<1> QED BY <1>1, <1>2, Stopped, FilesUnchanged, SourceUnchanged DEF ReflectorInv

(* A run that fails leaves the files that it wrote unsaved.              *)
LEMMA ThrowCorrect ==
  ASSUME ReflectorAssumption, TypeOK, ReflectorInv, Throw
  PROVE  TypeOK' /\ ReflectorInv'
<1>1. Stop /\ UNCHANGED <<source, newer, db, registration, unsaved>>
  BY DEF Throw, files
<1>2. TypeOK'
  BY <1>1, Stopped DEF TypeOK
<1> QED BY <1>1, <1>2, Stopped, FilesUnchanged, SourceUnchanged DEF ReflectorInv

(* A file that is written, or torn, while a run is not saved is none of  *)
(* those the database knows.                                             *)
LEMMA FileWritten ==
  ASSUME DatabaseInv, NEW p, NEW text, DOMAIN registration = Project, UNCHANGED <<source, newer, db>>,
         registration' = [registration EXCEPT ![p] = text], unsaved' = unsaved \cup {p}
  PROVE  DatabaseInv' /\ \A q \in Project \ {p} : RegisteredIn(q)' = RegisteredIn(q)
<1>1. \A q \in Project \ {p} : RegisteredIn(q)' = RegisteredIn(q)
  BY DEF RegisteredIn
<1>2. \A q \in Project \ unsaved' : q \in Project \ unsaved /\ RegisteredIn(q)' = RegisteredIn(q)
  BY <1>1
<1> QED BY <1>1, <1>2, SourceUnchanged DEF DatabaseInv

(* A run that is killed may leave a torn file, which is unsaved.         *)
LEMMA CrashCorrect ==
  ASSUME ReflectorAssumption, TypeOK, ReflectorInv, Crash
  PROVE  TypeOK' /\ ReflectorInv'
<1>1. Stop /\ UNCHANGED <<source, newer, db>>
  BY DEF Crash
<1>2. CASE UNCHANGED <<registration, unsaved>>
  <2>1. TypeOK'
    BY <1>1, <1>2, Stopped DEF TypeOK
  <2> QED BY <1>1, <1>2, <2>1, Stopped, FilesUnchanged, SourceUnchanged DEF ReflectorInv
<1>3. CASE /\ to_write # <<>>
           /\ registration' = [registration EXCEPT ![Head(to_write)] = Torn]
           /\ unsaved' = unsaved \cup {Head(to_write)}
  <2>1. Head(to_write) \in Project
    BY <1>3 DEF TypeOK
  <2>2. TypeOK'
    <3>1. /\ DOMAIN registration' = Project
          /\ \A p \in Project : registration'[p] = Torn \/ registration'[p] \in Seq(Registered)
      BY <1>3 DEF TypeOK
    <3> QED BY <1>1, <1>3, <2>1, <3>1, Stopped DEF TypeOK
  <2>3. DatabaseInv'
    BY <1>1, <1>3, FileWritten DEF TypeOK, ReflectorInv
  <2> QED BY <1>1, <2>2, <2>3, Stopped, SourceUnchanged DEF ReflectorInv
<1> QED BY <1>2, <1>3 DEF Crash

(* An edit is seen by the next run; the run under way knows of it.       *)
LEMMA EditCorrect ==
  ASSUME ReflectorAssumption, TypeOK, ReflectorInv, NEW h \in Header, Edit(h)
  PROVE  TypeOK' /\ ReflectorInv'
<1>1. PICK text \in Texts[h] \ {source[h]} : source' = [source EXCEPT ![h] = text]
  BY DEF Edit
<1>2. UNCHANGED <<db, registration, phase, headers, listed, unchanged, known_projects, to_parse, enums,
                  to_write, written, unsaved>>
  BY DEF Edit, run, history
<1>3. /\ \A g \in Header \ {h} : source'[g] = source[g]
      /\ \A g \in Listed' \ {h} : g \in Listed /\ DefinedIn(g)' = DefinedIn(g)
  <2>1. \A g \in Header \ {h} : source'[g] = source[g]
    BY <1>1 DEF TypeOK
  <2>2. \A g \in Listed' \ {h} : g \in Listed /\ g \in Header \ {h}
    BY <2>1 DEF Listed
  <2>3. \A g \in Header \ {h} : DefinedIn(g)' = DefinedIn(g)
    BY <2>1 DEF DefinedIn
  <2> QED BY <2>1, <2>2, <2>3
<1>4. /\ h \in Listed' => h \in newer'
      /\ h \in Listed' /\ phase # "stopped" => h \in edited'
      /\ newer \subseteq newer' /\ (phase # "stopped" => edited \subseteq edited')
      /\ newer' \in SUBSET Header /\ edited' \in SUBSET Header
  <2>1. h \in Listed' => source'[h] # Absent
    BY DEF Listed
  <2>2. newer \in SUBSET Header /\ edited \in SUBSET Header
    BY DEF TypeOK
  <2>3. CASE source'[h] = Absent
    BY <2>1, <2>2, <2>3 DEF Edit
  <2>4. CASE source'[h] # Absent
    BY <2>1, <2>2, <2>4 DEF Edit
  <2> QED BY <2>3, <2>4
<1>5. TypeOK'
  <2>1. DOMAIN source' = Header /\ \A g \in Header : source'[g] \in Texts[g]
    BY <1>1, <1>3 DEF TypeOK
  <2> QED BY <1>2, <1>4, <2>1 DEF TypeOK
<1>6. OneDefinitionEach'
  BY DEF Edit
<1>7. DatabaseInv'
  <2>1. \A g \in (ToSet(db.headers) \cap Listed') \ newer' :
          g \in (ToSet(db.headers) \cap Listed) \ newer /\ DefinedIn(g)' = DefinedIn(g)
    BY <1>3, <1>4
  <2> QED BY <1>2, <2>1 DEF ReflectorInv, DatabaseInv, RegisteredIn
<1>8. EnumsInv'
  BY <1>2 DEF ReflectorInv, EnumsInv
<1>9. LoadedInv'
  BY <1>2 DEF ReflectorInv, LoadedInv, RegisteredIn
<1>10. ASSUME phase # "stopped"
       PROVE  \A set : \A g \in (set \cap Listed') \ edited' :
                g \in (set \cap Listed) \ edited /\ DefinedIn(g)' = DefinedIn(g)
  BY <1>3, <1>4, <1>10
<1>11. ParsingInv'
  <2>1. ASSUME phase = "parsing" PROVE ParsingInv'
    <3>1. \A g \in (unchanged \cap Listed') \ edited' :
            g \in (unchanged \cap Listed) \ edited /\ DefinedIn(g)' = DefinedIn(g)
      BY <1>10, <2>1
    <3>2. \A g \in (listed \cap Listed') \ (unchanged \cup edited' \cup ToSet(to_parse)) :
            /\ g \in (listed \cap Listed) \ (unchanged \cup edited \cup ToSet(to_parse))
            /\ DefinedIn(g)' = DefinedIn(g)
      BY <1>10, <2>1
    <3> QED BY <1>2, <2>1, <3>1, <3>2 DEF ReflectorInv, ParsingInv
  <2>2. ASSUME phase # "parsing" PROVE ParsingInv'
    BY <1>2, <2>2 DEF ParsingInv
  <2> QED BY <2>1, <2>2
<1>12. WritingInv'
  <2>1. ASSUME phase \in {"writing", "saving"} PROVE WritingInv'
    <3>1. \A g \in (listed \cap Listed') \ edited' :
            g \in (listed \cap Listed) \ edited /\ DefinedIn(g)' = DefinedIn(g)
      BY <1>10, <2>1
    <3> QED BY <1>2, <2>1, <3>1 DEF ReflectorInv, WritingInv, RegisteredIn
  <2>2. ASSUME phase \notin {"writing", "saving"} PROVE WritingInv'
    BY <1>2, <2>2 DEF WritingInv
  <2> QED BY <2>1, <2>2
<1>13. QuietInv'
  BY <1>2 DEF ReflectorInv, QuietInv
<1> QED BY <1>5, <1>6, <1>7, <1>8, <1>9, <1>11, <1>12, <1>13 DEF ReflectorInv

(* Sequences with nothing in common make one without repetition.         *)
LEMMA Joined ==
  ASSUME NEW S, NEW s \in Seq(S), NEW t \in Seq(S)
  PROVE  /\ s \o t \in Seq(S) /\ ToSet(s \o t) = ToSet(s) \cup ToSet(t)
         /\ IsInjective(s) /\ IsInjective(t) /\ ToSet(s) \cap ToSet(t) = {} => IsInjective(s \o t)
<1>1. /\ Len(s) \in Nat /\ DOMAIN s = 1 .. Len(s) /\ \A x : x \in ToSet(s) <=> \E i \in 1 .. Len(s) : s[i] = x
      /\ Len(t) \in Nat /\ DOMAIN t = 1 .. Len(t) /\ \A x : x \in ToSet(t) <=> \E i \in 1 .. Len(t) : t[i] = x
  BY Members
<1>2. /\ s \o t \in Seq(S) /\ Len(s \o t) = Len(s) + Len(t)
      /\ \A i \in 1 .. Len(s) + Len(t) : (s \o t)[i] = IF i <= Len(s) THEN s[i] ELSE t[i - Len(s)]
  BY ConcatProperties
<1> DEFINE u == s \o t
<1> HIDE DEF u
<1>3. DOMAIN u = 1 .. Len(s) + Len(t) /\ \A x : x \in ToSet(u) <=> \E i \in 1 .. Len(s) + Len(t) : u[i] = x
  BY <1>2, Members DEF u
<1>4. \A i \in 1 .. Len(s) + Len(t) :
        \/ i \in 1 .. Len(s) /\ u[i] = s[i]
        \/ i - Len(s) \in 1 .. Len(t) /\ u[i] = t[i - Len(s)]
  BY <1>1, <1>2 DEF u
<1>5. /\ \A i \in 1 .. Len(s) : i \in 1 .. Len(s) + Len(t) /\ u[i] = s[i]
      /\ \A i \in 1 .. Len(t) : i + Len(s) \in 1 .. Len(s) + Len(t) /\ u[i + Len(s)] = t[i]
  BY <1>1, <1>2 DEF u
<1>6. \A x : x \in ToSet(u) <=> x \in ToSet(s) \/ x \in ToSet(t)
  <2>1. ASSUME NEW x \in ToSet(u) PROVE x \in ToSet(s) \/ x \in ToSet(t)
    BY <1>1, <1>3, <1>4
  <2>2. ASSUME NEW x \in ToSet(s) PROVE x \in ToSet(u)
    BY <1>1, <1>3, <1>5
  <2>3. ASSUME NEW x \in ToSet(t) PROVE x \in ToSet(u)
    BY <1>1, <1>3, <1>5
  <2> QED BY <2>1, <2>2, <2>3
<1>7. ASSUME IsInjective(s), IsInjective(t), ToSet(s) \cap ToSet(t) = {} PROVE IsInjective(u)
  <2> SUFFICES ASSUME NEW i \in 1 .. Len(s) + Len(t), NEW j \in 1 .. Len(s) + Len(t), u[i] = u[j]
               PROVE  i = j
    BY <1>3 DEF IsInjective
  <2>1. /\ \A a, b \in 1 .. Len(s) : s[a] = s[b] => a = b
        /\ \A a, b \in 1 .. Len(t) : t[a] = t[b] => a = b
        /\ \A a \in 1 .. Len(s), b \in 1 .. Len(t) : s[a] # t[b]
    BY <1>1, <1>7 DEF IsInjective
  <2>2. CASE i \in 1 .. Len(s) /\ u[i] = s[i]
    <3>1. j \in 1 .. Len(s) /\ u[j] = s[j]
      BY <1>4, <2>1, <2>2
    <3> QED BY <2>1, <2>2, <3>1
  <2>3. CASE i - Len(s) \in 1 .. Len(t) /\ u[i] = t[i - Len(s)]
    <3>1. j - Len(s) \in 1 .. Len(t) /\ u[j] = t[j - Len(s)]
      BY <1>4, <2>1, <2>3
    <3>2. i - Len(s) = j - Len(s)
      BY <2>1, <2>3, <3>1
    <3> QED BY <3>2, <1>1
  <2> QED BY <2>2, <2>3, <1>4
<1> QED BY <1>2, <1>6, <1>7 DEF u

(* What a run has from the database, whether there is one or not.        *)
LEMMA Loaded ==
  ASSUME ReflectorAssumption, TypeOK, DatabaseInv, NEW mode
  PROVE  LET database == Load_Config(mode)
             records  == ToSet(database.enums)
         IN /\ database.projects \in SUBSET Project
            /\ database.headers \in Seq(Header) /\ IsInjective(database.headers)
            /\ database.enums \in Seq(Record) /\ Bound(records)
            /\ \A r \in records : r.header \in ToSet(database.headers)
            /\ \A h \in (ToSet(database.headers) \cap Listed) \ newer : BareOf(records, h) = DefinedIn(h)
            /\ \A p \in database.projects \ unsaved : RegisteredIn(p) = OfProject(records, p)
<1>1. CASE Load_Config(mode) = EmptyDatabase
  <2>1. EmptyDatabase.projects = {} /\ EmptyDatabase.headers = <<>> /\ EmptyDatabase.enums = <<>>
    BY DEF EmptyDatabase
  <2>2. <<>> \in Seq(Header) /\ IsInjective(<<>>) /\ <<>> \in Seq(Record)
    BY DEF IsInjective
  <2> QED BY <1>1, <2>1, <2>2, EmptyMembers, NoRecordsBound
<1>2. CASE Load_Config(mode) = db /\ db # NoDatabase
  BY <1>2 DEF TypeOK, DatabaseInv
<1> QED BY <1>1, <1>2 DEF Load_Config

(* A run begins with what the database has and what the headers have to  *)
(* tell it.                                                              *)
LEMMA ScanCorrect ==
  ASSUME ReflectorAssumption, TypeOK, ReflectorInv, NEW mode, Scan(mode)
  PROVE  TypeOK' /\ ReflectorInv'
<1> DEFINE database == Load_Config(mode)
           records == ToSet(database.enums)
           known   == ToSet(database.headers)
<1>1. /\ database.projects \in SUBSET Project
      /\ database.headers \in Seq(Header) /\ IsInjective(database.headers)
      /\ database.enums \in Seq(Record) /\ Bound(records)
      /\ \A r \in records : r.header \in known
      /\ \A h \in (known \cap Listed) \ newer : BareOf(records, h) = DefinedIn(h)
      /\ \A p \in database.projects \ unsaved : RegisteredIn(p) = OfProject(records, p)
  BY Loaded DEF ReflectorInv
<1>2. /\ phase' = "parsing"
      /\ headers' = database.headers \o Keep(HeaderOrder, Listed \ known)
      /\ listed' = Listed /\ unchanged' = (known \cap Listed) \ newer
      /\ known_projects' = database.projects
      /\ to_parse' = Keep(headers', listed' \ unchanged')
      /\ enums' = [k \in DOMAIN database.enums |-> [old |-> database.enums[k], new |-> None]]
      /\ to_write' = <<>> /\ edited' = {} /\ written' = {}
      /\ UNCHANGED <<source, newer, db, registration, unsaved>>
  BY DEF Scan, Register_Header_Files, Unchanged, files
<1> HIDE DEF database, records, known
<1>3. Listed \subseteq Header
  BY DEF Listed
<1>4. headers' \in Seq(Header) /\ IsInjective(headers') /\ ToSet(headers') = known \cup Listed
  <2> DEFINE more == Keep(HeaderOrder, Listed \ known)
  <2>1. HeaderOrder \in Seq(Header) /\ IsInjective(HeaderOrder) /\ ToSet(HeaderOrder) = Header
    BY DEF ReflectorAssumption, Header
  <2>2. more \in Seq(Header) /\ ToSet(more) = Header \cap (Listed \ known) /\ IsInjective(more)
    BY <2>1, Kept
  <2> HIDE DEF more
  <2>3. headers' = database.headers \o more
    BY <1>2 DEF more
  <2>4. known \cap ToSet(more) = {} /\ known \cup ToSet(more) = known \cup Listed
    BY <1>3, <2>2
  <2> QED BY <1>1, <2>2, <2>3, <2>4, Joined DEF known
<1>5. /\ to_parse' \in Seq(listed' \ unchanged') /\ IsInjective(to_parse')
      /\ ToSet(to_parse') = listed' \ unchanged'
  <2> DEFINE rest == listed' \ unchanged'
  <2>1. to_parse' \in Seq(Header) /\ ToSet(to_parse') = ToSet(headers') \cap rest /\ IsInjective(to_parse')
    <3> HIDE DEF rest
    <3>1. to_parse' = Keep(headers', rest)
      BY <1>2 DEF rest
    <3> QED BY <3>1, <1>4, Kept
  <2>2. ToSet(headers') \cap rest = rest
    BY <1>2, <1>4
  <2> HIDE DEF rest
  <2>3. to_parse' \in Seq(rest)
    BY <2>1, <2>2, SeqOver
  <2> QED BY <2>1, <2>2, <2>3 DEF rest
<1>6. /\ enums' \in Seq(Enum)
      /\ \A en : en \in ToSet(enums') <=> \E r \in records : en = [old |-> r, new |-> None]
  <2>0. \A r : r \in records <=> \E k \in DOMAIN database.enums : database.enums[k] = r
    BY <1>1, Members DEF records
  <2>1. ToSet(database.enums) \subseteq Record
    BY <1>1, Members
  <2>2. MapsTo(database.enums, enums', Enum)
    <3>1. \A k \in DOMAIN database.enums : enums'[k] \in Enum
      BY <1>2, <2>0, <2>1 DEF Enum, records
    <3> QED BY <1>2, <3>1 DEF MapsTo
  <2>3. enums' \in Seq(Enum) /\ MembersByPlace(database.enums, enums')
    BY <1>1, <2>2, MappedSeq, Zenon
  <2>4. \A k \in DOMAIN database.enums : enums'[k] = [old |-> database.enums[k], new |-> None]
    BY <1>2
  <2>5. \A en : en \in ToSet(enums') <=> \E k \in DOMAIN database.enums : enums'[k] = en
    BY <2>3, Zenon DEF MembersByPlace
  <2>6. ASSUME NEW en \in ToSet(enums') PROVE \E r \in records : en = [old |-> r, new |-> None]
    <3>1. PICK k \in DOMAIN database.enums : enums'[k] = en
      BY <2>5
    <3>2. database.enums[k] \in records
      BY <2>0
    <3> QED BY <2>4, <3>1, <3>2
  <2>7. ASSUME NEW r \in records PROVE [old |-> r, new |-> None] \in ToSet(enums')
    <3>1. PICK k \in DOMAIN database.enums : database.enums[k] = r
      BY <2>0
    <3> QED BY <2>4, <2>5, <3>1
  <2> QED BY <2>3, <2>6, <2>7
<1>7. records \in SUBSET Record /\ \A r \in records : r # None
  <2>1. records \in SUBSET Record
    BY <1>1, Members DEF records
  <2> QED BY <2>1, RecordParts
<1>8. OldRecords(enums') = records /\ \A en \in ToSet(enums') : en.new = None /\ en.old # None /\ en.old \in records
  <2>1. \A en \in ToSet(enums') : en.new = None /\ en.old # None /\ en.old \in records
    BY <1>6, <1>7
  <2>2. \A r \in records : \E en \in ToSet(enums') : en.old = r
    <3> SUFFICES ASSUME NEW r \in records PROVE \E en \in ToSet(enums') : en.old = r
      OBVIOUS
    <3>1. [old |-> r, new |-> None] \in ToSet(enums') /\ [old |-> r, new |-> None].old = r
      BY <1>6
    <3> QED BY <3>1, Zenon
  <2>3. \A r : r \in OldRecords(enums') <=> r # None /\ \E en \in ToSet(enums') : en.old = r
    BY <1>6, EnumRecords
  <2>4. \A r : r \in OldRecords(enums') <=> r \in records
    BY <1>7, <2>1, <2>2, <2>3
  <2> QED BY <2>1, <2>4
<1>9. TypeOK'
  <2>1. listed' \in SUBSET ToSet(headers') /\ unchanged' \in SUBSET listed'
    BY <1>2, <1>4
  <2>2. to_write' \in Seq(Project) /\ edited' \in SUBSET Header /\ written' \in SUBSET Project
        /\ known_projects' \in SUBSET Project /\ phase' = "parsing" /\ unsaved' \in SUBSET Project
    BY <1>1, <1>2 DEF TypeOK
  <2>3. /\ DOMAIN source' = Header /\ \A h \in Header : source'[h] \in Texts[h]
        /\ newer' \in SUBSET Header
        /\ db' = NoDatabase \/ /\ db'.projects \in SUBSET Project
                               /\ db'.headers \in Seq(Header)
                               /\ db'.enums \in Seq(Record)
        /\ DOMAIN registration' = Project
        /\ \A p \in Project : registration'[p] = Torn \/ registration'[p] \in Seq(Registered)
    BY <1>2 DEF TypeOK
  <2> QED BY <1>4, <1>5, <1>6, <2>1, <2>2, <2>3 DEF TypeOK
<1>10. OneDefinitionEach' /\ DatabaseInv' /\ Listed' = Listed /\ \A h : DefinedIn(h)' = DefinedIn(h)
  BY <1>2, SourceUnchanged, FilesUnchanged DEF ReflectorInv
<1>11. EnumsInv'
  <2>1. \A en \in ToSet(enums') : NameOf(en) = en.old.name /\ en = [old |-> en.old, new |-> None]
    BY <1>6, <1>8 DEF NameOf
  <2>2. OneNameEach(records)
    BY <1>1 DEF Bound
  <2>3. ASSUME NEW en \in ToSet(enums'), NEW other \in ToSet(enums'), NameOf(en) = NameOf(other)
        PROVE  en = other
    <3>1. en.old = other.old
      BY <1>8, <2>1, <2>2, <2>3 DEF OneNameEach
    <3> QED BY <2>1, <3>1
  <2>4. WellFormed(ToSet(enums'))
    BY <1>8, <2>3 DEF WellFormed
  <2> QED BY <2>4 DEF EnumsInv
<1>12. LoadedInv'
  <2>1. \A p : RegisteredIn(p)' = RegisteredIn(p)
    BY <1>2 DEF RegisteredIn
  <2> QED BY <1>1, <1>2, <1>4, <1>8, <2>1 DEF LoadedInv
<1>13. ParsingInv'
  <2>1. \A h \in (unchanged' \cap Listed') \ edited' : BareOf(OldRecords(enums'), h) = DefinedIn(h)'
    BY <1>1, <1>2, <1>8, <1>10
  <2>2. (listed' \cap Listed') \ (unchanged' \cup edited' \cup ToSet(to_parse')) = {}
    BY <1>5
  <2> QED BY <1>2, <1>5, <1>8, <2>1, <2>2 DEF ParsingInv
<1>14. WritingInv' /\ QuietInv'
  BY <1>2 DEF WritingInv, QuietInv
<1> QED BY <1>9, <1>10, <1>11, <1>12, <1>13, <1>14 DEF ReflectorInv

(* The first member of a sequence and the rest.                          *)
LEMMA TailParts ==
  ASSUME NEW S, NEW s \in Seq(S), s # <<>>
  PROVE  /\ Head(s) \in S /\ Tail(s) \in Seq(S)
         /\ ToSet(s) = ToSet(Tail(s)) \cup {Head(s)}
         /\ IsInjective(s) => IsInjective(Tail(s)) /\ Head(s) \notin ToSet(Tail(s))
<1>1. /\ Len(s) \in Nat /\ Len(s) # 0 /\ DOMAIN s = 1 .. Len(s)
      /\ \A x : x \in ToSet(s) <=> \E i \in 1 .. Len(s) : s[i] = x
  BY Members, EmptySeq
<1>2. Head(s) \in S /\ Head(s) = s[1]
  <2>1. 1 \in 1 .. Len(s)
    BY <1>1
  <2> QED BY <2>1
<1>3. /\ Tail(s) \in Seq(S) /\ Len(Tail(s)) = Len(s) - 1
      /\ \A i \in 1 .. Len(s) - 1 : Tail(s)[i] = s[i + 1]
  BY HeadTailProperties
<1> DEFINE t == Tail(s)
<1> HIDE DEF t
<1>4. DOMAIN t = 1 .. Len(s) - 1 /\ \A x : x \in ToSet(t) <=> \E i \in 1 .. Len(s) - 1 : t[i] = x
  BY <1>3, Members DEF t
<1>5. /\ \A i \in 1 .. Len(s) : i = 1 \/ i - 1 \in 1 .. Len(s) - 1
      /\ \A i \in 1 .. Len(s) - 1 : i + 1 \in 1 .. Len(s) /\ i + 1 # 1
      /\ 1 \in 1 .. Len(s)
  BY <1>1
<1>6. /\ \A i \in 1 .. Len(s) : i # 1 => s[i] = t[i - 1]
      /\ \A i \in 1 .. Len(s) - 1 : t[i] = s[i + 1]
  BY <1>1, <1>3 DEF t
<1>7. \A x : x \in ToSet(s) <=> x \in ToSet(t) \/ x = Head(s)
  <2>1. ASSUME NEW x \in ToSet(s) PROVE x \in ToSet(t) \/ x = Head(s)
    BY <1>1, <1>2, <1>4, <1>5, <1>6
  <2>2. ASSUME NEW x \in ToSet(t) PROVE x \in ToSet(s)
    BY <1>1, <1>4, <1>5, <1>6
  <2>3. Head(s) \in ToSet(s)
    BY <1>1, <1>2, <1>5
  <2> QED BY <2>1, <2>2, <2>3
<1>8. ASSUME IsInjective(s) PROVE IsInjective(t) /\ Head(s) \notin ToSet(t)
  <2>1. \A i, j \in 1 .. Len(s) : s[i] = s[j] => i = j
    BY <1>1, <1>8 DEF IsInjective
  <2>2. ASSUME NEW i \in 1 .. Len(s) - 1, NEW j \in 1 .. Len(s) - 1, t[i] = t[j] PROVE i = j
    <3>1. i + 1 = j + 1
      BY <1>5, <1>6, <2>1, <2>2
    <3> QED BY <3>1
  <2>3. \A i \in 1 .. Len(s) - 1 : t[i] # s[1]
    BY <1>5, <1>6, <2>1
  <2>4. IsInjective(t)
    BY <1>4, <2>2 DEF IsInjective
  <2> QED BY <1>2, <1>4, <2>3, <2>4
<1> QED BY <1>2, <1>3, <1>7, <1>8 DEF t

(* The new record of an enum has its name.                               *)
LEMMA NewName ==
  ASSUME NEW set, WellFormed(set), NEW en \in set, en.new # None
  PROVE  NameOf(en) = en.new.name /\ (en.old # None => en.old.name = en.new.name)
  BY DEF WellFormed, NameOf

(* Two headers define no enum of the same name.                          *)
LEMMA NamesApart ==
  ASSUME OneDefinitionEach, NEW g \in Listed, NEW h \in Listed, g # h
  PROVE  NamesIn(g) \cap NamesIn(h) = {}
  BY Zenon DEF OneDefinitionEach, NamesIn

(* A record that a header defines has a name that it defines.            *)
LEMMA DefinedName ==
  ASSUME NEW R, NEW g, BareOf(R, g) = DefinedIn(g), NEW r \in R, r.header = g
  PROVE  r.name \in NamesIn(g)
<1>1. Bare(r) \in DefinedIn(g)
  BY DEF BareOf
<1>2. PICK d \in ToSet(source[g]) :
        Bare(r) = [name |-> d.name, extends |-> d.extends, bound |-> d.bound,
                   entries |-> d.entries, header |-> g]
  BY <1>1 DEF DefinedIn
<1>3. r.name = d.name
  <2>1. Bare(r).name = r.name
    BY DEF Bare
  <2> QED BY <1>2, <2>1
<1> QED BY <1>3 DEF NamesIn

(* What is parsed is what the header defines.                            *)
LEMMA ParsedBare ==
  ASSUME NEW d, NEW h
  PROVE  LET r == Parse_Enum_Definition(d, h)
         IN /\ Bare(r) = [name |-> d.name, extends |-> d.extends, bound |-> d.bound,
                           entries |-> d.entries, header |-> h]
            /\ r.header = h /\ r.name = d.name
  BY DEF Parse_Enum_Definition, Bare

(* Of a header that is parsed the new records have what it defines.      *)
LEMMA ParseCorrect ==
  ASSUME ReflectorAssumption, TypeOK, ReflectorInv, Process_Dirty_Header
  PROVE  TypeOK' /\ ReflectorInv'
<1> DEFINE h == Head(to_parse)
           todo == ToSet(to_parse)
           E  == ToSet(enums)
           En == ToSet(enums')
<1>1. /\ phase = "parsing" /\ to_parse # <<>> /\ source[h] # Absent
      /\ enums' = Reparse_Enums(enums, h) /\ to_parse' = Tail(to_parse)
      /\ UNCHANGED <<source, newer, db, registration, phase, headers, listed, unchanged, known_projects,
                     to_write, edited, written, unsaved>>
  BY DEF Process_Dirty_Header, files, history
<1>2. /\ listed \subseteq Header /\ enums \in Seq(Enum) /\ to_parse \in Seq(listed \ unchanged)
  <2>1. ToSet(headers) \subseteq Header
    BY Members DEF TypeOK
  <2> QED BY <2>1 DEF TypeOK
<1>3. /\ h \in listed \ unchanged /\ to_parse' \in Seq(listed \ unchanged)
      /\ todo = ToSet(to_parse') \cup {h} /\ h \notin ToSet(to_parse') /\ IsInjective(to_parse')
  <2>1. IsInjective(to_parse)
    BY <1>1 DEF ReflectorInv, ParsingInv
  <2> QED BY <1>1, <1>2, <2>1, TailParts
<1>4. h \in Listed
  BY <1>1, <1>2, <1>3 DEF Listed
<1> HIDE DEF h
<1>5. WellFormed(E)
  BY DEF ReflectorInv, EnumsInv
<1>6. enums' \in Seq(Enum) /\ Reparsed(E, h, En)
  BY <1>1, <1>2, <1>4, <1>5, HeaderReparsed
<1> HIDE DEF todo, E, En
<1>7. /\ WellFormed(En)
      /\ \A r : r # None => ((\E en \in En : en.old = r) <=> (\E en \in E : en.old = r))
      /\ \A en \in En : \/ en \in E /\ NameOf(en) \notin NamesIn(h)
                        \/ \E d \in ToSet(source[h]) : en.new = Parse_Enum_Definition(d, h)
      /\ \A en \in E : NameOf(en) \notin NamesIn(h) => en \in En
      /\ \A d \in ToSet(source[h]) : \E en \in En : en.new = Parse_Enum_Definition(d, h)
  BY <1>6, Zenon DEF Reparsed
<1>8. TypeOK'
  BY <1>1, <1>3, <1>6 DEF TypeOK
<1>9. OneDefinitionEach' /\ DatabaseInv' /\ Listed' = Listed /\ \A g : DefinedIn(g)' = DefinedIn(g)
  BY <1>1, SourceUnchanged, FilesUnchanged DEF ReflectorInv
<1>10. EnumsInv'
  BY <1>7 DEF EnumsInv, En
<1>11. /\ \A r : r \in NewRecords(enums) <=> r # None /\ \E en \in E : en.new = r
       /\ \A r : r \in NewRecords(enums') <=> r # None /\ \E en \in En : en.new = r
       /\ \A r : r \in OldRecords(enums) <=> r # None /\ \E en \in E : en.old = r
       /\ OldRecords(enums') = OldRecords(enums)
  <2>1. \A r : r \in OldRecords(enums') <=> r # None /\ \E en \in En : en.old = r
    BY <1>6, EnumRecords DEF En
  <2>2. \A r : r \in OldRecords(enums) <=> r # None /\ \E en \in E : en.old = r
    BY <1>2, EnumRecords DEF E
  <2>3. OldRecords(enums') = OldRecords(enums)
    BY <1>7, <2>1, <2>2
  <2> QED BY <1>2, <1>6, <2>2, <2>3, EnumRecords DEF E, En
<1>12. LoadedInv'
  <2>1. \A p : RegisteredIn(p)' = RegisteredIn(p)
    BY <1>1 DEF RegisteredIn
  <2> QED BY <1>1, <1>11, <2>1 DEF LoadedInv, ReflectorInv
<1>13. /\ written = {}
       /\ \A en \in E : en.new # None => en.new.header \in (listed \ unchanged) \ todo
       /\ \A g \in (unchanged \cap Listed) \ edited :
            /\ BareOf(OldRecords(enums), g) = DefinedIn(g)
            /\ \A en \in E : en.old # None /\ en.old.header = g => en.new = None
       /\ \A g \in (listed \cap Listed) \ (unchanged \cup edited \cup todo) :
            BareOf(NewRecords(enums), g) = DefinedIn(g)
  BY <1>1 DEF ReflectorInv, ParsingInv, E, todo
<1>14. \A d \in ToSet(source[h]) : Parse_Enum_Definition(d, h) # None
  BY <1>4, TextParts, RecordParts
<1>15. ASSUME NEW en \in En, en.new # None PROVE en.new.header \in (listed \ unchanged) \ ToSet(to_parse')
  <2>1. CASE en \in E
    BY <2>1, <1>3, <1>13, <1>15
  <2>2. ASSUME NEW d \in ToSet(source[h]), en.new = Parse_Enum_Definition(d, h)
        PROVE  en.new.header \in (listed \ unchanged) \ ToSet(to_parse')
    BY <2>2, <1>3, ParsedBare
  <2> QED BY <2>1, <2>2, <1>7
<1>16. ASSUME NEW g \in (unchanged \cap Listed) \ edited, NEW en \in En, en.old # None, en.old.header = g
       PROVE  en.new = None
  <2>1. CASE en \in E
    BY <2>1, <1>13, <1>16
  <2>2. ASSUME NEW d \in ToSet(source[h]), en.new = Parse_Enum_Definition(d, h) PROVE FALSE
    <3>1. en.old \in OldRecords(enums)
      BY <1>7, <1>11, <1>16
    <3>2. en.old.name \in NamesIn(g)
      BY <3>1, <1>13, <1>16, DefinedName
    <3>3. en.old.name = d.name
      BY <1>7, <1>14, <1>16, <2>2, NewName, ParsedBare
    <3>4. d.name \in NamesIn(h)
      BY DEF NamesIn
    <3>5. g # h /\ g \in Listed
      BY <1>3
    <3> QED BY <3>2, <3>3, <3>4, <3>5, <1>4, NamesApart DEF ReflectorInv
  <2> QED BY <2>1, <2>2, <1>7
<1>17. BareOf(NewRecords(enums'), h) = DefinedIn(h)
  <2>1. ASSUME NEW r \in NewRecords(enums'), r.header = h PROVE Bare(r) \in DefinedIn(h)
    <3>1. PICK en \in En : en.new = r /\ r # None
      BY <1>11
    <3>2. en \notin E
      BY <3>1, <2>1, <1>3, <1>13
    <3>3. PICK d \in ToSet(source[h]) : r = Parse_Enum_Definition(d, h)
      BY <3>1, <3>2, <1>7
    <3> QED BY <3>3, ParsedBare DEF DefinedIn
  <2>2. ASSUME NEW x \in DefinedIn(h) PROVE \E r \in NewRecords(enums') : r.header = h /\ Bare(r) = x
    <3>1. PICK d \in ToSet(source[h]) :
            x = [name |-> d.name, extends |-> d.extends, bound |-> d.bound,
                 entries |-> d.entries, header |-> h]
      BY DEF DefinedIn
    <3>2. PICK en \in En : en.new = Parse_Enum_Definition(d, h)
      BY <1>7
    <3>3. en.new \in NewRecords(enums')
      BY <3>2, <1>11, <1>14
    <3> QED BY <3>1, <3>2, <3>3, ParsedBare
  <2> QED BY <2>1, <2>2 DEF BareOf
<1>18. ASSUME NEW g \in (listed \cap Listed) \ (unchanged \cup edited \cup ToSet(to_parse')), g # h
       PROVE  BareOf(NewRecords(enums'), g) = DefinedIn(g)
  <2>1. g \in (listed \cap Listed) \ (unchanged \cup edited \cup todo)
    BY <1>3, <1>18
  <2>2. BareOf(NewRecords(enums), g) = DefinedIn(g)
    BY <2>1, <1>13
  <2>3. ASSUME NEW r \in NewRecords(enums'), r.header = g PROVE r \in NewRecords(enums)
    <3>1. PICK en \in En : en.new = r /\ r # None
      BY <1>11
    <3>2. \A d \in ToSet(source[h]) : r # Parse_Enum_Definition(d, h)
      BY <2>3, <1>18, ParsedBare
    <3>3. en \in E
      BY <3>1, <3>2, <1>7
    <3> QED BY <3>1, <3>3, <1>11
  <2>4. ASSUME NEW r \in NewRecords(enums), r.header = g PROVE r \in NewRecords(enums')
    <3>1. PICK en \in E : en.new = r /\ r # None
      BY <1>11
    <3>2. r.name \in NamesIn(g)
      BY <2>2, <2>4, DefinedName
    <3>3. NameOf(en) = r.name
      BY <3>1, <1>5, NewName DEF E
    <3>4. g \in Listed
      BY <2>1
    <3>5. NameOf(en) \notin NamesIn(h)
      BY <3>2, <3>3, <3>4, <1>4, <1>18, NamesApart DEF ReflectorInv
    <3> QED BY <3>1, <3>5, <1>7, <1>11
  <2>5. {r \in NewRecords(enums') : r.header = g} = {r \in NewRecords(enums) : r.header = g}
    BY <2>3, <2>4
  <2> QED BY <2>2, <2>5 DEF BareOf
<1>19. ParsingInv'
  <2>1. \A g \in (listed' \cap Listed') \ (unchanged' \cup edited' \cup ToSet(to_parse')) :
          BareOf(NewRecords(enums'), g) = DefinedIn(g)'
    BY <1>1, <1>9, <1>17, <1>18
  <2>2. \A g \in (unchanged' \cap Listed') \ edited' :
          /\ BareOf(OldRecords(enums'), g) = DefinedIn(g)'
          /\ \A en \in En : en.old # None /\ en.old.header = g => en.new = None
    BY <1>1, <1>9, <1>11, <1>13, <1>16
  <2> QED BY <1>1, <1>3, <1>13, <1>15, <2>1, <2>2 DEF ParsingInv, En
<1>20. WritingInv' /\ QuietInv'
  BY <1>1 DEF WritingInv, QuietInv
<1> QED BY <1>8, <1>9, <1>10, <1>12, <1>19, <1>20 DEF ReflectorInv

(* Records with the values that are computed for them.                   *)
Valued(R) == {[r EXCEPT !.start = StartingValue(R)[r]] : r \in R}

(* These are bound, and define the same.                                 *)
LEMMA RecordsBound ==
  ASSUME ReflectorAssumption, NEW R \in SUBSET Record, IsFiniteSet(R), OneNameEach(R), Bindable(R)
  PROVE  /\ Valued(R) \in SUBSET Record /\ Bound(Valued(R))
         /\ \A h : BareOf(Valued(R), h) = BareOf(R, h)
<1> DEFINE start == StartingValue(R)
           Given(r) == [r EXCEPT !.start = start[r]]
           B == {Given(r) : r \in R}
<1>1. KnowsBases(R)
  BY DEF Bindable, KnowsBases
<1>2. PICK n \in Nat : \E rank \in [EnumName -> 0 .. n] : Ranks(rank, R)
  BY RankExists
<1>3. PICK rank \in [EnumName -> 0 .. n] : Ranks(rank, R)
  BY <1>2
<1>4. /\ start \in [R -> Nat]
      /\ \A r \in R : r.extends = None => start[r] = 0
      /\ \A r, b \in R : r.extends = b.name => start[r] = start[b] + EntriesBefore(b.entries, r.bound)
  BY <1>1, <1>3, StartingValueSolved
<1> HIDE DEF start
<1>5. ASSUME NEW r \in R
      PROVE  /\ Given(r) \in Record /\ Given(r).start = start[r]
             /\ Given(r).name = r.name /\ Given(r).extends = r.extends
             /\ Given(r).bound = r.bound /\ Given(r).entries = r.entries
             /\ Given(r).header = r.header
  <2>1. r \in Record /\ start[r] \in Nat
    BY <1>4
  <2> QED BY <2>1 DEF Record
<1> HIDE DEF Given
<1>6. B \in SUBSET Record
  BY <1>5
<1>7. OneNameEach(B)
  <2> SUFFICES ASSUME NEW r \in R, NEW s \in R, Given(r).name = Given(s).name PROVE Given(r) = Given(s)
    BY DEF OneNameEach
  <2>1. r.name = s.name
    BY <1>5
  <2>2. r = s
    BY <2>1 DEF OneNameEach
  <2> QED BY <2>2
<1>8. KnowsBases(B)
  <2> SUFFICES ASSUME NEW r \in R, Given(r).extends # None 
               PROVE  \E b \in B : b.name = Given(r).extends /\ Given(r).bound \in ToSet(b.entries)
    BY DEF KnowsBases
  <2>1. PICK b \in R : b.name = r.extends /\ r.bound \in ToSet(b.entries)
    BY <1>1, <1>5 DEF KnowsBases
  <2>2. /\ Given(b).name = Given(r).extends /\ Given(b) \in B
        /\ Given(r).bound \in ToSet(Given(b).entries)
    BY <2>1, <1>5
  <2> QED BY <2>2
<1>9. Ranks(rank, B)
  BY <1>3, <1>5 DEF Ranks
<1>10. ASSUME NEW r \in B, r.extends = None PROVE r.start = 0
  <2>1. PICK x \in R : r = Given(x)
    OBVIOUS
  <2> QED BY <1>4, <1>5, <1>10, <2>1
<1>11. ASSUME NEW r \in B, NEW b \in B, r.extends = b.name
       PROVE  r.start = b.start + EntriesBefore(b.entries, r.bound)
  <2>1. PICK x \in R : r = Given(x)
    OBVIOUS
  <2>2. PICK y \in R : b = Given(y)
    OBVIOUS
  <2>3. start[x] = start[y] + EntriesBefore(y.entries, x.bound)
    BY <1>4, <1>5, <1>11, <2>1, <2>2
  <2> QED BY <1>5, <2>1, <2>2, <2>3
<1>12. Bound(B)
  <2> HIDE DEF B
  <2>1. \E m \in Nat : \E ranks \in [EnumName -> 0 .. m] : Ranks(ranks, B)
    BY <1>9
  <2> QED BY <1>7, <1>8, <1>10, <1>11, <2>1 DEF Bound
<1>13. ASSUME NEW h PROVE BareOf(B, h) = BareOf(R, h)
  <2>1. \A r \in R : Bare(Given(r)) = Bare(r)
    BY <1>5 DEF Bare
  <2>2. ASSUME NEW x PROVE x \in BareOf(B, h) <=> x \in BareOf(R, h)
    <3>1. x \in BareOf(B, h) <=> \E b \in B : b.header = h /\ Bare(b) = x
      BY DEF BareOf
    <3>2. x \in BareOf(R, h) <=> \E r \in R : r.header = h /\ Bare(r) = x
      BY DEF BareOf
    <3> QED BY <3>1, <3>2, <2>1, <1>5
  <2> QED BY <2>2
<1>14. B = Valued(R)
  BY DEF Valued, Given, start
<1> QED BY <1>6, <1>12, <1>13, <1>14

(* Enums of unchanged headers take their old records as new ones.        *)
LEMMA EnumsPromoted ==
  ASSUME NEW ens \in Seq(Enum), WellFormed(ToSet(ens)),
         NEW promoted, promoted = [k \in DOMAIN ens |-> Promote_To_Unchanged(ens[k])]
  PROVE  /\ promoted \in Seq(Enum) /\ WellFormed(ToSet(promoted))
         /\ \A x : x \in ToSet(promoted) <=> \E en \in ToSet(ens) : Promote_To_Unchanged(en) = x
         /\ \A en \in ToSet(ens) :
              /\ Promote_To_Unchanged(en).old = en.old
              /\ Promote_To_Unchanged(en).new =
                   IF en.old # None /\ en.new = None /\ en.old.header \in unchanged THEN en.old ELSE en.new
<1> DEFINE F(en) == Promote_To_Unchanged(en)
<1>1. ToSet(ens) \subseteq Enum /\ \A x : x \in ToSet(ens) <=> \E k \in DOMAIN ens : ens[k] = x
  BY Members
<1>2. ASSUME NEW en \in Enum
      PROVE  /\ F(en) \in Enum /\ F(en).old = en.old
             /\ F(en).new = IF en.old # None /\ en.new = None /\ en.old.header \in unchanged THEN en.old ELSE en.new
  <2>1. en.old \in Record \cup {None} /\ en.new \in Record \cup {None} /\ en = [old |-> en.old, new |-> en.new]
    BY DEF Enum
  <2>2. CASE en.old # None /\ en.new = None /\ en.old.header \in unchanged
    <3>1. F(en) = [old |-> en.old, new |-> en.old]
      BY <2>1, <2>2 DEF Promote_To_Unchanged
    <3> HIDE DEF F
    <3> QED BY <2>1, <2>2, <3>1 DEF Enum
  <2>3. CASE ~ (en.old # None /\ en.new = None /\ en.old.header \in unchanged)
    <3>1. F(en) = en
      BY <2>3 DEF Promote_To_Unchanged
    <3> HIDE DEF F
    <3> QED BY <2>1, <2>3, <3>1
  <2> QED BY <2>2, <2>3
<1> HIDE DEF F
<1>3. promoted = [k \in DOMAIN ens |-> F(ens[k])]
  BY DEF F
<1>4. promoted \in Seq(Enum) /\ \A x : x \in ToSet(promoted) <=> \E k \in DOMAIN ens : promoted[k] = x
  <2>1. MapsTo(ens, promoted, Enum)
    BY <1>1, <1>2, <1>3 DEF MapsTo
  <2>2. promoted \in Seq(Enum) /\ MembersByPlace(ens, promoted)
    BY <2>1, MappedSeq, Zenon
  <2> QED BY <2>2, Zenon DEF MembersByPlace
<1>5. \A x : x \in ToSet(promoted) <=> \E en \in ToSet(ens) : F(en) = x
  <2>1. \A k \in DOMAIN ens : promoted[k] = F(ens[k]) /\ ens[k] \in ToSet(ens)
    BY <1>1, <1>3
  <2>2. ASSUME NEW x \in ToSet(promoted) PROVE \E en \in ToSet(ens) : F(en) = x
    BY <1>4, <2>1
  <2>3. ASSUME NEW en \in ToSet(ens) PROVE F(en) \in ToSet(promoted)
    <3>1. PICK k \in DOMAIN ens : ens[k] = en
      BY <1>1
    <3> QED BY <1>4, <2>1, <3>1
  <2> QED BY <2>2, <2>3
<1>6. \A en \in ToSet(ens) :
        /\ F(en).old = en.old
        /\ F(en).new = IF en.old # None /\ en.new = None /\ en.old.header \in unchanged THEN en.old ELSE en.new
  BY <1>1, <1>2
<1>7. \A en \in ToSet(ens) : NameOf(F(en)) = NameOf(en)
  BY <1>6 DEF NameOf
<1>8. WellFormed(ToSet(promoted))
  <2>1. ASSUME NEW en \in ToSet(ens)
        PROVE  /\ F(en).old # None \/ F(en).new # None
               /\ F(en).old # None /\ F(en).new # None => F(en).old.name = F(en).new.name
    BY <1>6 DEF WellFormed
  <2>2. ASSUME NEW x \in ToSet(promoted), NEW y \in ToSet(promoted), NameOf(x) = NameOf(y) PROVE x = y
    <3>1. PICK en \in ToSet(ens) : F(en) = x
      BY <1>5
    <3>2. PICK other \in ToSet(ens) : F(other) = y
      BY <1>5
    <3>3. en = other
      BY <1>7, <2>2, <3>1, <3>2 DEF WellFormed
    <3> QED BY <3>1, <3>2, <3>3
  <2> QED BY <1>5, <2>1, <2>2 DEF WellFormed
<1> QED BY <1>4, <1>5, <1>6, <1>8 DEF F

(* Binding gives every new record its value and changes nothing else.    *)
LEMMA EnumsBound ==
  ASSUME ReflectorAssumption, NEW ens \in Seq(Enum), WellFormed(ToSet(ens)), Bindable(NewRecords(ens))
  PROVE  LET bound == Bind_Derived_Enums(ens)
         IN /\ bound \in Seq(Enum) /\ WellFormed(ToSet(bound)) /\ Bound(NewRecords(bound))
            /\ \A h : BareOf(NewRecords(bound), h) = BareOf(NewRecords(ens), h)
            /\ \A x \in ToSet(bound) : \E en \in ToSet(ens) :
                 /\ x.old = en.old /\ (x.new = None <=> en.new = None)
                 /\ en.new # None => x.new = [en.new EXCEPT !.start = StartingValue(NewRecords(ens))[en.new]]
            /\ \A en \in ToSet(ens) : \E x \in ToSet(bound) : x.old = en.old
            /\ \A x \in NewRecords(bound) : \E r \in NewRecords(ens) : x.header = r.header
<1> DEFINE bound == Bind_Derived_Enums(ens)
           R == NewRecords(ens)
           Given(r) == [r EXCEPT !.start = StartingValue(R)[r]]
           B == {Given(r) : r \in R}
           F(en) == IF en.new = None THEN en ELSE [en EXCEPT !.new.start = StartingValue(R)[en.new]]
<1>1. ToSet(ens) \subseteq Enum /\ \A x : x \in ToSet(ens) <=> \E k \in DOMAIN ens : ens[k] = x
  BY Members
<1>2. R \in SUBSET Record /\ \A r : r \in R <=> r # None /\ \E en \in ToSet(ens) : en.new = r
  BY EnumRecords
<1>3. IsFiniteSet(R)
  BY SavedRecords, FiniteToSet
<1>4. OneNameEach(R)
  <2> SUFFICES ASSUME NEW r \in R, NEW s \in R, r.name = s.name PROVE r = s
    BY DEF OneNameEach
  <2>1. PICK en \in ToSet(ens) : en.new = r /\ r # None
    BY <1>2
  <2>2. PICK other \in ToSet(ens) : other.new = s /\ s # None
    BY <1>2
  <2>3. NameOf(en) = NameOf(other)
    BY <2>1, <2>2, NewName
  <2> QED BY <2>1, <2>2, <2>3 DEF WellFormed
<1>5. bound = [k \in DOMAIN ens |-> F(ens[k])]
  BY DEF Bind_Derived_Enums
<1>6. B \in SUBSET Record /\ Bound(B) /\ \A h : BareOf(B, h) = BareOf(R, h)
  <2>1. B = Valued(R)
    BY DEF Valued
  <2>2. Bindable(R)
    OBVIOUS
  <2> HIDE DEF R, B
  <2> QED BY <1>2, <1>3, <1>4, <2>1, <2>2, RecordsBound
<1> HIDE DEF R, bound
<1>7. ASSUME NEW en \in ToSet(ens)
      PROVE  /\ F(en) \in Enum /\ F(en).old = en.old
             /\ en.new = None => F(en).new = None
             /\ en.new # None => F(en).new = Given(en.new) /\ Given(en.new) \in B
  <2>1. /\ en.old \in Record \cup {None} /\ en.new \in Record \cup {None} /\ en = [old |-> en.old, new |-> en.new]
        /\ en \in Enum
    BY <1>1 DEF Enum
  <2>2. CASE en.new = None
    BY <2>1, <2>2
  <2>3. CASE en.new # None
    <3>1. en.new \in R
      BY <1>2, <2>3
    <3>2. Given(en.new) \in B /\ Given(en.new) \in Record
      <4> HIDE DEF Given
      <4> QED BY <3>1, <1>6
    <3>3. F(en) = [old |-> en.old, new |-> Given(en.new)]
      BY <2>1, <2>3
    <3> HIDE DEF F, Given, B
    <3> QED BY <2>1, <2>3, <3>2, <3>3 DEF Enum
  <2> QED BY <2>2, <2>3
<1>8. \A r \in B : r # None
  <2> HIDE DEF B
  <2> QED BY <1>6, RecordParts
<1>9. \A r \in R : Given(r).name = r.name /\ Given(r).header = r.header
  BY <1>2 DEF Record
<1> HIDE DEF F, Given
<1>10. bound \in Seq(Enum) /\ \A x : x \in ToSet(bound) <=> \E k \in DOMAIN ens : bound[k] = x
  <2>1. MapsTo(ens, bound, Enum)
    BY <1>1, <1>5, <1>7 DEF MapsTo
  <2>2. bound \in Seq(Enum) /\ MembersByPlace(ens, bound)
    BY <2>1, MappedSeq, Zenon
  <2> QED BY <2>2, Zenon DEF MembersByPlace
<1>11. \A x : x \in ToSet(bound) <=> \E en \in ToSet(ens) : F(en) = x
  <2>1. \A k \in DOMAIN ens : bound[k] = F(ens[k]) /\ ens[k] \in ToSet(ens)
    BY <1>1, <1>5
  <2>2. ASSUME NEW x \in ToSet(bound) PROVE \E en \in ToSet(ens) : F(en) = x
    BY <1>10, <2>1
  <2>3. ASSUME NEW en \in ToSet(ens) PROVE F(en) \in ToSet(bound)
    <3>1. PICK k \in DOMAIN ens : ens[k] = en
      BY <1>1
    <3> QED BY <1>10, <2>1, <3>1
  <2> QED BY <2>2, <2>3
<1>12. ASSUME NEW en \in ToSet(ens)
       PROVE  /\ NameOf(F(en)) = NameOf(en) /\ F(en).old = en.old
              /\ F(en).new = None <=> en.new = None
              /\ en.new # None => en.new \in R /\ F(en).new = Given(en.new) /\ F(en).new.name = en.new.name
  <2>1. en.new # None => en.new \in R /\ F(en).new = Given(en.new) /\ Given(en.new) # None
    BY <1>2, <1>7, <1>8
  <2>2. en.new # None => F(en).new.name = en.new.name
    BY <1>9, <2>1
  <2>3. F(en).old = en.old /\ (en.new = None => F(en).new = None)
    BY <1>7
  <2>4. NameOf(F(en)) = NameOf(en)
    BY <2>2, <2>3 DEF NameOf, WellFormed
  <2> QED BY <2>1, <2>2, <2>3, <2>4
<1>13. WellFormed(ToSet(bound))
  <2>1. ASSUME NEW en \in ToSet(ens)
        PROVE  /\ F(en).old # None \/ F(en).new # None
               /\ F(en).old # None /\ F(en).new # None => F(en).old.name = F(en).new.name
    BY <1>12 DEF WellFormed
  <2>2. ASSUME NEW x \in ToSet(bound), NEW y \in ToSet(bound), NameOf(x) = NameOf(y) PROVE x = y
    <3>1. PICK en \in ToSet(ens) : F(en) = x
      BY <1>11
    <3>2. PICK other \in ToSet(ens) : F(other) = y
      BY <1>11
    <3>3. en = other
      BY <1>12, <2>2, <3>1, <3>2 DEF WellFormed
    <3> QED BY <3>1, <3>2, <3>3
  <2> QED BY <1>11, <2>1, <2>2 DEF WellFormed
<1>14. NewRecords(bound) = B
  <2>1. \A r : r \in NewRecords(bound) <=> r # None /\ \E x \in ToSet(bound) : x.new = r
    BY <1>10, EnumRecords
  <2>2. ASSUME NEW r \in NewRecords(bound) PROVE r \in B
    <3>1. PICK en \in ToSet(ens) : F(en).new = r /\ r # None
      BY <1>11, <2>1
    <3> QED BY <1>7, <1>12, <3>1
  <2>3. ASSUME NEW r \in B PROVE r \in NewRecords(bound)
    <3>1. PICK s \in R : r = Given(s)
      OBVIOUS
    <3>2. PICK en \in ToSet(ens) : en.new = s /\ s # None
      BY <1>2
    <3>3. F(en).new = r /\ F(en) \in ToSet(bound) /\ r # None
      BY <1>8, <1>11, <1>12, <3>1, <3>2
    <3> QED BY <2>1, <3>3
  <2> QED BY <2>2, <2>3
<1>15. \A x \in NewRecords(bound) : \E r \in R : x.header = r.header
  BY <1>9, <1>14
<1>16. \A x \in ToSet(bound) : \E en \in ToSet(ens) :
         /\ x.old = en.old /\ (x.new = None <=> en.new = None)
         /\ en.new # None => x.new = Given(en.new)
  BY <1>11, <1>12
<1>17. \A en \in ToSet(ens) : \E x \in ToSet(bound) : x.old = en.old
  BY <1>11, <1>12
<1> HIDE DEF B
<1> QED BY <1>6, <1>10, <1>13, <1>14, <1>15, <1>16, <1>17 DEF R, bound, Given

(* The projects that are dirty.                                          *)
LEMMA DirtyProjects ==
  ASSUME NEW ens
  PROVE  /\ \A p : p \in Marked_Dirty(ens) <=>
              \E en \in ToSet(ens) : \E r \in {en.old, en.new} \ {None} : en.old # en.new /\ ProjectOf[r.header] = p
         /\ (\A en \in ToSet(ens) : en.old = en.new) => Marked_Dirty(ens) = {}
<1> DEFINE changed == {e \in ToSet(ens) : e.old # e.new}
           touched == UNION {{en.old, en.new} \ {None} : en \in changed}
<1>1. Marked_Dirty(ens) = {ProjectOf[r.header] : r \in touched}
  BY DEF Marked_Dirty
<1>2. \A r : r \in touched <=> \E en \in changed : r \in {en.old, en.new} \ {None}
  OBVIOUS
<1> HIDE DEF touched
<1>3. \A p : p \in Marked_Dirty(ens) <=>
        \E en \in ToSet(ens) : \E r \in {en.old, en.new} \ {None} : en.old # en.new /\ ProjectOf[r.header] = p
  <2>1. \A p : p \in Marked_Dirty(ens) <=> \E r \in touched : ProjectOf[r.header] = p
    BY <1>1
  <2>2. ASSUME NEW p, p \in Marked_Dirty(ens)
        PROVE  \E en \in ToSet(ens) : \E r \in {en.old, en.new} \ {None} : en.old # en.new /\ ProjectOf[r.header] = p
    <3>1. PICK r \in touched : ProjectOf[r.header] = p
      BY <2>1, <2>2
    <3>2. PICK en \in changed : r \in {en.old, en.new} \ {None}
      BY <1>2
    <3> QED BY <3>1, <3>2
  <2>3. ASSUME NEW p, NEW en \in ToSet(ens), NEW r \in {en.old, en.new} \ {None}, en.old # en.new,
               ProjectOf[r.header] = p
        PROVE  p \in Marked_Dirty(ens)
    <3>1. r \in touched
      BY <1>2, <2>3
    <3> QED BY <2>1, <2>3, <3>1
  <2> QED BY <2>2, <2>3
<1>4. ASSUME \A en \in ToSet(ens) : en.old = en.new PROVE Marked_Dirty(ens) = {}
  BY <1>3, <1>4
<1> QED BY <1>3, <1>4

(* Binding ends the parsing: the new records are what the headers define, *)
(* and the projects that are not dirty have what they had.               *)
LEMMA BindCorrect ==
  ASSUME ReflectorAssumption, TypeOK, ReflectorInv, Process_Final_States
  PROVE  TypeOK' /\ ReflectorInv'
<1> DEFINE promoted == [k \in DOMAIN enums |-> Promote_To_Unchanged(enums[k])]
           F(en) == Promote_To_Unchanged(en)
           E  == ToSet(enums)
           P  == ToSet(promoted)
           R  == NewRecords(promoted)
           En == ToSet(enums')
           dirty == Marked_Dirty(enums')
<1>1. /\ phase = "parsing" /\ to_parse = <<>> /\ Bindable(R)
      /\ enums' = Bind_Derived_Enums(promoted)
      /\ to_write' = Keep(ProjectOrder, dirty \cup (Project \ known_projects))
      /\ phase' = "writing"
      /\ UNCHANGED <<source, newer, db, registration, headers, listed, unchanged, known_projects,
                     to_parse, edited, written, unsaved>>
  BY DEF Process_Final_States, To_Write, files, history
<1>2. /\ written = {} /\ ToSet(to_parse) = {}
      /\ \A en \in E : en.new # None => en.new.header \in listed \ unchanged
      /\ \A g \in (unchanged \cap Listed) \ edited :
           /\ BareOf(OldRecords(enums), g) = DefinedIn(g)
           /\ \A en \in E : en.old # None /\ en.old.header = g => en.new = None
      /\ \A g \in (listed \cap Listed) \ (unchanged \cup edited) :
           BareOf(NewRecords(enums), g) = DefinedIn(g)
  BY <1>1, EmptyMembers DEF ReflectorInv, ParsingInv
<1>3. /\ Bound(OldRecords(enums))
      /\ \A r \in OldRecords(enums) : r.header \in ToSet(headers)
      /\ \A p \in known_projects \ unsaved : RegisteredIn(p) = OfProject(OldRecords(enums), p)
  BY <1>1 DEF ReflectorInv, LoadedInv
<1>4. /\ enums \in Seq(Enum) /\ WellFormed(E)
      /\ listed \subseteq ToSet(headers) /\ unchanged \subseteq listed /\ known_projects \subseteq Project
  BY DEF TypeOK, ReflectorInv, EnumsInv
<1>5. /\ promoted \in Seq(Enum) /\ WellFormed(P)
      /\ \A x : x \in P <=> \E en \in E : F(en) = x
      /\ \A en \in E :
           /\ F(en).old = en.old
           /\ F(en).new = IF en.old # None /\ en.new = None /\ en.old.header \in unchanged THEN en.old ELSE en.new
  <2> HIDE DEF promoted
  <2> QED BY <1>4, EnumsPromoted DEF promoted
<1> HIDE DEF promoted, F
<1>6. /\ enums' \in Seq(Enum) /\ WellFormed(En) /\ Bound(NewRecords(enums'))
      /\ \A h : BareOf(NewRecords(enums'), h) = BareOf(R, h)
      /\ \A x \in En : \E en \in P :
           /\ x.old = en.old /\ (x.new = None <=> en.new = None)
           /\ en.new # None => x.new = [en.new EXCEPT !.start = StartingValue(R)[en.new]]
      /\ \A en \in P : \E x \in En : x.old = en.old
      /\ \A x \in NewRecords(enums') : \E r \in R : x.header = r.header
  BY <1>1, <1>5, EnumsBound
<1>7. /\ \A r : r \in R <=> r # None /\ \E en \in E : F(en).new = r
      /\ \A r : r \in OldRecords(enums) <=> r # None /\ \E en \in E : en.old = r
      /\ \A r : r \in OldRecords(enums') <=> r # None /\ \E x \in En : x.old = r
      /\ \A r : r \in NewRecords(enums) <=> r # None /\ \E en \in E : en.new = r
      /\ \A r : r \in NewRecords(enums') <=> r # None /\ \E x \in En : x.new = r
      /\ OldRecords(enums) \in SUBSET Record
  <2>1. \A r : r \in R <=> r # None /\ \E x \in P : x.new = r
    BY <1>5, EnumRecords
  <2>2. \A r : r \in R <=> r # None /\ \E en \in E : F(en).new = r
    BY <1>5, <2>1
  <2> QED BY <1>4, <1>6, <2>2, EnumRecords
<1> HIDE DEF R, E, P, En, dirty
<1>8. OldRecords(enums') = OldRecords(enums)
  <2>1. ASSUME NEW r \in OldRecords(enums') PROVE r \in OldRecords(enums)
    <3>1. PICK x \in En : x.old = r /\ r # None
      BY <1>7
    <3>2. PICK en \in P : x.old = en.old
      BY <1>6
    <3>3. PICK e \in E : F(e) = en
      BY <1>5
    <3>4. e.old = r
      BY <1>5, <3>1, <3>2, <3>3
    <3> QED BY <1>7, <3>1, <3>4
  <2>2. ASSUME NEW r \in OldRecords(enums) PROVE r \in OldRecords(enums')
    <3>1. PICK e \in E : e.old = r /\ r # None
      BY <1>7
    <3>2. F(e) \in P /\ F(e).old = r
      BY <1>5, <3>1
    <3>3. PICK x \in En : x.old = r
      BY <1>6, <3>2
    <3> QED BY <1>7, <3>1, <3>3
  <2> QED BY <2>1, <2>2
<1>9. to_write' \in Seq(Project) /\ ToSet(to_write') = Project \cap (dirty \cup (Project \ known_projects))
  <2>1. ProjectOrder \in Seq(Project) /\ ToSet(ProjectOrder) = Project
    BY DEF ReflectorAssumption, Project
  <2> DEFINE todo == dirty \cup (Project \ known_projects)
  <2> HIDE DEF todo
  <2>2. to_write' = Keep(ProjectOrder, todo)
    BY <1>1 DEF todo, dirty
  <2>3. to_write' \in Seq(Project) /\ ToSet(to_write') = Project \cap todo
    BY <2>1, <2>2, Kept
  <2> QED BY <2>3 DEF todo
<1>10. TypeOK'
  BY <1>1, <1>6, <1>9 DEF TypeOK
<1>11. OneDefinitionEach' /\ DatabaseInv' /\ Listed' = Listed /\ \A g : DefinedIn(g)' = DefinedIn(g)
  BY <1>1, SourceUnchanged, FilesUnchanged DEF ReflectorInv
<1>12. EnumsInv'
  BY <1>6 DEF EnumsInv, En
<1>13. LoadedInv'
  <2>1. \A p : RegisteredIn(p)' = RegisteredIn(p)
    BY <1>1 DEF RegisteredIn
  <2> QED BY <1>1, <1>3, <1>8, <2>1 DEF LoadedInv
<1>14. ParsingInv'
  BY <1>1 DEF ParsingInv
(* Every header that is listed defines what the new records have of it.  *)
<1>15. ASSUME NEW r \in NewRecords(enums') PROVE r.header \in listed
  <2>1. PICK s \in R : r.header = s.header
    BY <1>6
  <2>2. PICK en \in E : F(en).new = s /\ s # None
    BY <1>7
  <2> QED BY <1>2, <1>4, <1>5, <2>1, <2>2
<1>16. ASSUME NEW g \in (listed \cap Listed) \ edited PROVE BareOf(NewRecords(enums'), g) = DefinedIn(g)
  <2>1. CASE g \in unchanged
    <3>1. ASSUME NEW r, r.header = g PROVE r \in R <=> r \in OldRecords(enums)
      <4>1. ASSUME r \in R PROVE r \in OldRecords(enums)
        <5>1. PICK en \in E : F(en).new = r /\ r # None
          BY <1>7, <4>1
        <5>2. en.new # r
          BY <1>2, <2>1, <3>1, <5>1
        <5>3. en.old = r
          BY <1>5, <5>1, <5>2
        <5> QED BY <1>7, <5>1, <5>3
      <4>2. ASSUME r \in OldRecords(enums) PROVE r \in R
        <5>1. PICK en \in E : en.old = r /\ r # None
          BY <1>7, <4>2
        <5>2. en.new = None
          BY <1>2, <2>1, <3>1, <5>1
        <5>3. F(en).new = r
          BY <1>5, <2>1, <3>1, <5>1, <5>2
        <5> QED BY <1>7, <5>1, <5>3
      <4> QED BY <4>1, <4>2
    <3>2. {r \in R : r.header = g} = {r \in OldRecords(enums) : r.header = g}
      BY <3>1
    <3>3. BareOf(R, g) = BareOf(OldRecords(enums), g)
      BY <3>2 DEF BareOf
    <3> QED BY <1>2, <1>6, <2>1, <3>3
  <2>2. CASE g \notin unchanged
    <3>1. ASSUME NEW r, r.header = g PROVE r \in R <=> r \in NewRecords(enums)
      <4>1. ASSUME r \in R PROVE r \in NewRecords(enums)
        <5>1. PICK en \in E : F(en).new = r /\ r # None
          BY <1>7, <4>1
        <5>2. en.new = r
          BY <1>5, <2>2, <3>1, <5>1
        <5> QED BY <1>7, <5>1, <5>2
      <4>2. ASSUME r \in NewRecords(enums) PROVE r \in R
        <5>1. PICK en \in E : en.new = r /\ r # None
          BY <1>7, <4>2
        <5>2. F(en).new = r
          BY <1>5, <5>1
        <5> QED BY <1>7, <5>1, <5>2
      <4> QED BY <4>1, <4>2
    <3>2. {r \in R : r.header = g} = {r \in NewRecords(enums) : r.header = g}
      BY <3>1
    <3>3. BareOf(R, g) = BareOf(NewRecords(enums), g)
      BY <3>2 DEF BareOf
    <3> QED BY <1>2, <1>6, <2>2, <3>3
  <2> QED BY <2>1, <2>2
(* A project with nothing dirty has the records that it had.             *)
<1>17. ASSUME NEW p \in Project \ ToSet(to_write')
       PROVE  p \in known_projects /\ OfProject(OldRecords(enums'), p) = OfProject(NewRecords(enums'), p)
  <2>1. p \in known_projects /\ p \notin dirty
    BY <1>9, <1>17
  <2>2. \A x \in En : \A r : r # None /\ x.old # x.new /\ (r = x.old \/ r = x.new) => ProjectOf[r.header] # p
    <3>1. ASSUME NEW x \in En, NEW r \in {x.old, x.new} \ {None}, x.old # x.new, ProjectOf[r.header] = p PROVE FALSE
      BY <2>1, <3>1, DirtyProjects DEF dirty, En
    <3> QED BY <3>1
  <2>3. ASSUME NEW r, ProjectOf[r.header] = p PROVE r \in OldRecords(enums') <=> r \in NewRecords(enums')
    <3>1. ASSUME r \in OldRecords(enums') PROVE r \in NewRecords(enums')
      <4>1. PICK x \in En : x.old = r /\ r # None
        BY <1>7, <3>1
      <4>2. x.new = r
        BY <2>2, <2>3, <4>1
      <4> QED BY <1>7, <4>1, <4>2
    <3>2. ASSUME r \in NewRecords(enums') PROVE r \in OldRecords(enums')
      <4>1. PICK x \in En : x.new = r /\ r # None
        BY <1>7, <3>2
      <4>2. x.old = r
        BY <2>2, <2>3, <4>1
      <4> QED BY <1>7, <4>1, <4>2
    <3> QED BY <3>1, <3>2
  <2> QED BY <2>1, <2>3 DEF OfProject
<1>18. WritingInv'
  <2>1. \A h \in (listed' \cap Listed') \ edited' : BareOf(NewRecords(enums'), h) = DefinedIn(h)'
    BY <1>1, <1>11, <1>16
  <2>2. \A p \in Project \ ToSet(to_write') :
          /\ p \notin written' /\ p \in known_projects'
          /\ OfProject(OldRecords(enums'), p) = OfProject(NewRecords(enums'), p)
    BY <1>1, <1>2, <1>17
  <2> QED BY <1>1, <1>6, <1>15, <2>1, <2>2 DEF WritingInv
(* With nothing parsed, every old record is the new one.                 *)
<1>19. QuietInv'
  <2> SUFFICES ASSUME unchanged = ToSet(headers), known_projects = Project PROVE to_write' = <<>>
    BY <1>1 DEF QuietInv
  <2>1. ASSUME NEW en \in E
        PROVE  en.new = None /\ en.old # None /\ en.old \in OldRecords(enums) /\ F(en).new = en.old /\ F(en).old = en.old
    <3>1. en.new = None
      BY <1>2, <1>4
    <3>2. en.old # None
      BY <1>4, <3>1 DEF WellFormed
    <3>3. en.old \in OldRecords(enums)
      BY <1>7, <3>2
    <3>4. en.old.header \in unchanged
      BY <1>3, <3>3
    <3> QED BY <1>5, <3>1, <3>2, <3>3, <3>4
  <2>2. R = OldRecords(enums)
    <3>1. ASSUME NEW r \in R PROVE r \in OldRecords(enums)
      BY <1>7, <2>1
    <3>2. ASSUME NEW r \in OldRecords(enums) PROVE r \in R
      <4>1. PICK en \in E : en.old = r /\ r # None
        BY <1>7
      <4>2. F(en).new = r
        BY <2>1, <4>1
      <4> QED BY <1>7, <4>1, <4>2
    <3> QED BY <3>1, <3>2
  <2>3. \A r \in R : StartingValue(R)[r] = r.start
    BY <1>3, <1>7, <2>2, BoundKeepsValues
  <2>4. ASSUME NEW x \in En PROVE x.old = x.new
    <3>1. PICK en \in P : /\ x.old = en.old
                          /\ en.new # None => x.new = [en.new EXCEPT !.start = StartingValue(R)[en.new]]
      BY <1>6
    <3>2. PICK e \in E : F(e) = en
      BY <1>5
    <3>3. en.new = en.old /\ en.old # None /\ en.old \in R
      BY <2>1, <2>2, <3>2
    <3>4. x.new = [en.old EXCEPT !.start = en.old.start]
      BY <2>3, <3>1, <3>3
    <3>5. en.old \in Record
      BY <1>7, <2>2, <3>3
    <3>6. x.new = en.old
      BY <3>4, <3>5 DEF Record
    <3> QED BY <3>1, <3>6
  <2>5. dirty = {}
    BY <2>4, DirtyProjects DEF dirty, En
  <2>6. ToSet(to_write') = {}
    BY <1>9, <2>5
  <2> QED BY <1>9, <2>6, Members
<1> QED BY <1>10, <1>11, <1>12, <1>13, <1>14, <1>18, <1>19 DEF ReflectorInv

(* A file that is written registers the new records of its project.      *)
LEMMA WriteCorrect ==
  ASSUME ReflectorAssumption, TypeOK, ReflectorInv, Write_Enum_Registration_File
  PROVE  TypeOK' /\ ReflectorInv'
<1>0. PICK p : p = Head(to_write)
  OBVIOUS
<1>1. /\ phase = "writing" /\ to_write # <<>>
      /\ registration' = [registration EXCEPT ![p] = Build_CPP_Text(p)]
      /\ written' = written \cup {p} /\ unsaved' = unsaved \cup {p}
      /\ to_write' = Tail(to_write)
      /\ UNCHANGED <<source, newer, db, phase, headers, listed, unchanged, known_projects, to_parse, enums, edited>>
  BY <1>0 DEF Write_Enum_Registration_File
<1>2. p \in Project /\ to_write' \in Seq(Project) /\ ToSet(to_write) = ToSet(to_write') \cup {p}
  BY <1>0, <1>1, TailParts DEF TypeOK
<1>3. /\ Build_CPP_Text(p) \in Seq(Registered)
      /\ {r.enum : r \in ToSet(Build_CPP_Text(p))} = OfProject(NewRecords(enums), p)
  BY BuiltText DEF TypeOK
<1>4. TypeOK'
  <2>1. /\ DOMAIN registration' = Project
        /\ \A q \in Project : registration'[q] = Torn \/ registration'[q] \in Seq(Registered)
    BY <1>1, <1>3 DEF TypeOK
  <2> QED BY <1>1, <1>2, <2>1 DEF TypeOK
<1>5. OneDefinitionEach' /\ Listed' = Listed /\ \A g : DefinedIn(g)' = DefinedIn(g)
  BY <1>1, SourceUnchanged DEF ReflectorInv
<1>6. DatabaseInv' /\ \A q \in Project \ {p} : RegisteredIn(q)' = RegisteredIn(q)
  <2> DEFINE text == Build_CPP_Text(p)
  <2>1. /\ DatabaseInv /\ DOMAIN registration = Project /\ UNCHANGED <<source, newer, db>>
        /\ registration' = [registration EXCEPT ![p] = text] /\ unsaved' = unsaved \cup {p}
    BY <1>1 DEF TypeOK, ReflectorInv
  <2> HIDE DEF text
  <2> QED BY <2>1, FileWritten
<1>7. RegisteredIn(p)' = OfProject(NewRecords(enums), p)
  <2>1. registration'[p] = Build_CPP_Text(p)
    BY <1>1, <1>2 DEF TypeOK
  <2> QED BY <1>3, <2>1 DEF RegisteredIn
<1>8. EnumsInv'
  BY <1>1 DEF ReflectorInv, EnumsInv
<1>9. LoadedInv'
  <2>1. \A q \in known_projects \ unsaved' : q \in known_projects \ unsaved /\ RegisteredIn(q)' = RegisteredIn(q)
    BY <1>1, <1>6 DEF TypeOK
  <2> QED BY <1>1, <2>1 DEF ReflectorInv, LoadedInv
<1>10. ParsingInv'
  BY <1>1 DEF ParsingInv
<1>11. WritingInv'
  <2>1. /\ Bound(NewRecords(enums)) /\ \A r \in NewRecords(enums) : r.header \in listed
        /\ \A h \in (listed \cap Listed) \ edited : BareOf(NewRecords(enums), h) = DefinedIn(h)
        /\ \A q \in Project \ ToSet(to_write) :
             IF q \in written
             THEN RegisteredIn(q) = OfProject(NewRecords(enums), q)
             ELSE q \in known_projects /\ OfProject(OldRecords(enums), q) = OfProject(NewRecords(enums), q)
    BY <1>1 DEF ReflectorInv, WritingInv
  <2>2. ASSUME NEW q \in Project \ ToSet(to_write')
        PROVE  IF q \in written'
               THEN RegisteredIn(q)' = OfProject(NewRecords(enums), q)
               ELSE q \in known_projects /\ OfProject(OldRecords(enums), q) = OfProject(NewRecords(enums), q)
    <3>1. CASE q = p
      BY <1>1, <1>7, <3>1
    <3>2. CASE q # p
      <4>1. q \in Project \ ToSet(to_write) /\ (q \in written' <=> q \in written) /\ RegisteredIn(q)' = RegisteredIn(q)
        BY <1>1, <1>2, <1>6, <3>2
      <4> QED BY <2>1, <4>1
    <3> QED BY <3>1, <3>2
  <2> QED BY <1>1, <1>5, <2>1, <2>2 DEF WritingInv
<1>12. QuietInv'
  BY <1>1 DEF ReflectorInv, QuietInv
<1> QED BY <1>4, <1>5, <1>6, <1>8, <1>9, <1>10, <1>11, <1>12 DEF ReflectorInv

(* While the database is written there is none.                          *)
LEMMA BeginSaveCorrect ==
  ASSUME ReflectorAssumption, TypeOK, ReflectorInv, Begin_Save_Config
  PROVE  TypeOK' /\ ReflectorInv'
<1>1. /\ phase = "writing" /\ to_write = <<>> /\ phase' = "saving" /\ db' = NoDatabase
      /\ UNCHANGED <<source, newer, registration, headers, listed, unchanged, known_projects, to_parse, enums,
                     to_write, edited, written, unsaved>>
  BY DEF Begin_Save_Config, run, history
<1>2. TypeOK'
  BY <1>1 DEF TypeOK
<1>3. OneDefinitionEach' /\ Listed' = Listed /\ \A g : DefinedIn(g)' = DefinedIn(g) /\ RegisteredIn(g)' = RegisteredIn(g)
  BY <1>1, SourceUnchanged DEF ReflectorInv, RegisteredIn
<1>4. DatabaseInv'
  BY <1>1 DEF DatabaseInv
<1>5. EnumsInv' /\ LoadedInv'
  BY <1>1, <1>3 DEF ReflectorInv, EnumsInv, LoadedInv
<1>6. ParsingInv' /\ QuietInv'
  BY <1>1 DEF ParsingInv, QuietInv
<1>7. WritingInv'
  BY <1>1, <1>3 DEF ReflectorInv, WritingInv
<1> QED BY <1>2, <1>3, <1>4, <1>5, <1>6, <1>7 DEF ReflectorInv

(* What is saved is what the headers define, and the files have it.      *)
LEMMA SaveCorrect ==
  ASSUME ReflectorAssumption, TypeOK, ReflectorInv, Save_Config
  PROVE  TypeOK' /\ ReflectorInv'
<1> DEFINE saved_headers == Keep(headers, listed)
           saved_enums   == SaveRecords(enums)
<1>1. /\ phase = "saving" /\ Stop
      /\ db' = [projects |-> Project, headers |-> saved_headers, enums |-> saved_enums]
      /\ newer' = edited /\ unsaved' = unsaved \ written /\ UNCHANGED <<source, registration>>
  BY DEF Save_Config
<1>2. /\ saved_headers \in Seq(Header) /\ IsInjective(saved_headers) /\ ToSet(saved_headers) = listed
  <2>1. headers \in Seq(Header) /\ IsInjective(headers) /\ ToSet(headers) \cap listed = listed
    BY DEF TypeOK
  <2> QED BY <2>1, Kept
<1>3. saved_enums \in Seq(Record) /\ ToSet(saved_enums) = NewRecords(enums)
  BY SavedRecords DEF TypeOK
<1> HIDE DEF saved_headers, saved_enums
<1>4. db'.projects = Project /\ db'.headers = saved_headers /\ db'.enums = saved_enums
  BY <1>1
<1>5. TypeOK'
  <2>1. newer' \in SUBSET Header /\ unsaved' \in SUBSET Project
    BY <1>1 DEF TypeOK
  <2>2. DOMAIN source' = Header /\ \A h \in Header : source'[h] \in Texts[h]
    BY <1>1 DEF TypeOK
  <2>3. /\ DOMAIN registration' = Project
        /\ \A p \in Project : registration'[p] = Torn \/ registration'[p] \in Seq(Registered)
    BY <1>1 DEF TypeOK
  <2>4. /\ db'.projects \in SUBSET Project /\ db'.headers \in Seq(Header) /\ db'.enums \in Seq(Record)
    BY <1>2, <1>3, <1>4
  <2> QED BY <1>1, <2>1, <2>2, <2>3, <2>4, Stopped DEF TypeOK
<1>6. /\ OneDefinitionEach' /\ Listed' = Listed
      /\ \A g : DefinedIn(g)' = DefinedIn(g) /\ RegisteredIn(g)' = RegisteredIn(g)
  BY <1>1, SourceUnchanged DEF ReflectorInv, RegisteredIn
<1>7. /\ Bound(NewRecords(enums)) /\ \A r \in NewRecords(enums) : r.header \in listed
      /\ \A h \in (listed \cap Listed) \ edited : BareOf(NewRecords(enums), h) = DefinedIn(h)
      /\ \A p \in Project \ ToSet(to_write) :
           IF p \in written
           THEN RegisteredIn(p) = OfProject(NewRecords(enums), p)
           ELSE p \in known_projects /\ OfProject(OldRecords(enums), p) = OfProject(NewRecords(enums), p)
      /\ ToSet(to_write) = {}
  BY <1>1, EmptyMembers DEF ReflectorInv, WritingInv
<1>8. ASSUME NEW p \in Project \ unsaved' PROVE RegisteredIn(p) = OfProject(NewRecords(enums), p)
  <2>1. CASE p \in written
    BY <1>7, <2>1
  <2>2. CASE p \notin written
    <3>1. p \in known_projects \ unsaved /\ OfProject(OldRecords(enums), p) = OfProject(NewRecords(enums), p)
      BY <1>1, <1>7, <1>8, <2>2
    <3>2. RegisteredIn(p) = OfProject(OldRecords(enums), p)
      BY <1>1, <3>1 DEF ReflectorInv, LoadedInv
    <3> QED BY <3>1, <3>2
  <2> QED BY <2>1, <2>2
<1>9. DatabaseInv'
  <2>1. \A h \in (ToSet(db'.headers) \cap Listed') \ newer' : BareOf(ToSet(db'.enums), h) = DefinedIn(h)'
    BY <1>1, <1>2, <1>3, <1>4, <1>6, <1>7
  <2>2. \A p \in Project \ unsaved' : RegisteredIn(p)' = OfProject(ToSet(db'.enums), p)
    BY <1>3, <1>4, <1>6, <1>8
  <2> QED BY <1>2, <1>3, <1>4, <1>7, <2>1, <2>2 DEF DatabaseInv
<1> QED BY <1>1, <1>5, <1>6, <1>9, Stopped DEF ReflectorInv

-----------------------------------------------------------------------------
(* The theorems.                                                         *)

(* Steps that change nothing leave everything correct.                   *)
LEMMA Stuttering ==
  ASSUME TypeOK, ReflectorInv, UNCHANGED vars
  PROVE  TypeOK' /\ ReflectorInv'
<1>1. UNCHANGED <<source, newer, db, registration, phase, headers, listed, unchanged, known_projects, to_parse,
                  enums, to_write, edited, written, unsaved>>
  BY DEF vars, files, run, history
<1>2. /\ OneDefinitionEach' /\ Listed' = Listed /\ DatabaseInv'
      /\ \A g : DefinedIn(g)' = DefinedIn(g) /\ RegisteredIn(g)' = RegisteredIn(g)
  BY <1>1, SourceUnchanged, FilesUnchanged DEF ReflectorInv, RegisteredIn
<1>3. TypeOK'
  BY <1>1 DEF TypeOK
<1>4. EnumsInv' /\ LoadedInv' /\ QuietInv'
  BY <1>1, <1>2 DEF ReflectorInv, EnumsInv, LoadedInv, QuietInv
<1>5. ParsingInv' /\ WritingInv'
  BY <1>1, <1>2 DEF ReflectorInv, ParsingInv, WritingInv
<1> QED BY <1>2, <1>3, <1>4, <1>5 DEF ReflectorInv

(* The invariant: whatever the user edits, whichever runs fail and where *)
(* a run is, it holds.                                                   *)
THEOREM ReflectorCorrect == Spec => [](TypeOK /\ ReflectorInv)
<1>1. Init => TypeOK /\ ReflectorInv
  BY InitCorrect, ReflectorAssumption
<1>2. TypeOK /\ ReflectorInv /\ [Next]_vars => (TypeOK /\ ReflectorInv)'
  <2> SUFFICES ASSUME TypeOK, ReflectorInv, [Next]_vars PROVE TypeOK' /\ ReflectorInv'
    OBVIOUS
  <2> USE ReflectorAssumption
  <2>1. ASSUME NEW mode \in {"Normal", "Clean"}, Scan(mode) PROVE TypeOK' /\ ReflectorInv'
    BY <2>1, ScanCorrect, Zenon
  <2>2. CASE Process_Dirty_Header
    BY <2>2, ParseCorrect
  <2>3. CASE Process_Final_States
    BY <2>3, BindCorrect
  <2>4. CASE Write_Enum_Registration_File
    BY <2>4, WriteCorrect
  <2>5. CASE Begin_Save_Config
    BY <2>5, BeginSaveCorrect
  <2>6. CASE Save_Config
    BY <2>6, SaveCorrect
  <2>7. CASE Save_Config_Fails
    BY <2>7, SaveFailsCorrect
  <2>8. CASE Throw
    BY <2>8, ThrowCorrect
  <2>9. CASE Crash
    BY <2>9, CrashCorrect
  <2>10. ASSUME NEW h \in Header, Edit(h) PROVE TypeOK' /\ ReflectorInv'
    BY <2>10, EditCorrect
  <2>11. CASE UNCHANGED vars
    BY <2>11, Stuttering
  <2> QED
    BY <2>1, <2>2, <2>3, <2>4, <2>5, <2>6, <2>7, <2>8, <2>9, <2>10, <2>11 DEF Next, Run
<1> QED BY <1>1, <1>2, PTL DEF Spec

(* The types of the reflector's state: what it parses is still to be     *)
(* parsed, and no header is in a run's list twice.                       *)
THEOREM TypeCorrect == Spec => []TypeOK
<1> QED BY ReflectorCorrect, PTL

(* What the database has of a header that is up to date is what it       *)
(* defines.                                                              *)
LEMMA DatabaseDefines ==
  ASSUME ReflectorAssumption, TypeOK, ReflectorInv, UpToDate
  PROVE  LET R == ToSet(db.enums)
         IN /\ R \in SUBSET Record /\ {Bare(r) : r \in R} = Defined /\ \A r \in R : Values(Bare(r)) = r
            /\ \A p \in Project \ unsaved : RegisteredIn(p) = OfProject(R, p)
<1> DEFINE R == ToSet(db.enums)
<1>1. /\ db # NoDatabase /\ newer = {} /\ ToSet(db.headers) = Listed
      /\ Bound(R) /\ \A r \in R : r.header \in Listed
      /\ \A h \in Listed : BareOf(R, h) = DefinedIn(h)
      /\ \A p \in Project \ unsaved : RegisteredIn(p) = OfProject(R, p)
  BY DEF UpToDate, ReflectorInv, DatabaseInv
<1>2. R \in SUBSET Record
  <2>1. db.enums \in Seq(Record)
    BY <1>1 DEF TypeOK
  <2> QED BY <2>1, Members
<1> HIDE DEF R
<1>3. {Bare(r) : r \in R} = Defined
  <2>1. ASSUME NEW r \in R PROVE Bare(r) \in Defined
    <3>1. Bare(r) \in BareOf(R, r.header) /\ r.header \in Listed
      BY <1>1 DEF BareOf
    <3> QED BY <1>1, <3>1 DEF Defined
  <2>2. ASSUME NEW d \in Defined PROVE \E r \in R : Bare(r) = d
    <3>1. PICK h \in Listed : d \in DefinedIn(h)
      BY DEF Defined
    <3>2. d \in BareOf(R, h)
      BY <1>1, <3>1
    <3> QED BY <3>2 DEF BareOf
  <2> QED BY <2>1, <2>2
<1>4. \A r \in R : Values(Bare(r)) = r
  BY <1>1, <1>2, <1>3, ValuesOfBound
<1> QED BY <1>1, <1>2, <1>3, <1>4 DEF R

(* However the database came to be, run by run, what it has is what a    *)
(* clean run finds in the headers.                                       *)
THEOREM DatabaseCorrect == Spec => []DatabaseIsCurrent
<1>1. TypeOK /\ ReflectorInv => DatabaseIsCurrent
  <2> SUFFICES ASSUME TypeOK, ReflectorInv, UpToDate PROVE ToSet(db.enums) = {Values(d) : d \in Defined}
    BY DEF DatabaseIsCurrent
  <2> DEFINE R == ToSet(db.enums)
  <2>1. {Bare(r) : r \in R} = Defined /\ \A r \in R : Values(Bare(r)) = r
    BY ReflectorAssumption, DatabaseDefines
  <2> HIDE DEF R
  <2>2. R = {Values(d) : d \in Defined}
    <3>1. ASSUME NEW r \in R PROVE r \in {Values(d) : d \in Defined}
      <4>1. Bare(r) \in Defined /\ Values(Bare(r)) = r
        BY <2>1
      <4> QED BY <4>1
    <3>2. ASSUME NEW d \in Defined PROVE Values(d) \in R
      <4>1. PICK r \in R : Bare(r) = d
        BY <2>1
      <4> QED BY <2>1, <4>1
    <3> QED BY <3>1, <3>2
  <2> QED BY <2>2 DEF R
<1> QED BY <1>1, ReflectorCorrect, PTL

(* The files register the enums of their projects as the headers define  *)
(* them, but for those of runs that failed before they saved.            *)
THEOREM OwnRegistered == Spec => []OwnEnumsAreRegistered
<1>1. TypeOK /\ ReflectorInv => OwnEnumsAreRegistered
  <2> SUFFICES ASSUME TypeOK, ReflectorInv, UpToDate, NEW p \in Project \ unsaved
               PROVE  {r.enum : r \in ToSet(registration[p])} =
                        {Values(d) : d \in {e \in Defined : ProjectOf[e.header] = p}}
    BY DEF OwnEnumsAreRegistered
  <2> DEFINE R == ToSet(db.enums)
             own == {e \in Defined : ProjectOf[e.header] = p}
  <2>1. /\ {Bare(r) : r \in R} = Defined /\ \A r \in R : Values(Bare(r)) = r
        /\ RegisteredIn(p) = OfProject(R, p)
    BY ReflectorAssumption, DatabaseDefines
  <2>2. \A r : Bare(r).header = r.header
    BY DEF Bare
  <2> HIDE DEF R
  <2>3. OfProject(R, p) = {Values(d) : d \in own}
    <3>1. ASSUME NEW r \in R, ProjectOf[r.header] = p PROVE r \in {Values(d) : d \in own}
      <4>1. Bare(r) \in own /\ Values(Bare(r)) = r
        BY <2>1, <2>2, <3>1
      <4> HIDE DEF own
      <4> QED BY <4>1
    <3>2. ASSUME NEW d \in own PROVE Values(d) \in R /\ ProjectOf[Values(d).header] = p
      <4>1. PICK r \in R : Bare(r) = d
        BY <2>1
      <4> QED BY <2>1, <2>2, <4>1
    <3> HIDE DEF own
    <3> QED BY <3>1, <3>2 DEF OfProject
  <2> QED BY <2>1, <2>3 DEF RegisteredIn
<1> QED BY <1>1, ReflectorCorrect, PTL

(* A run with every header unchanged and every project known writes no   *)
(* file, whatever the user does meanwhile.                               *)
THEOREM RunsAreQuiet == Spec => QuietRun
<1>1. /\ TypeOK /\ ReflectorInv /\ [Next]_vars
      => [unchanged = ToSet(headers) /\ known_projects = Project => registration' = registration]_vars
  <2> SUFFICES ASSUME ReflectorInv, Next, unchanged = ToSet(headers), known_projects = Project
               PROVE  registration' = registration
    BY DEF vars
  <2>1. phase = "writing" => to_write = <<>>
    BY DEF ReflectorInv, QuietInv
  <2>2. ASSUME NEW mode \in {"Normal", "Clean"}, Scan(mode) PROVE registration' = registration
    BY <2>2 DEF Scan, files
  <2>3. CASE Process_Dirty_Header \/ Process_Final_States \/ Begin_Save_Config \/ Save_Config
    BY <2>3 DEF Process_Dirty_Header, Process_Final_States, Begin_Save_Config, Save_Config, files
  <2>4. CASE Write_Enum_Registration_File
    BY <2>1, <2>4 DEF Write_Enum_Registration_File
  <2>5. CASE Save_Config_Fails \/ Throw
    BY <2>5 DEF Save_Config_Fails, Throw, files
  <2>6. CASE Crash
    BY <2>1, <2>6 DEF Crash
  <2>7. ASSUME NEW h \in Header, Edit(h) PROVE registration' = registration
    BY <2>7 DEF Edit
  <2> QED BY <2>2, <2>3, <2>4, <2>5, <2>6, <2>7 DEF Next, Run
<1> QED BY <1>1, ReflectorCorrect, PTL DEF Spec, QuietRun
=============================================================================
