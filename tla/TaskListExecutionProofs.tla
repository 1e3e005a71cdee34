------------------------ MODULE TaskListExecutionProofs ------------------------
(***************************************************************************)
(* What the proofs about the two kinds of batches need of the execution of *)
(* a list: induction over the natural numbers, lemmas about lists, what    *)
(* the driver reports of the calls of a list, and the invariant of a list  *)
(* from its execution to its result.                                       *)
(***************************************************************************)
EXTENDS TaskListExecution, SequenceTheorems, WellFoundedInduction, TLAPS

(* No element is in a list twice.                                          *)
Distinct(list) == \A i, j \in DOMAIN list : i # j => list[i] # list[j]

(* The driver reports once of every call, in the order of the calls.       *)
Matched(list, behaviours, reports) ==
  /\ Len(reports) = Len(list)
  /\ \A i \in 1 .. Len(list) : reports[i] = [task |-> list[i], kind |-> Kinds[behaviours[i]][1]]

Occurs(behaviour, behaviours) == \E i \in DOMAIN behaviours : behaviours[i] = behaviour

(* What is known of the reports of the calls of a list.                    *)
ReportsOf(list, behaviours, reports) ==
  /\ reports \in Seq(Report)
  /\ Occurs("raises", behaviours) => \E j \in DOMAIN reports : reports[j].kind = "error"
  /\ TextOf[list[1]] \in WithResults =>
       /\ ~Occurs("missing", behaviours) /\ ~Occurs("extra", behaviours) => Matched(list, behaviours, reports)
       /\ Occurs("missing", behaviours) /\ ~Occurs("extra", behaviours) => Len(reports) < Len(list)
       /\ ~Occurs("missing", behaviours) /\ Occurs("extra", behaviours) => Len(reports) > Len(list)
  /\ TextOf[list[1]] \notin WithResults =>
       /\ ~Occurs("missing", behaviours) /\ ~Occurs("extra", behaviours)
       /\ \/ Matched(list, behaviours, reports)
          \/ /\ \A j \in DOMAIN reports : reports[j].kind \in {"wrong", "error"}
             /\ reports = <<>> => \A i \in DOMAIN behaviours : behaviours[i] = "good"
             /\ reports # <<>> => \E i \in DOMAIN behaviours : behaviours[i] # "good"

(* Nothing is left of a list that has been forgotten.                      *)
NoListInv ==
  sub_list = <<>> => /\ calls = <<>> /\ stream = <<>> /\ CurrentResultSet = 0
                     /\ result = "none" /\ first_failed_task = 0

(* The tasks of a list share a text, and its reports are those of its calls. *)
CallsInv ==
  sub_list # <<>> =>
    /\ Len(calls) = Len(sub_list)
    /\ \A i \in DOMAIN sub_list : TextOf[sub_list[i]] = TextOf[sub_list[1]]
    /\ ReportsOf(sub_list, calls, stream)

(* What has been fetched was in order; what comes next has been looked at. *)
ProgressInv ==
  sub_list # <<>> =>
    /\ CurrentResultSet <= Len(sub_list)
    /\ \/ CurrentResultSet <= Len(stream)
       \/ CurrentResultSet = 1 /\ stream = <<>> /\ TextOf[sub_list[1]] \notin WithResults
    /\ \A k \in DOMAIN stream : k <= CurrentResultSet => stream[k].kind = "ok"
    /\ result = "none" => \/ stream = <<>> /\ CurrentResultSet = 0
                          \/ CurrentResultSet < Len(stream) /\ stream[At].kind # "error"

(* A list that has succeeded has been fetched to its end; the task that is *)
(* blamed is one of the list, and its call, or the count, went wrong.      *)
ResultInv ==
  /\ result = "SUCCESS" =>
       /\ Len(stream) <= CurrentResultSet
       /\ TextOf[sub_list[1]] \in WithResults => CurrentResultSet = Len(sub_list)
  /\ result = "FAILED_SPECIFIC_TASK" =>
       /\ first_failed_task \in DOMAIN sub_list
       /\ Faulty(first_failed_task) \/ Some_Call("missing") \/ Some_Call("extra")
  /\ result \in {"FAILED_SPECIFIC_TASK", "FAILED_UNKNOWN_TASK"} => \E i \in DOMAIN calls : Faulty(i)

ListInv == ExecutionTypeOK /\ NoListInv /\ CallsInv /\ ProgressInv /\ ResultInv

-----------------------------------------------------------------------------
(* Induction.  The induction theorems of the library take the property as  *)
(* an operator; a set of natural numbers serves as well.                   *)

(* A set of natural numbers that is not empty has a smallest element.      *)
LEMMA NatSmallest ==
  ASSUME NEW T \in SUBSET Nat, T # {}
  PROVE  \E x \in T : \A y \in T : x <= y
<1> DEFINE less == OpToRel(<, Nat)
<1>1. \E x \in T : \A y \in T : ~ (<<y, x>> \in less)
  <2>1. IsWellFoundedOn(less, Nat)
    BY NatLessThanWellFounded
  <2> HIDE DEF less
  <2> QED BY <2>1, WFMin
<1>2. \A x, y \in Nat : <<y, x>> \in less <=> y < x
  BY DEF OpToRel
<1> HIDE DEF less
<1>3. PICK x \in T : \A y \in T : ~ (<<y, x>> \in less)
  BY <1>1
<1>4. ASSUME NEW y \in T PROVE x <= y
  <2>1. <<y, x>> \notin less
    BY <1>3
  <2>2. x \in Nat /\ y \in Nat
    OBVIOUS
  <2>3. ~ (y < x)
    BY <2>1, <2>2, <1>2, Zenon
  <2> QED BY <2>2, <2>3
<1> QED BY <1>4

(* A set that has 0, and the successor of every natural number that it     *)
(* has, has them all.                                                      *)
LEMMA NatSetInduction ==
  ASSUME NEW S, 0 \in S, \A n \in Nat : n \in S => n + 1 \in S
  PROVE  Nat \subseteq S
<1> SUFFICES ASSUME Nat \ S # {} PROVE FALSE
  OBVIOUS
<1>1. PICK x \in Nat \ S : \A y \in Nat \ S : x <= y
  BY NatSmallest
<1>2. x # 0 /\ x - 1 \in Nat
  BY <1>1
<1>3. x - 1 \in S
  BY <1>1, <1>2
<1> QED BY <1>1, <1>2, <1>3

(* The same for the numbers up to n.                                       *)
LEMMA UpToInduction ==
  ASSUME NEW n \in Nat, NEW S, 0 \in S, \A m \in 0 .. n - 1 : m \in S => m + 1 \in S
  PROVE  0 .. n \subseteq S
<1> DEFINE T == { m \in Nat : m <= n => m \in S }
<1>1. 0 \in T
  OBVIOUS
<1>2. \A m \in Nat : m \in T => m + 1 \in T
  OBVIOUS
<1>3. Nat \subseteq T
  <2> HIDE DEF T
  <2> QED BY <1>1, <1>2, NatSetInduction
<1> QED BY <1>3

-----------------------------------------------------------------------------
(* Lists.                                                                  *)

(* There is a sequence of lists that begins with the empty one and appends *)
(* list after list.                                                        *)
LEMMA AppendedLists ==
  ASSUME NEW S, NEW lists \in Seq(Seq(S))
  PROVE  \A n \in 0 .. Len(lists) :
           \E g \in [0 .. n -> Seq(S)] :
             g[0] = <<>> /\ \A i \in 1 .. n : g[i] = g[i - 1] \o lists[i]
<1> DEFINE Built(n, g) == g[0] = <<>> /\ \A i \in 1 .. n : g[i] = g[i - 1] \o lists[i]
           T == { n \in 0 .. Len(lists) : \E g \in [0 .. n -> Seq(S)] : Built(n, g) }
<1>0. Len(lists) \in Nat /\ <<>> \in Seq(S) /\ \A i \in 1 .. Len(lists) : lists[i] \in Seq(S)
  OBVIOUS
<1>1. 0 \in T
  <2> DEFINE g == [i \in 0 .. 0 |-> <<>>]
  <2>1. g \in [0 .. 0 -> Seq(S)] /\ g[0] = <<>> /\ 1 .. 0 = {}
    BY <1>0
  <2> HIDE DEF g
  <2>2. \E h \in [0 .. 0 -> Seq(S)] : Built(0, h)
    BY <2>1
  <2>3. 0 \in 0 .. Len(lists)
    BY <1>0
  <2> QED BY <2>2, <2>3, Zenon
<1>2. ASSUME NEW n \in 0 .. Len(lists) - 1, n \in T PROVE n + 1 \in T
  <2>1. PICK g \in [0 .. n -> Seq(S)] : Built(n, g)
    BY <1>2
  <2> DEFINE h == [i \in 0 .. n + 1 |-> IF i = n + 1 THEN g[n] \o lists[i] ELSE g[i]]
  <2>2. h \in [0 .. n + 1 -> Seq(S)]
    <3>1. g[n] \in Seq(S) /\ lists[n + 1] \in Seq(S)
      BY <1>0
    <3>2. g[n] \o lists[n + 1] \in Seq(S)
      BY <3>1, ConcatProperties
    <3> QED BY <3>2, <1>0
  <2>3. ASSUME NEW i \in 1 .. n + 1 PROVE h[i] = h[i - 1] \o lists[i]
    <3>1. i - 1 \in 0 .. n /\ h[i - 1] = g[i - 1]
      BY <1>0
    <3>2. CASE i = n + 1
      <4>1. i \in 0 .. n + 1 /\ i - 1 = n
        BY <3>2, <1>0
      <4>2. h[i] = g[n] \o lists[i]
        BY <4>1, <3>2, Zenon
      <4> QED BY <4>1, <4>2, <3>1, Zenon
    <3>3. CASE i # n + 1
      <4>1. i \in 1 .. n /\ h[i] = g[i]
        BY <3>3, <1>0
      <4> QED BY <2>1, <4>1, <3>1
    <3> QED BY <3>2, <3>3
  <2>4. h[0] = <<>>
    BY <2>1, <1>0
  <2>5. n + 1 \in 0 .. Len(lists)
    BY <1>0
  <2> HIDE DEF h
  <2> QED BY <2>2, <2>3, <2>4, <2>5
<1>3. 0 .. Len(lists) \subseteq T
  <2> HIDE DEF T
  <2> QED BY <1>0, <1>1, <1>2, UpToInduction
<1> QED BY <1>3

(* FlattenSeq appends list after list to the empty one.                    *)
LEMMA FlattenSteps ==
  ASSUME NEW S, NEW lists \in Seq(Seq(S))
  PROVE  \E g \in [0 .. Len(lists) -> Seq(S)] :
           /\ g[0] = <<>>
           /\ \A i \in 1 .. Len(lists) : g[i] = g[i - 1] \o lists[i]
           /\ FlattenSeq(lists) = g[Len(lists)]
<1>0. Len(lists) \in Nat /\ Len(lists) \in 0 .. Len(lists) /\ \A i \in 1 .. Len(lists) : lists[i] \in Seq(S)
  OBVIOUS
<1>1. PICK g \in [0 .. Len(lists) -> Seq(S)] :
        g[0] = <<>> /\ \A i \in 1 .. Len(lists) : g[i] = g[i - 1] \o lists[i]
  BY <1>0, AppendedLists, Zenon
<1>2. FlattenSeq(lists) = g[Len(lists)]
  <2>1. CASE Len(lists) = 0
    <3>1. FlattenSeq(lists) = <<>>
      BY <2>1 DEF FlattenSeq
    <3> QED BY <3>1, <2>1, <1>1
  <2>2. CASE Len(lists) # 0
    <3> DEFINE Body(f) == [i \in 1 .. Len(lists) |-> IF i = 1 THEN lists[i] ELSE f[i - 1] \o lists[i]]
               f == CHOOSE flatten : flatten = Body(flatten)
               h == [i \in 1 .. Len(lists) |-> g[i]]
    <3>1. FlattenSeq(lists) = f[Len(lists)]
      BY <2>2 DEF FlattenSeq
    <3>2. h = Body(h)
      <4>1. ASSUME NEW i \in 1 .. Len(lists) PROVE g[i] = IF i = 1 THEN lists[i] ELSE h[i - 1] \o lists[i]
        <5>1. CASE i = 1
          <6>1. g[i] = g[i - 1] \o lists[i] /\ lists[i] \in Seq(S)
            BY <1>1, <1>0, Zenon
          <6>2. i - 1 = 0
            BY <5>1
          <6>3. g[i] = <<>> \o lists[i]
            BY <6>1, <6>2, <1>1, Zenon
          <6> QED BY <6>1, <6>3, <5>1, ConcatEmptySeq
        <5>2. CASE i # 1
          <6>1. h[i - 1] = g[i - 1]
            BY <5>2, <1>0
          <6> QED BY <6>1, <5>2, <1>1
        <5> QED BY <5>1, <5>2
      <4> QED BY <4>1
    <3>3. f = Body(f)
      <4> HIDE DEF Body, h
      <4> QED BY <3>2
    <3> HIDE DEF f
    <3>4. \A i \in 1 .. Len(lists) : f[i] = IF i = 1 THEN lists[i] ELSE f[i - 1] \o lists[i]
      BY <3>3, Zenon
    <3> HIDE DEF Body
    <3> DEFINE T == { n \in Nat : n \in 1 .. Len(lists) => f[n] = g[n] }
    <3>5. 0 \in T
      OBVIOUS
    <3>6. ASSUME NEW n \in Nat, n \in T PROVE n + 1 \in T
      <4> SUFFICES ASSUME n + 1 \in 1 .. Len(lists) PROVE f[n + 1] = g[n + 1]
        OBVIOUS
      <4>0. (n + 1) - 1 = n
        OBVIOUS
      <4>1. CASE n = 0
        <5>1. g[n + 1] = g[(n + 1) - 1] \o lists[n + 1] /\ lists[n + 1] \in Seq(S)
          BY <1>1, <1>0, Zenon
        <5>2. (n + 1) - 1 = 0 /\ n + 1 = 1
          BY <4>1
        <5>3. g[n + 1] = <<>> \o lists[n + 1]
          BY <5>1, <5>2, <1>1, Zenon
        <5>4. f[n + 1] = lists[n + 1]
          BY <5>2, <3>4, Zenon
        <5> QED BY <5>1, <5>3, <5>4, ConcatEmptySeq
      <4>2. CASE n # 0
        <5>1. f[n] = g[n]
          BY <3>6, <4>2, <1>0
        <5>2. n + 1 # 1
          BY <4>2
        <5>3. f[n + 1] = f[(n + 1) - 1] \o lists[n + 1]
          BY <5>2, <3>4, Zenon
        <5>4. g[n + 1] = g[(n + 1) - 1] \o lists[n + 1]
          BY <1>1, Zenon
        <5> QED BY <5>1, <5>3, <5>4, <4>0, Zenon
      <4> QED BY <4>1, <4>2
    <3>7. Nat \subseteq T
      <4> HIDE DEF T
      <4> QED BY <3>5, <3>6, NatSetInduction
    <3> QED BY <3>1, <3>7, <2>2, <1>0
  <2> QED BY <2>1, <2>2
<1> QED BY <1>1, <1>2

(* The members of a list are of its type; an empty list has none.          *)
LEMMA MembersType ==
  ASSUME NEW S, NEW list \in Seq(S)
  PROVE  /\ Members(list) \subseteq S
         /\ Members(<<>>) = {}
         /\ Members(list) = {} <=> list = <<>>
         /\ Distinct(<<>>)
<1>1. DOMAIN list = 1 .. Len(list) /\ Len(list) \in Nat /\ \A i \in 1 .. Len(list) : list[i] \in S
  OBVIOUS
<1>2. DOMAIN <<>> = {}
  OBVIOUS
<1>3. list = <<>> <=> Len(list) = 0
  BY EmptySeq
<1>4. list # <<>> => list[1] \in Members(list)
  BY <1>1, <1>3 DEF Members
<1> QED BY <1>1, <1>2, <1>3, <1>4 DEF Members, Distinct

(* What is a member of a concatenation, and when it is distinct.           *)
LEMMA MembersConcat ==
  ASSUME NEW S, NEW s \in Seq(S), NEW t \in Seq(S)
  PROVE  /\ s \o t \in Seq(S)
         /\ Members(s \o t) = Members(s) \cup Members(t)
         /\ Distinct(s) /\ Distinct(t) /\ Members(s) \cap Members(t) = {} => Distinct(s \o t)
<1> DEFINE c == s \o t
<1>0. /\ s \o t \in Seq(S) /\ Len(c) = Len(s) + Len(t)
      /\ Len(s) \in Nat /\ Len(t) \in Nat
      /\ DOMAIN s = 1 .. Len(s) /\ DOMAIN t = 1 .. Len(t) /\ DOMAIN c = 1 .. Len(s) + Len(t)
      /\ \A i \in 1 .. Len(s) + Len(t) : c[i] = IF i <= Len(s) THEN s[i] ELSE t[i - Len(s)]
  BY ConcatProperties, LenProperties
<1> HIDE DEF c
<1>1. \A i \in DOMAIN s : i \in DOMAIN c /\ c[i] = s[i]
  BY <1>0
<1>2. \A i \in DOMAIN t : i + Len(s) \in DOMAIN c /\ c[i + Len(s)] = t[i]
  BY <1>0
<1>3. \A i \in DOMAIN c : \/ i \in DOMAIN s /\ c[i] = s[i]
                          \/ i - Len(s) \in DOMAIN t /\ c[i] = t[i - Len(s)]
  BY <1>0
<1>4. Members(c) = Members(s) \cup Members(t)
  BY <1>1, <1>2, <1>3 DEF Members
<1>5. ASSUME Distinct(s), Distinct(t), Members(s) \cap Members(t) = {} PROVE Distinct(c)
  <2> SUFFICES ASSUME NEW i \in DOMAIN c, NEW j \in DOMAIN c, i # j
               PROVE  c[i] # c[j]
    BY DEF Distinct
  <2>0. i \in Int /\ j \in Int
    BY <1>0
  <2>1. CASE i \in DOMAIN s /\ j \in DOMAIN s
    BY <2>1, <1>1, <1>5 DEF Distinct
  <2>2. CASE i \in DOMAIN s /\ j \notin DOMAIN s
    BY <2>2, <1>1, <1>3, <1>5 DEF Members
  <2>3. CASE i \notin DOMAIN s /\ j \in DOMAIN s
    BY <2>3, <1>1, <1>3, <1>5 DEF Members
  <2>4. CASE i \notin DOMAIN s /\ j \notin DOMAIN s
    <3>1. i - Len(s) # j - Len(s)
      BY <2>0, <1>0
    <3>2. /\ i - Len(s) \in DOMAIN t /\ c[i] = t[i - Len(s)]
          /\ j - Len(s) \in DOMAIN t /\ c[j] = t[j - Len(s)]
      BY <2>4, <1>3
    <3> QED BY <3>1, <3>2, <1>5 DEF Distinct
  <2> QED BY <2>1, <2>2, <2>3, <2>4
<1> QED BY <1>0, <1>4, <1>5 DEF c

(* A distinct list is split into two that have nothing in common.          *)
LEMMA MembersSplit ==
  ASSUME NEW S, NEW s \in Seq(S), NEW n \in 0 .. Len(s)
  PROVE  LET first == SubSeq(s, 1, n)
             rest  == SubSeq(s, n + 1, Len(s))
         IN /\ first \in Seq(S) /\ rest \in Seq(S)
            /\ Len(first) = n
            /\ Members(s) = Members(first) \cup Members(rest)
            /\ Distinct(s) => /\ Distinct(first) /\ Distinct(rest)
                              /\ Members(first) \cap Members(rest) = {}
<1> DEFINE first == SubSeq(s, 1, n)
           rest  == SubSeq(s, n + 1, Len(s))
<1>0. Len(s) \in Nat /\ DOMAIN s = 1 .. Len(s) /\ n \in Nat /\ n <= Len(s) /\ \A i \in 1 .. Len(s) : s[i] \in S
  OBVIOUS
<1>1. first \in Seq(S) /\ Len(first) = n /\ DOMAIN first = 1 .. n /\ \A i \in 1 .. n : first[i] = s[i]
  <2>1. \A i \in 1 .. n : s[i] \in S
    BY <1>0
  <2>2. /\ first \in Seq(S) /\ Len(first) = (IF 1 <= n THEN n - 1 + 1 ELSE 0)
        /\ \A i \in 1 .. n - 1 + 1 : first[i] = s[1 + i - 1]
    BY <2>1, <1>0, SubSeqProperties
  <2>3. Len(first) = n /\ n - 1 + 1 = n /\ \A i \in 1 .. n : 1 + i - 1 = i
    BY <2>2, <1>0
  <2> HIDE DEF first
  <2>4. \A i \in 1 .. n : first[i] = s[i]
    BY <2>2, <2>3
  <2> QED BY <2>2, <2>3, <2>4, LenProperties
<1>2. /\ rest \in Seq(S) /\ DOMAIN rest = 1 .. Len(s) - n
      /\ \A i \in 1 .. Len(s) - n : rest[i] = s[n + i]
  <2>1. \A i \in n + 1 .. Len(s) : s[i] \in S
    BY <1>0
  <2>2. /\ rest \in Seq(S) /\ Len(rest) = (IF n + 1 <= Len(s) THEN Len(s) - (n + 1) + 1 ELSE 0)
        /\ \A i \in 1 .. Len(s) - (n + 1) + 1 : rest[i] = s[n + 1 + i - 1]
    BY <2>1, <1>0, SubSeqProperties
  <2> HIDE DEF rest
  <2>3. Len(rest) = Len(s) - n /\ Len(s) - (n + 1) + 1 = Len(s) - n
    <3>1. Len(rest) = (IF n + 1 <= Len(s) THEN Len(s) - (n + 1) + 1 ELSE 0)
      BY <2>2
    <3>2. CASE n = Len(s)
      BY <3>1, <3>2, <1>0
    <3>3. CASE n < Len(s)
      <4>1. n + 1 <= Len(s) /\ Len(s) - (n + 1) + 1 = Len(s) - n
        BY <3>3, <1>0
      <4>2. Len(rest) = Len(s) - (n + 1) + 1
        BY <3>1, <4>1
      <4> QED BY <4>1, <4>2
    <3>4. n = Len(s) \/ n < Len(s)
      <4>1. n \in Int /\ Len(s) \in Int /\ n <= Len(s)
        BY <1>0
      <4> QED BY <4>1
    <3> QED BY <3>2, <3>3, <3>4, Zenon
  <2>4. \A i \in 1 .. Len(s) - n : rest[i] = s[n + i]
    <3> TAKE i \in 1 .. Len(s) - n
    <3>1. n + 1 + i - 1 = n + i
      BY <1>0
    <3> QED BY <2>2, <2>3, <3>1, Zenon
  <2> QED BY <2>2, <2>3, <2>4, LenProperties
<1> HIDE DEF first, rest
<1>3. \A i \in DOMAIN s : \/ i \in DOMAIN first /\ first[i] = s[i]
                          \/ i - n \in DOMAIN rest /\ rest[i - n] = s[i]
  <2> SUFFICES ASSUME NEW i \in DOMAIN s, i \notin DOMAIN first
               PROVE  i - n \in DOMAIN rest /\ rest[i - n] = s[i]
    BY <1>1
  <2>1. i - n \in 1 .. Len(s) - n /\ n + (i - n) = i
    BY <1>0, <1>1
  <2> QED BY <2>1, <1>2
<1>4. \A i \in DOMAIN first : i \in DOMAIN s /\ first[i] = s[i]
  BY <1>0, <1>1
<1>5. \A i \in DOMAIN rest : n + i \in DOMAIN s /\ rest[i] = s[n + i] /\ n + i \notin DOMAIN first
  BY <1>0, <1>1, <1>2
<1>6. Members(s) = Members(first) \cup Members(rest)
  BY <1>3, <1>4, <1>5 DEF Members
<1>7. Distinct(s) => Distinct(first) /\ Members(first) \cap Members(rest) = {}
  BY <1>4, <1>5 DEF Distinct, Members
<1>8. ASSUME Distinct(s) PROVE Distinct(rest)
  <2> SUFFICES ASSUME NEW i \in DOMAIN rest, NEW j \in DOMAIN rest, i # j PROVE rest[i] # rest[j]
    BY DEF Distinct
  <2>1. n + i # n + j
    BY <1>0, <1>2
  <2> QED BY <2>1, <1>5, <1>8 DEF Distinct
<1> QED BY <1>1, <1>2, <1>6, <1>7, <1>8 DEF first, rest

(* A list without one of its places.                                       *)
LEMMA MembersRemoveAt ==
  ASSUME NEW S, NEW s \in Seq(S), NEW i \in 1 .. Len(s), Distinct(s)
  PROVE  /\ RemoveAt(s, i) \in Seq(S)
         /\ Members(RemoveAt(s, i)) = Members(s) \ {s[i]}
         /\ Distinct(RemoveAt(s, i))
<1> DEFINE before == SubSeq(s, 1, i - 1)
           from   == SubSeq(s, i, Len(s))
           upto   == SubSeq(s, 1, i)
           after  == SubSeq(s, i + 1, Len(s))
<1>0. Len(s) \in Nat /\ i \in Nat /\ i - 1 \in 0 .. Len(s) /\ i \in 0 .. Len(s) /\ (i - 1) + 1 = i
  OBVIOUS
<1>1. /\ before \in Seq(S) /\ Distinct(before) /\ Members(s) = Members(before) \cup Members(from)
      /\ Members(before) \cap Members(from) = {}
  <2>1. LET rest == SubSeq(s, (i - 1) + 1, Len(s))
        IN /\ before \in Seq(S) /\ Distinct(before) /\ Members(s) = Members(before) \cup Members(rest)
           /\ Members(before) \cap Members(rest) = {}
    BY <1>0, MembersSplit
  <2> QED BY <2>1, <1>0, Zenon
<1>2. /\ after \in Seq(S) /\ Distinct(after) /\ Members(s) = Members(upto) \cup Members(after)
      /\ Members(upto) \cap Members(after) = {}
  BY <1>0, MembersSplit
<1>3. s[i] \in Members(upto) /\ s[i] \in Members(from)
  <2>1. upto[i] = s[i] /\ DOMAIN upto = 1 .. i
    BY <1>0
  <2>2. from[1] = s[i] /\ 1 \in DOMAIN from
    BY <1>0
  <2> HIDE DEF upto, from
  <2> QED BY <2>1, <2>2, <1>0 DEF Members
<1>4. Members(s) = Members(before) \cup {s[i]} \cup Members(after)
  <2> SUFFICES ASSUME NEW e \in Members(s) PROVE e \in Members(before) \cup {s[i]} \cup Members(after)
    BY <1>1, <1>2, <1>3
  <2>1. PICK k \in 1 .. Len(s) : e = s[k]
    BY DEF Members
  <2>2. CASE k < i
    <3>1. before[k] = s[k] /\ k \in DOMAIN before
      BY <2>2, <1>0
    <3> HIDE DEF before
    <3> QED BY <3>1, <2>1 DEF Members
  <2>3. CASE k > i
    <3>1. after[k - i] = s[k] /\ k - i \in DOMAIN after
      BY <2>3, <1>0
    <3> HIDE DEF after
    <3> QED BY <3>1, <2>1 DEF Members
  <2> QED BY <2>1, <2>2, <2>3
<1>5. Members(before) \cap Members(after) = {}
  <2>1. Members(before) \subseteq Members(upto)
    <3>1. \A k \in DOMAIN before : k \in DOMAIN upto /\ upto[k] = before[k]
      BY <1>0
    <3> HIDE DEF before, upto
    <3> QED BY <3>1 DEF Members
  <2> QED BY <2>1, <1>2
<1>6. RemoveAt(s, i) = before \o after
  BY DEF RemoveAt
<1> HIDE DEF before, from, upto, after
<1>7. /\ before \o after \in Seq(S) /\ Members(before \o after) = Members(before) \cup Members(after)
      /\ Distinct(before \o after)
  BY <1>1, <1>2, <1>5, MembersConcat
<1> QED BY <1>1, <1>2, <1>3, <1>4, <1>6, <1>7

(* The members of flattened lists, which are distinct when no two lists    *)
(* have a member in common.                                                *)
LEMMA MembersFlatten ==
  ASSUME NEW S, NEW lists \in Seq(Seq(S))
  PROVE  /\ FlattenSeq(lists) \in Seq(S)
         /\ Members(FlattenSeq(lists)) = UNION { Members(lists[i]) : i \in DOMAIN lists }
         /\ /\ \A i \in DOMAIN lists : Distinct(lists[i])
            /\ \A i, j \in DOMAIN lists : i # j => Members(lists[i]) \cap Members(lists[j]) = {}
            => Distinct(FlattenSeq(lists))
<1> DEFINE Apart == /\ \A i \in DOMAIN lists : Distinct(lists[i])
                    /\ \A i, j \in DOMAIN lists : i # j => Members(lists[i]) \cap Members(lists[j]) = {}
           All(n) == UNION { Members(lists[i]) : i \in 1 .. n }
<1>0. /\ Len(lists) \in Nat /\ DOMAIN lists = 1 .. Len(lists) /\ <<>> \in Seq(S)
      /\ \A i \in 1 .. Len(lists) : lists[i] \in Seq(S)
  OBVIOUS
<1>1. PICK g \in [0 .. Len(lists) -> Seq(S)] :
        /\ g[0] = <<>>
        /\ \A i \in 1 .. Len(lists) : g[i] = g[i - 1] \o lists[i]
        /\ FlattenSeq(lists) = g[Len(lists)]
  BY FlattenSteps, Zenon
<1> DEFINE T == { n \in 0 .. Len(lists) : Members(g[n]) = All(n) /\ (Apart => Distinct(g[n])) }
<1>2. 0 \in T
  <2>1. Members(g[0]) = {} /\ Distinct(g[0])
    BY <1>1, <1>0, MembersType
  <2>2. All(0) = {}
    OBVIOUS
  <2>3. 0 \in 0 .. Len(lists)
    BY <1>0
  <2> HIDE DEF Apart, All
  <2> QED BY <2>1, <2>2, <2>3
<1>3. ASSUME NEW n \in 0 .. Len(lists) - 1, n \in T PROVE n + 1 \in T
  <2>0. n + 1 \in 1 .. Len(lists) /\ (n + 1) - 1 = n /\ n \in 0 .. Len(lists)
    BY <1>0
  <2>1. g[n] \in Seq(S) /\ lists[n + 1] \in Seq(S) /\ g[n + 1] = g[n] \o lists[n + 1]
    <3>1. g[n + 1] = g[(n + 1) - 1] \o lists[n + 1]
      BY <2>0, <1>1, Zenon
    <3>2. g[n] \in Seq(S) /\ lists[n + 1] \in Seq(S)
      BY <2>0, <1>0
    <3> QED BY <3>1, <3>2, <2>0, Zenon
  <2>2. /\ Members(g[n + 1]) = Members(g[n]) \cup Members(lists[n + 1])
        /\ Distinct(g[n]) /\ Distinct(lists[n + 1]) /\ Members(g[n]) \cap Members(lists[n + 1]) = {}
           => Distinct(g[n + 1])
    BY <2>1, MembersConcat
  <2>3. Members(g[n]) = All(n) /\ (Apart => Distinct(g[n]))
    BY <1>3
  <2>4. All(n + 1) = All(n) \cup Members(lists[n + 1])
    <3>1. \A i : i \in 1 .. n + 1 <=> i \in 1 .. n \/ i = n + 1
      BY <2>0, <1>0
    <3> QED BY <3>1, Zenon
  <2>5. Apart => Distinct(lists[n + 1]) /\ All(n) \cap Members(lists[n + 1]) = {}
    <3>1. \A i \in 1 .. n : i \in 1 .. Len(lists) /\ i # n + 1
      BY <2>0, <1>0
    <3> QED BY <3>1, <2>0, <1>0
  <2>6. n + 1 \in 0 .. Len(lists)
    BY <2>0
  <2> HIDE DEF Apart, All
  <2> QED BY <2>2, <2>3, <2>4, <2>5, <2>6
<1>4. Len(lists) \in T
  <2>1. 0 .. Len(lists) \subseteq T
    <3> HIDE DEF T
    <3> QED BY <1>0, <1>2, <1>3, UpToInduction
  <2>2. Len(lists) \in 0 .. Len(lists)
    BY <1>0
  <2> HIDE DEF T
  <2> QED BY <2>1, <2>2
<1>5. FlattenSeq(lists) \in Seq(S)
  BY <1>0, <1>1
<1>6. Members(FlattenSeq(lists)) = All(Len(lists)) /\ (Apart => Distinct(FlattenSeq(lists)))
  <2> HIDE DEF Apart, All
  <2> QED BY <1>1, <1>4
<1> QED BY <1>0, <1>5, <1>6

(* The elements of a list that are in a set.                               *)
LEMMA MembersSublist ==
  ASSUME NEW S, NEW s \in Seq(S), NEW T
  PROVE  /\ Sublist(s, T) \in Seq(S)
         /\ Members(Sublist(s, T)) = Members(s) \cap T
         /\ Distinct(s) => Distinct(Sublist(s, T))
<1> DEFINE lists == [i \in DOMAIN s |-> IF s[i] \in T THEN <<s[i]>> ELSE <<>>]
<1>0. DOMAIN s = 1 .. Len(s) /\ Len(s) \in Nat /\ <<>> \in Seq(S) /\ \A i \in DOMAIN s : s[i] \in S /\ <<s[i]>> \in Seq(S)
  OBVIOUS
<1>1. lists \in Seq(Seq(S)) /\ DOMAIN lists = DOMAIN s
  BY <1>0
<1>2. \A i \in DOMAIN s : /\ Members(lists[i]) = {s[i]} \cap T
                          /\ Distinct(lists[i])
  <2> TAKE i \in DOMAIN s
  <2>1. CASE s[i] \in T
    <3>1. lists[i] = <<s[i]>>
      BY <2>1
    <3>2. Members(<<s[i]>>) = {s[i]} /\ Distinct(<<s[i]>>)
      BY DEF Members, Distinct
    <3> HIDE DEF lists
    <3> QED BY <3>1, <3>2, <2>1
  <2>2. CASE s[i] \notin T
    <3>1. lists[i] = <<>>
      BY <2>2
    <3>2. Members(<<>>) = {} /\ Distinct(<<>>)
      BY <1>0, MembersType
    <3> HIDE DEF lists
    <3> QED BY <3>1, <3>2, <2>2
  <2> QED BY <2>1, <2>2
<1>3. Sublist(s, T) = FlattenSeq(lists)
  BY DEF Sublist
<1> HIDE DEF lists
<1>4. Members(FlattenSeq(lists)) = Members(s) \cap T
  <2>1. Members(FlattenSeq(lists)) = UNION { Members(lists[i]) : i \in DOMAIN s }
    BY <1>1, MembersFlatten
  <2>2. \A e : e \in Members(FlattenSeq(lists)) <=> \E i \in DOMAIN s : e \in Members(lists[i])
    BY <2>1
  <2>3. Members(s) = { s[i] : i \in DOMAIN s }
    BY DEF Members
  <2>4. ASSUME NEW e PROVE e \in Members(FlattenSeq(lists)) <=> e \in Members(s) \cap T
    <3>1. e \in Members(s) \cap T <=> \E i \in DOMAIN s : e \in {s[i]} \cap T
      BY <2>3
    <3>2. \A i \in DOMAIN s : e \in Members(lists[i]) <=> e \in {s[i]} \cap T
      BY <1>2
    <3> QED BY <3>1, <3>2, <2>2
  <2> QED BY <2>4
<1>5. ASSUME Distinct(s) PROVE Distinct(FlattenSeq(lists))
  <2>1. \A i, j \in DOMAIN s : i # j => Members(lists[i]) \cap Members(lists[j]) = {}
    BY <1>2, <1>5 DEF Distinct
  <2> QED BY <2>1, <1>1, <1>2, MembersFlatten
<1>6. FlattenSeq(lists) \in Seq(S)
  BY <1>1, MembersFlatten
<1> QED BY <1>3, <1>4, <1>5, <1>6

(* Lists of lists in which nothing occurs twice, and what occurs in them.  *)
Apart(lists) == /\ \A i \in DOMAIN lists : Distinct(lists[i])
                /\ \A i, j \in DOMAIN lists : i # j => Members(lists[i]) \cap Members(lists[j]) = {}
AllOf(lists) == UNION { Members(lists[i]) : i \in DOMAIN lists }

(* Lists of lists that are concatenated, when they have nothing in common. *)
LEMMA ApartConcat ==
  ASSUME NEW S, NEW s \in Seq(S), NEW t \in Seq(S),
         Apart(s), Apart(t), AllOf(s) \cap AllOf(t) = {}
  PROVE  /\ s \o t \in Seq(S)
         /\ Apart(s \o t)
         /\ AllOf(s \o t) = AllOf(s) \cup AllOf(t)
<1> DEFINE c == s \o t
           k == Len(s)
<1>0. /\ s \o t \in Seq(S) /\ k \in Nat /\ Len(t) \in Nat
      /\ DOMAIN s = 1 .. k /\ DOMAIN t = 1 .. Len(t) /\ DOMAIN c = 1 .. k + Len(t)
      /\ \A i \in 1 .. k + Len(t) : c[i] = IF i <= k THEN s[i] ELSE t[i - k]
  BY ConcatProperties, LenProperties
<1> HIDE DEF c, k
<1>1. \A i \in DOMAIN s : i \in DOMAIN c /\ c[i] = s[i]
  BY <1>0
<1>2. \A i \in DOMAIN t : i + k \in DOMAIN c /\ c[i + k] = t[i]
  BY <1>0
<1>3. \A i \in DOMAIN c : \/ i \in DOMAIN s /\ c[i] = s[i]
                          \/ i \notin DOMAIN s /\ i - k \in DOMAIN t /\ c[i] = t[i - k]
  BY <1>0
<1>4. /\ \A i \in DOMAIN s : Members(s[i]) \subseteq AllOf(s)
      /\ \A i \in DOMAIN t : Members(t[i]) \subseteq AllOf(t)
  BY DEF AllOf
<1>5. AllOf(c) = AllOf(s) \cup AllOf(t)
  <2>1. AllOf(c) \subseteq AllOf(s) \cup AllOf(t)
    BY <1>3, <1>4 DEF AllOf
  <2>2. AllOf(s) \subseteq AllOf(c)
    BY <1>1 DEF AllOf
  <2>3. AllOf(t) \subseteq AllOf(c)
    BY <1>2 DEF AllOf
  <2> QED BY <2>1, <2>2, <2>3
<1>6. \A i \in DOMAIN c : Distinct(c[i])
  BY <1>3 DEF Apart
<1>7. ASSUME NEW i \in DOMAIN c, NEW j \in DOMAIN c, i # j
      PROVE  Members(c[i]) \cap Members(c[j]) = {}
  <2>0. i \in Int /\ j \in Int /\ k \in Int
    BY <1>0
  <2>1. CASE i \in DOMAIN s /\ j \in DOMAIN s
    BY <2>1, <1>1, <1>7 DEF Apart
  <2>2. CASE i \in DOMAIN s /\ j \notin DOMAIN s
    BY <2>2, <1>1, <1>3, <1>4
  <2>3. CASE i \notin DOMAIN s /\ j \in DOMAIN s
    BY <2>3, <1>1, <1>3, <1>4
  <2>4. CASE i \notin DOMAIN s /\ j \notin DOMAIN s
    <3>1. i - k # j - k
      BY <2>0, <1>7
    <3>2. /\ i - k \in DOMAIN t /\ c[i] = t[i - k]
          /\ j - k \in DOMAIN t /\ c[j] = t[j - k]
      BY <2>4, <1>3
    <3> QED BY <3>1, <3>2 DEF Apart
  <2> QED BY <2>1, <2>2, <2>3, <2>4
<1> QED BY <1>0, <1>5, <1>6, <1>7 DEF Apart, c

(* Lists of lists without the first.                                       *)
LEMMA ApartTail ==
  ASSUME NEW S, NEW lists \in Seq(S), lists # <<>>, Apart(lists)
  PROVE  /\ Tail(lists) \in Seq(S)
         /\ Apart(Tail(lists))
         /\ AllOf(Tail(lists)) = AllOf(lists) \ Members(lists[1])
         /\ Members(lists[1]) \subseteq AllOf(lists)
         /\ Distinct(lists[1]) /\ lists[1] \in S /\ Head(lists) = lists[1]
<1> DEFINE t == Tail(lists)
           n == Len(lists)
<1>0. /\ t \in Seq(S) /\ n \in Nat /\ n # 0 /\ DOMAIN t = 1 .. n - 1 /\ DOMAIN lists = 1 .. n
      /\ \A i \in 1 .. n - 1 : t[i] = lists[i + 1]
  <2>1. t \in Seq(S) /\ Len(t) = n - 1 /\ \A i \in 1 .. Len(t) : t[i] = lists[i + 1]
    BY HeadTailProperties
  <2> QED BY <2>1, EmptySeq, LenProperties
<1> HIDE DEF t, n
<1>1. \A i \in DOMAIN t : i + 1 \in DOMAIN lists /\ t[i] = lists[i + 1] /\ i + 1 # 1
  BY <1>0
<1>2. \A i \in DOMAIN lists : i = 1 \/ (i - 1 \in DOMAIN t /\ t[i - 1] = lists[i])
  <2> SUFFICES ASSUME NEW i \in DOMAIN lists, i # 1 PROVE i - 1 \in DOMAIN t /\ t[i - 1] = lists[i]
    OBVIOUS
  <2>1. i - 1 \in 1 .. n - 1 /\ (i - 1) + 1 = i
    BY <1>0
  <2> QED BY <2>1, <1>0
<1>3. 1 \in DOMAIN lists
  BY <1>0
<1>4. Apart(t)
  <2>1. \A i \in DOMAIN t : Distinct(t[i])
    BY <1>1 DEF Apart
  <2>2. ASSUME NEW i \in DOMAIN t, NEW j \in DOMAIN t, i # j PROVE Members(t[i]) \cap Members(t[j]) = {}
    <3>1. i + 1 # j + 1
      BY <2>2, <1>0
    <3> QED BY <3>1, <1>1 DEF Apart
  <2> QED BY <2>1, <2>2 DEF Apart
<1>5. AllOf(t) = AllOf(lists) \ Members(lists[1])
  <2>1. AllOf(t) \subseteq AllOf(lists)
    BY <1>1 DEF AllOf
  <2>2. AllOf(t) \cap Members(lists[1]) = {}
    BY <1>1, <1>3 DEF AllOf, Apart
  <2>3. AllOf(lists) \subseteq AllOf(t) \cup Members(lists[1])
    BY <1>2 DEF AllOf
  <2> QED BY <2>1, <2>2, <2>3
<1>6. Members(lists[1]) \subseteq AllOf(lists)
  BY <1>3 DEF AllOf
<1>7. Distinct(lists[1]) /\ lists[1] \in S /\ Head(lists) = lists[1]
  BY <1>0, <1>3 DEF Apart
<1> QED BY <1>0, <1>4, <1>5, <1>6, <1>7 DEF t

(* The lists of one element each of a distinct list.                       *)
LEMMA ApartSingles ==
  ASSUME NEW S, NEW list \in Seq(S), Distinct(list)
  PROVE  /\ Singles(list) \in Seq(Seq(S) \ {<<>>})
         /\ Apart(Singles(list))
         /\ AllOf(Singles(list)) = Members(list)
<1> DEFINE lists == Singles(list)
<1>0. DOMAIN list = 1 .. Len(list) /\ Len(list) \in Nat /\ \A i \in DOMAIN list : list[i] \in S
  OBVIOUS
<1>1. DOMAIN lists = DOMAIN list /\ \A i \in DOMAIN list : lists[i] = <<list[i]>>
  BY DEF Singles
<1>2. \A x : Members(<<x>>) = {x} /\ Distinct(<<x>>)
  BY DEF Members, Distinct
<1>3. lists \in Seq(Seq(S) \ {<<>>})
  <2>1. \A i \in DOMAIN list : <<list[i]>> \in Seq(S) \ {<<>>}
    BY <1>0
  <2>2. lists \in [1 .. Len(list) -> Seq(S) \ {<<>>}]
    BY <2>1, <1>0 DEF Singles
  <2> QED BY <2>2, <1>0, SeqDef
<1> HIDE DEF lists
<1>4. \A i \in DOMAIN list : Members(lists[i]) = {list[i]} /\ Distinct(lists[i])
  BY <1>1, <1>2
<1>5. Apart(lists)
  <2>1. \A i, j \in DOMAIN list : i # j => {list[i]} \cap {list[j]} = {}
    BY DEF Distinct
  <2> QED BY <2>1, <1>1, <1>4 DEF Apart
<1>6. AllOf(lists) = Members(list)
  <2>1. \A x : x \in AllOf(lists) <=> \E i \in DOMAIN list : x \in Members(lists[i])
    BY <1>1 DEF AllOf
  <2>2. \A x : x \in Members(list) <=> \E i \in DOMAIN list : x = list[i]
    BY DEF Members
  <2>3. ASSUME NEW x PROVE x \in AllOf(lists) <=> x \in Members(list)
    <3>1. \A i \in DOMAIN list : x \in Members(lists[i]) <=> x = list[i]
      BY <1>4
    <3> QED BY <3>1, <2>1, <2>2
  <2> QED BY <2>3
<1> QED BY <1>3, <1>5, <1>6 DEF lists

(* A list of one list, and of none.                                        *)
LEMMA ApartOne ==
  ASSUME NEW list, Distinct(list)
  PROVE  /\ Apart(<<list>>) /\ AllOf(<<list>>) = Members(list)
         /\ Apart(<<>>) /\ AllOf(<<>>) = {}
<1>1. DOMAIN <<list>> = {1} /\ <<list>>[1] = list /\ DOMAIN <<>> = {}
  OBVIOUS
<1> QED BY <1>1 DEF Apart, AllOf

-----------------------------------------------------------------------------
(* The reports of the driver.                                              *)

(* What is reported of a call that selects none, one or two result sets.   *)
LEMMA CallReports ==
  ASSUME NEW task \in Task, NEW x \in {"ok", "wrong", "garbled", "error"}
  PROVE  LET of(kinds) == [k \in DOMAIN kinds |-> [task |-> task, kind |-> kinds[k]]]
         IN /\ of(<<>>) = <<>>
            /\ of(<<x>>) = <<[task |-> task, kind |-> x]>>
            /\ of(<<x, x>>) = <<[task |-> task, kind |-> x], [task |-> task, kind |-> x]>>
            /\ [task |-> task, kind |-> x] \in Report
<1>1. [task |-> task, kind |-> x] \in Report
  BY DEF Report
<1>2. [k \in DOMAIN <<>> |-> [task |-> task, kind |-> <<>>[k]]] = <<>>
  OBVIOUS
<1>3. [k \in DOMAIN <<x>> |-> [task |-> task, kind |-> <<x>>[k]]] = <<[task |-> task, kind |-> x]>>
  OBVIOUS
<1>4. [k \in DOMAIN <<x, x>> |-> [task |-> task, kind |-> <<x, x>>[k]]]
      = <<[task |-> task, kind |-> x], [task |-> task, kind |-> x]>>
  OBVIOUS
<1> QED BY <1>1, <1>2, <1>3, <1>4

(* What each behaviour of a call makes the driver report.                  *)
LEMMA KindsValues ==
  /\ Kinds["good"] = <<"ok">> /\ Kinds["missing"] = <<>> /\ Kinds["extra"] = <<"ok", "ok">>
  /\ Kinds["wrong"] = <<"wrong">> /\ Kinds["garbled"] = <<"garbled">> /\ Kinds["raises"] = <<"error">>
BY DEF Kinds


Labelled(task, kinds) == [k \in DOMAIN kinds |-> [task |-> task, kind |-> kinds[k]]]

Silent(text, counted) == text \notin WithResults /\ ~counted

(* How many reports there are of one call, and of which kind.              *)
ReportsOfCall(task, text, b, counted, reports) ==
  /\ reports \in Seq(Report)
  /\ b = "missing" \/ (b = "good" /\ Silent(text, counted)) => reports = <<>>
  /\ b = "extra" => Len(reports) = 2
  /\ b \in {"wrong", "garbled", "raises"} \/ (b = "good" /\ ~Silent(text, counted)) =>
       Len(reports) = 1 /\ reports[1] = [task |-> task, kind |-> Kinds[b][1]]

(* The reports of one call are as many and as ReportsOfCall says.          *)
LEMMA OneCall ==
  ASSUME NEW task \in Task, NEW text, NEW b \in AllBehaviours, NEW counted \in BOOLEAN
  PROVE  ReportsOfCall(task, text, b, counted, Labelled(task, Reported(text, b, counted)))
<1> DEFINE of(kinds) == Labelled(task, kinds)
           silent == text \notin WithResults /\ ~counted
           kinds == Reported(text, b, counted)
           Goal(reports) ==
             /\ reports \in Seq(Report)
             /\ b = "missing" \/ (b = "good" /\ silent) => reports = <<>>
             /\ b = "extra" => Len(reports) = 2
             /\ b \in {"wrong", "garbled", "raises"} \/ (b = "good" /\ ~silent) =>
                  Len(reports) = 1 /\ reports[1] = [task |-> task, kind |-> Kinds[b][1]]
<1>0. SUFFICES Goal(of(kinds))
  BY DEF ReportsOfCall, Silent
<1>1. \A x \in {"ok", "wrong", "garbled", "error"} :
        /\ of(<<>>) = <<>>
        /\ of(<<x>>) = <<[task |-> task, kind |-> x]>>
        /\ of(<<x, x>>) = <<[task |-> task, kind |-> x], [task |-> task, kind |-> x]>>
        /\ [task |-> task, kind |-> x] \in Report
  BY CallReports DEF Labelled
<1> HIDE DEF of
<1>2. CASE b = "good" /\ silent
  <2>1. kinds = <<>>
    BY <1>2 DEF Reported
  <2> HIDE DEF kinds
  <2>2. of(kinds) = <<>>
    BY <2>1, <1>1
  <2>3. Goal(of(kinds))
    BY <2>2, <1>2
  <2> QED BY <2>3 DEF of, kinds
<1>3. CASE ~(b = "good" /\ silent)
  <2>1. kinds = Kinds[b]
    BY <1>3 DEF Reported
  <2> HIDE DEF kinds
  <2>2. ASSUME NEW x \in {"ok", "wrong", "garbled", "error"}, Kinds[b] = <<x>>, b # "missing", b # "extra"
        PROVE  Goal(of(kinds))
    <3>1. of(kinds) = <<[task |-> task, kind |-> x]>> /\ [task |-> task, kind |-> x] \in Report /\ Kinds[b][1] = x
      BY <2>1, <2>2, <1>1
    <3>2. /\ of(kinds) \in Seq(Report) /\ Len(of(kinds)) = 1
          /\ of(kinds)[1] = [task |-> task, kind |-> Kinds[b][1]]
      BY <3>1
    <3> QED BY <3>2, <2>2, <1>3
  <2>3. CASE b = "missing"
    <3>1. of(kinds) = <<>>
      BY <2>1, <2>3, <1>1, KindsValues
    <3> QED BY <3>1, <2>3 DEF of, kinds
  <2>4. CASE b = "extra"
    <3>1. /\ of(kinds) = <<[task |-> task, kind |-> "ok"], [task |-> task, kind |-> "ok"]>>
          /\ [task |-> task, kind |-> "ok"] \in Report
      BY <2>1, <2>4, <1>1, KindsValues
    <3>2. of(kinds) \in Seq(Report) /\ Len(of(kinds)) = 2
      BY <3>1
    <3> QED BY <3>2, <2>4 DEF of, kinds
  <2>5. CASE b \in {"good", "wrong", "garbled", "raises"}
    <3>1. \E x \in {"ok", "wrong", "garbled", "error"} : Kinds[b] = <<x>>
      BY <2>5, KindsValues
    <3>2. Goal(of(kinds))
      <4>1. b # "missing" /\ b # "extra"
        BY <2>5
      <4> HIDE DEF Goal
      <4> QED BY <2>2, <3>1, <4>1
    <3> QED BY <3>2 DEF of, kinds
  <2> QED BY <2>3, <2>4, <2>5 DEF AllBehaviours
<1> QED BY <1>2, <1>3

(* The reports of the calls of a list: what ReportsOf says.                *)
LEMMA ListReports ==
  ASSUME NEW list \in Seq(Task), list # <<>>, NEW counted \in BOOLEAN,
         NEW behaviours \in [DOMAIN list -> Possible(TextOf[list[1]])],
         \A i \in DOMAIN list : TextOf[list[i]] = TextOf[list[1]],
         TextOf[list[1]] \in WithResults => ~counted
  PROVE  ReportsOf(list, behaviours, Reports(list, behaviours, counted))
<1> DEFINE text   == TextOf[list[1]]
           lists  == [i \in DOMAIN list |-> Labelled(list[i], Reported(TextOf[list[i]], behaviours[i], counted))]
<1>0. Len(list) \in Nat /\ Len(list) # 0 /\ DOMAIN list = 1 .. Len(list) /\ DOMAIN behaviours = 1 .. Len(list)
  BY EmptySeq
<1>1. ASSUME NEW i \in 1 .. Len(list)
      PROVE  /\ behaviours[i] \in AllBehaviours /\ behaviours[i] \in Possible(text)
             /\ ReportsOfCall(list[i], text, behaviours[i], counted, lists[i])
             /\ lists[i] \in Seq(Report)
  <2>1. behaviours[i] \in AllBehaviours /\ behaviours[i] \in Possible(text) /\ list[i] \in Task
    BY <1>0, BehavioursAssumption DEF Possible
  <2>2. lists[i] = Labelled(list[i], Reported(text, behaviours[i], counted))
    BY <1>0
  <2> HIDE DEF lists, text
  <2>3. ReportsOfCall(list[i], text, behaviours[i], counted, lists[i])
    BY <2>1, <2>2, OneCall
  <2> QED BY <2>1, <2>3 DEF ReportsOfCall
<1>2. lists \in Seq(Seq(Report)) /\ Len(lists) = Len(list)
  <2>1. DOMAIN lists = 1 .. Len(list)
    BY <1>0
  <2> HIDE DEF lists
  <2>2. lists \in [1 .. Len(list) -> Seq(Report)]
    <3>1. lists = [i \in 1 .. Len(list) |-> lists[i]]
      BY <1>0 DEF lists
    <3> QED BY <3>1, <1>1
  <2>3. lists \in Seq(Seq(Report))
    BY <2>2, <1>0, SeqDef
  <2> QED BY <2>1, <2>3, <1>0, LenProperties
<1>3. Reports(list, behaviours, counted) = FlattenSeq(lists)
  BY DEF Reports, Labelled
<1> HIDE DEF lists, text
<1>4. PICK g \in [0 .. Len(list) -> Seq(Report)] :
        /\ g[0] = <<>>
        /\ \A i \in 1 .. Len(list) : g[i] = g[i - 1] \o lists[i]
        /\ FlattenSeq(lists) = g[Len(list)]
  <2>1. \E g \in [0 .. Len(lists) -> Seq(Report)] :
        /\ g[0] = <<>>
        /\ \A i \in 1 .. Len(lists) : g[i] = g[i - 1] \o lists[i]
        /\ FlattenSeq(lists) = g[Len(lists)]
    BY <1>2, FlattenSteps, Zenon
  <2> QED BY <2>1, <1>2, Zenon
<1>5. ASSUME NEW n \in 0 .. Len(list) - 1
      PROVE  LET r == g[n]  s == g[n + 1]  l == lists[n + 1]
             IN /\ n + 1 \in 1 .. Len(list) /\ l \in Seq(Report)
                /\ r \in Seq(Report) /\ s \in Seq(Report)
                /\ Len(s) = Len(r) + Len(l)
                /\ \A j \in DOMAIN s : s[j] = IF j <= Len(r) THEN r[j] ELSE l[j - Len(r)]
                /\ \A i : i \in 1 .. n + 1 <=> i \in 1 .. n \/ i = n + 1
  <2>1. n + 1 \in 1 .. Len(list) /\ (n + 1) - 1 = n /\ n \in 0 .. Len(list)
    BY <1>0
  <2>2. g[n + 1] = g[(n + 1) - 1] \o lists[n + 1]
    BY <2>1, <1>4, Zenon
  <2>3. g[n + 1] = g[n] \o lists[n + 1]
    BY <2>1, <2>2, Zenon
  <2>4. g[n] \in Seq(Report) /\ lists[n + 1] \in Seq(Report)
    BY <2>1, <1>1
  <2>5. /\ g[n] \o lists[n + 1] \in Seq(Report)
        /\ Len(g[n] \o lists[n + 1]) = Len(g[n]) + Len(lists[n + 1])
        /\ \A j \in 1 .. Len(g[n]) + Len(lists[n + 1]) :
             (g[n] \o lists[n + 1])[j] = IF j <= Len(g[n]) THEN g[n][j] ELSE lists[n + 1][j - Len(g[n])]
    BY <2>4, ConcatProperties
  <2>6. DOMAIN g[n + 1] = 1 .. Len(g[n]) + Len(lists[n + 1])
    BY <2>3, <2>5, LenProperties
  <2>7. \A i : i \in 1 .. n + 1 <=> i \in 1 .. n \/ i = n + 1
    BY <1>0
  <2> QED BY <2>1, <2>3, <2>4, <2>5, <2>6, <2>7, Zenon
<1> DEFINE No(b, n) == \A i \in 1 .. n : behaviours[i] # b
           silent == Silent(text, counted)
           A(n) == No("missing", n) /\ No("extra", n) /\ ~silent =>
                     /\ Len(g[n]) = n
                     /\ \A i \in 1 .. n : g[n][i] = [task |-> list[i], kind |-> Kinds[behaviours[i]][1]]
           B(n) == No("extra", n) /\ ~silent => Len(g[n]) <= n /\ (~No("missing", n) => Len(g[n]) < n)
           C(n) == No("missing", n) /\ ~silent => Len(g[n]) >= n /\ (~No("extra", n) => Len(g[n]) > n)
           D(n) == ~No("raises", n) => \E j \in DOMAIN g[n] : g[n][j].kind = "error"
           E(n) == silent => /\ \A j \in DOMAIN g[n] : g[n][j].kind \in {"wrong", "error"}
                             /\ g[n] = <<>> <=> \A i \in 1 .. n : behaviours[i] = "good"
           T == { n \in 0 .. Len(list) : A(n) /\ B(n) /\ C(n) /\ D(n) /\ E(n) }
<1>6. 0 \in T
  <2>1. 1 .. 0 = {} /\ 0 \in 0 .. Len(list) /\ g[0] = <<>> /\ Len(<<>>) = 0 /\ DOMAIN <<>> = {}
    BY <1>0, <1>4
  <2>2. A(0) /\ B(0)
    BY <2>1
  <2>3. C(0) /\ D(0) /\ E(0)
    BY <2>1
  <2> HIDE DEF A, B, C, D, E
  <2> QED BY <2>1, <2>2, <2>3
<1>7. ASSUME NEW n, n \in 0 .. Len(list) - 1, n \in T PROVE n + 1 \in T
  <2> DEFINE r == g[n]
             s == g[n + 1]
             l == lists[n + 1]
             b == behaviours[n + 1]
  <2>0. n \in Nat /\ n \in 0 .. Len(list) - 1 /\ A(n) /\ B(n) /\ C(n) /\ D(n) /\ E(n)
    BY <1>7
  <2>1. /\ n + 1 \in 1 .. Len(list) /\ l \in Seq(Report)
        /\ r \in Seq(Report) /\ s \in Seq(Report)
        /\ Len(s) = Len(r) + Len(l)
        /\ \A j \in DOMAIN s : s[j] = IF j <= Len(r) THEN r[j] ELSE l[j - Len(r)]
        /\ \A i : i \in 1 .. n + 1 <=> i \in 1 .. n \/ i = n + 1
    BY <1>5, <2>0
  <2>2. \A x : No(x, n + 1) <=> No(x, n) /\ b # x
    BY <2>1
  <2>3. /\ b \in AllBehaviours /\ b \in Possible(text)
        /\ b = "missing" \/ (b = "good" /\ silent) => l = <<>>
        /\ b = "extra" => Len(l) = 2
        /\ b \in {"wrong", "garbled", "raises"} \/ (b = "good" /\ ~silent) =>
             Len(l) = 1 /\ l[1] = [task |-> list[n + 1], kind |-> Kinds[b][1]]
    BY <2>1, <1>1 DEF ReportsOfCall
  <2>4. Len(r) \in Nat /\ Len(l) \in Nat /\ DOMAIN s = 1 .. Len(r) + Len(l) /\ DOMAIN r = 1 .. Len(r) /\ Len(<<>>) = 0
    BY <2>1, LenProperties
  <2>5. silent => b \in {"good", "wrong", "raises"}
    BY <2>3 DEF Silent, Possible
  <2>6. b = "raises" => Kinds[b][1] = "error"
    BY KindsValues
  <2>7. b = "wrong" => Kinds[b][1] = "wrong"
    BY KindsValues
  <2> HIDE DEF r, s, l, b, No, silent
  <2>8. ~silent /\ b # "missing" /\ b # "extra" =>
          Len(l) = 1 /\ l[1] = [task |-> list[n + 1], kind |-> Kinds[b][1]]
    BY <2>3 DEF AllBehaviours
  <2>9. A(n + 1)
    <3> SUFFICES ASSUME No("missing", n + 1), No("extra", n + 1), ~silent
                 PROVE  /\ Len(s) = n + 1
                        /\ \A i \in 1 .. n + 1 : s[i] = [task |-> list[i], kind |-> Kinds[behaviours[i]][1]]
      BY DEF s
    <3>1. Len(r) = n /\ \A i \in 1 .. n : r[i] = [task |-> list[i], kind |-> Kinds[behaviours[i]][1]]
      BY <2>0, <2>2 DEF r
    <3>2. Len(l) = 1 /\ l[1] = [task |-> list[n + 1], kind |-> Kinds[behaviours[n + 1]][1]]
      BY <2>2, <2>8 DEF b
    <3>3. ASSUME NEW i \in 1 .. n + 1 PROVE s[i] = [task |-> list[i], kind |-> Kinds[behaviours[i]][1]]
      <4>0. i \in DOMAIN s
        BY <3>1, <3>2, <2>0, <2>4
      <4>1. CASE i \in 1 .. n
        <5>1. s[i] = r[i]
          BY <4>0, <4>1, <3>1, <2>0, <2>1
        <5> QED BY <5>1, <4>1, <3>1
      <4>2. CASE i = n + 1
        <5>1. i - Len(r) = 1 /\ ~(i <= Len(r))
          BY <4>2, <3>1, <2>0
        <5>2. s[i] = l[1]
          BY <4>0, <5>1, <2>1
        <5> QED BY <5>2, <4>2, <3>2
      <4> QED BY <4>1, <4>2, <2>1
    <3> QED BY <3>1, <3>2, <3>3, <2>0, <2>1
  <2> DEFINE lr == Len(r)
             ll == Len(l)
             ls == Len(s)
  <2>a. lr \in Int /\ ll \in Int /\ ls = lr + ll
    BY <2>1, <2>4
  <2>10. B(n + 1)
    <3> SUFFICES ASSUME No("extra", n + 1), ~silent
                 PROVE  ls <= n + 1 /\ (~No("missing", n + 1) => ls < n + 1)
      BY DEF s
    <3>1. lr <= n /\ (~No("missing", n) => lr < n)
      BY <2>0, <2>2 DEF r
    <3>2. b # "extra" /\ (~No("missing", n + 1) => ~No("missing", n) \/ b = "missing")
      BY <2>2
    <3>3. b = "missing" => ll = 0
      BY <2>3, <2>4
    <3>4. b # "missing" => ll = 1
      BY <2>8, <3>2
    <3> HIDE DEF lr, ll, ls
    <3> QED BY <3>1, <3>2, <3>3, <3>4, <2>0, <2>a
  <2>11. C(n + 1)
    <3> SUFFICES ASSUME No("missing", n + 1), ~silent
                 PROVE  ls >= n + 1 /\ (~No("extra", n + 1) => ls > n + 1)
      BY DEF s
    <3>1. lr >= n /\ (~No("extra", n) => lr > n)
      BY <2>0, <2>2 DEF r
    <3>2. b # "missing" /\ (~No("extra", n + 1) => ~No("extra", n) \/ b = "extra")
      BY <2>2
    <3>3. b = "extra" => ll = 2
      BY <2>3
    <3>4. b # "extra" => ll = 1
      BY <2>8, <3>2
    <3> HIDE DEF lr, ll, ls
    <3> QED BY <3>1, <3>2, <3>3, <3>4, <2>0, <2>a
  <2>12. D(n + 1)
    <3> SUFFICES ASSUME ~No("raises", n + 1) PROVE \E j \in DOMAIN s : s[j].kind = "error"
      BY DEF s
    <3>1. CASE ~No("raises", n)
      <4>1. PICK j \in DOMAIN r : r[j].kind = "error"
        BY <3>1, <2>0 DEF r
      <4>2. j \in DOMAIN s /\ s[j] = r[j]
        BY <4>1, <2>1, <2>4
      <4> QED BY <4>1, <4>2
    <3>2. CASE b = "raises"
      <4>1. Len(l) = 1 /\ l[1].kind = "error"
        BY <3>2, <2>3, <2>6
      <4>2. Len(r) + 1 \in DOMAIN s /\ s[Len(r) + 1] = l[1]
        <5>1. (Len(r) + 1) - Len(r) = 1 /\ ~(Len(r) + 1 <= Len(r)) /\ Len(r) + 1 \in DOMAIN s
          BY <4>1, <2>4
        <5> QED BY <5>1, <2>1
      <4> QED BY <4>1, <4>2
    <3> QED BY <3>1, <3>2, <2>2
  <2>13. E(n + 1)
    <3> SUFFICES ASSUME silent
                 PROVE  /\ \A j \in DOMAIN s : s[j].kind \in {"wrong", "error"}
                        /\ s = <<>> <=> \A i \in 1 .. n + 1 : behaviours[i] = "good"
      BY DEF s
    <3>1. /\ \A j \in DOMAIN r : r[j].kind \in {"wrong", "error"}
          /\ r = <<>> <=> \A i \in 1 .. n : behaviours[i] = "good"
      BY <2>0 DEF r
    <3>2. b = "good" => Len(l) = 0
      BY <2>3, <2>4
    <3>3. b # "good" => Len(l) = 1 /\ l[1].kind \in {"wrong", "error"}
      BY <2>3, <2>5, <2>6, <2>7
    <3>4. s = <<>> <=> r = <<>> /\ Len(l) = 0
      BY <2>1, <2>4, EmptySeq
    <3>5. (\A i \in 1 .. n + 1 : behaviours[i] = "good") <=> (\A i \in 1 .. n : behaviours[i] = "good") /\ b = "good"
      BY <2>1 DEF b
    <3>6. ASSUME NEW j \in DOMAIN s PROVE s[j].kind \in {"wrong", "error"}
      <4>1. CASE j <= Len(r)
        <5>1. j \in DOMAIN r /\ s[j] = r[j]
          BY <4>1, <2>1, <2>4
        <5> QED BY <5>1, <3>1
      <4>2. CASE ~(j <= Len(r))
        <5>0. ll = 0 \/ ll = 1
          BY <3>2, <3>3
        <5>1. ll = 1 /\ j = lr + 1
          <6>1. j \in 1 .. lr + ll /\ ~(j <= lr)
            BY <2>4, <4>2
          <6> HIDE DEF lr, ll
          <6> QED BY <6>1, <5>0, <2>a
        <5>2. j - Len(r) = 1
          BY <5>1, <2>4
        <5>3. s[j] = l[1]
          BY <5>2, <4>2, <2>1
        <5> QED BY <5>1, <5>3, <3>2, <3>3
      <4> QED BY <4>1, <4>2
    <3> QED BY <3>1, <3>2, <3>3, <3>4, <3>5, <3>6
  <2>14. n + 1 \in 0 .. Len(list)
    BY <2>0, <2>1
  <2> HIDE DEF A, B, C, D, E
  <2> QED BY <2>9, <2>10, <2>11, <2>12, <2>13, <2>14
<1>8. Len(list) \in T
  <2>1. 0 .. Len(list) \subseteq T
    <3> HIDE DEF T
    <3> QED BY <1>0, <1>6, <1>7, UpToInduction
  <2>2. Len(list) \in 0 .. Len(list)
    BY <1>0
  <2> HIDE DEF T
  <2> QED BY <2>1, <2>2
<1> DEFINE m == Len(list)
<1>9. A(m) /\ B(m) /\ C(m) /\ D(m) /\ E(m)
  <2> HIDE DEF A, B, C, D, E
  <2> QED BY <1>8
<1>10. \A x : Occurs(x, behaviours) <=> ~No(x, m)
  BY <1>0 DEF Occurs
<1>11. text \notin WithResults => No("missing", m) /\ No("extra", m)
  BY <1>1 DEF Possible
<1>12. text \in WithResults => ~silent
  BY DEF Silent
<1>13. g[m] \in Seq(Report)
  BY <1>0
<1>14. Reports(list, behaviours, counted) = g[m]
  BY <1>3, <1>4
<1>15. No("missing", m) /\ No("extra", m) /\ ~silent => Matched(list, behaviours, g[m])
  BY <1>9 DEF Matched
<1>16. text \in WithResults =>
         /\ ~No("missing", m) /\ No("extra", m) => Len(g[m]) < Len(list)
         /\ No("missing", m) /\ ~No("extra", m) => Len(g[m]) > Len(list)
  BY <1>9, <1>12
<1>17. silent => /\ \A j \in DOMAIN g[m] : g[m][j].kind \in {"wrong", "error"}
                 /\ g[m] = <<>> => \A i \in DOMAIN behaviours : behaviours[i] = "good"
                 /\ g[m] # <<>> => \E i \in DOMAIN behaviours : behaviours[i] # "good"
  BY <1>0, <1>9
<1>18. ~No("raises", m) => \E j \in DOMAIN g[m] : g[m][j].kind = "error"
  BY <1>9
<1> HIDE DEF A, B, C, D, E, No, silent, m
<1> QED BY <1>10, <1>11, <1>12, <1>13, <1>14, <1>15, <1>16, <1>17, <1>18 DEF ReportsOf, text


-----------------------------------------------------------------------------
(* The invariant of a list.                                                *)

listVars == <<sub_list, calls, stream, CurrentResultSet, result, first_failed_task>>

(* Before anything is executed there is no list.                           *)
LEMMA ListInit == ExecutionInit => ListInv
<1> SUFFICES ASSUME ExecutionInit PROVE ListInv
  OBVIOUS
<1>1. <<>> \in Seq(Task) /\ <<>> \in Seq(Behaviours) /\ <<>> \in Seq(Report)
  OBVIOUS
<1>2. ExecutionTypeOK
  BY <1>1 DEF ExecutionInit, ExecutionTypeOK, StatementStates, Results
<1>3. NoListInv /\ CallsInv /\ ProgressInv /\ ResultInv
  BY DEF ExecutionInit, NoListInv, CallsInv, ProgressInv, ResultInv
<1> QED BY <1>2, <1>3 DEF ListInv

(* What does not touch the list preserves its invariant.                   *)
LEMMA ListUnchanged ==
  ASSUME ListInv, ExecutionTypeOK', UNCHANGED listVars
  PROVE  ListInv'
<1>1. NoListInv'
  BY DEF ListInv, NoListInv, listVars
<1>2. CallsInv'
  BY DEF ListInv, CallsInv, listVars
<1>3. ProgressInv'
  BY DEF ListInv, ProgressInv, listVars, At
<1>4. ResultInv'
  BY DEF ListInv, ResultInv, listVars, Faulty, Some_Call
<1> QED BY <1>1, <1>2, <1>3, <1>4 DEF ListInv

(* So does what forgets it.                                                *)
LEMMA ListForgotten ==
  ASSUME ExecutionTypeOK', Forget_List
  PROVE  ListInv'
<1>1. NoListInv' /\ CallsInv' /\ ProgressInv'
  BY DEF Forget_List, NoListInv, CallsInv, ProgressInv
<1>2. ResultInv'
  BY DEF Forget_List, ResultInv
<1> QED BY <1>1, <1>2 DEF ListInv

(* A task that is blamed is one of the list: the only one, or that of the  *)
(* row.                                                                    *)
LEMMA BlamedInList ==
  ASSUME NEW list \in Seq(Task), list # <<>>, NEW row \in Int
  PROVE  /\ Blamed(list, row) \in Nat
         /\ Blamed(list, row) # 0 => Blamed(list, row) \in DOMAIN list
         /\ Blamed(list, row) # 0 => Blamed(list, row) = row + 1 \/ (Len(list) = 1 /\ Blamed(list, row) = 1)
         /\ Blamed(list, UNKNOWN_ROW) # 0 => Len(list) = 1 /\ Blamed(list, UNKNOWN_ROW) = 1
<1> DEFINE n == Len(list)
<1>1. n \in Nat /\ n # 0 /\ DOMAIN list = 1 .. n
  BY EmptySeq
<1> HIDE DEF n
<1>2. Blamed(list, row) = IF n = 1 THEN 1 ELSE IF row \in 0 .. n - 1 THEN row + 1 ELSE 0
  BY DEF Blamed, n
<1>3. Blamed(list, -1) = IF n = 1 THEN 1 ELSE IF -1 \in 0 .. n - 1 THEN -1 + 1 ELSE 0
  BY DEF Blamed, n
<1>4. Blamed(list, -1) # 0 => n = 1 /\ Blamed(list, -1) = 1
  BY <1>1, <1>3
<1>5. /\ Blamed(list, row) \in Nat
      /\ Blamed(list, row) # 0 => Blamed(list, row) \in 1 .. n
      /\ Blamed(list, row) # 0 => Blamed(list, row) = row + 1 \/ (n = 1 /\ Blamed(list, row) = 1)
  BY <1>1, <1>2
<1> QED BY <1>1, <1>4, <1>5 DEF UNKNOWN_ROW, n

(* A report that is not in order is that of a faulty call: of the one in   *)
(* its place when every call is reported of once.                          *)
LEMMA BadReport ==
  ASSUME NEW list \in Seq(Task), NEW behaviours \in Seq(Behaviours), NEW reports,
         Len(behaviours) = Len(list), ReportsOf(list, behaviours, reports),
         ~Occurs("missing", behaviours), ~Occurs("extra", behaviours),
         NEW j \in DOMAIN reports, reports[j].kind # "ok"
  PROVE  \/ /\ Matched(list, behaviours, reports) /\ j \in DOMAIN behaviours
            /\ behaviours[j] # "good"
         \/ /\ TextOf[list[1]] \notin WithResults
            /\ \A k \in DOMAIN reports : reports[k].kind \in {"wrong", "error"}
            /\ \E i \in DOMAIN behaviours : behaviours[i] # "good"
<1>1. reports \in Seq(Report) /\ reports # <<>>
  <2>1. DOMAIN <<>> = {}
    OBVIOUS
  <2> QED BY <2>1 DEF ReportsOf
<1>2. CASE Matched(list, behaviours, reports)
  <2>1. DOMAIN reports = 1 .. Len(list) /\ DOMAIN behaviours = 1 .. Len(list)
    BY <1>1, <1>2, LenProperties DEF Matched
  <2>2. reports[j].kind = Kinds[behaviours[j]][1]
    BY <2>1, <1>2 DEF Matched
  <2>3. Kinds["good"][1] = "ok"
    BY KindsValues
  <2> QED BY <2>1, <2>2, <2>3, <1>2
<1>3. CASE ~Matched(list, behaviours, reports)
  BY <1>1, <1>3 DEF ReportsOf
<1> QED BY <1>2, <1>3

(* The result of a list that has failed.                                   *)
LEMMA ErrorResult ==
  ASSUME ExecutionTypeOK, sub_list # <<>>, NEW row \in Int,
         Extract_Batch_Error(sub_list, row), calls' = calls, sub_list' = sub_list,
         \E i \in DOMAIN calls : Faulty(i),
         Blamed(sub_list, row) # 0 =>
           Faulty(Blamed(sub_list, row)) \/ Some_Call("missing") \/ Some_Call("extra")
  PROVE  /\ ResultInv'
         /\ result' \in {"FAILED_SPECIFIC_TASK", "FAILED_UNKNOWN_TASK"}
         /\ first_failed_task' \in Nat
<1>1. sub_list \in Seq(Task)
  BY DEF ExecutionTypeOK
<1>2. Blamed(sub_list, row) \in Nat /\ (Blamed(sub_list, row) # 0 => Blamed(sub_list, row) \in DOMAIN sub_list)
  BY <1>1, BlamedInList
<1>3. /\ first_failed_task' = Blamed(sub_list, row)
      /\ result' = IF Blamed(sub_list, row) = 0 THEN "FAILED_UNKNOWN_TASK" ELSE "FAILED_SPECIFIC_TASK"
  BY DEF Extract_Batch_Error
<1>4. \E i \in DOMAIN calls' : Faulty(i)'
  BY DEF Faulty
<1>5. Blamed(sub_list, row) # 0 => \/ calls'[Blamed(sub_list, row)] # "good"
                                   \/ Some_Call("missing")' \/ Some_Call("extra")'
  BY DEF Faulty, Some_Call
<1>6. ResultInv'
  <2>1. result' # "SUCCESS"
    BY <1>3
  <2>2. result' = "FAILED_SPECIFIC_TASK" =>
          /\ first_failed_task' \in DOMAIN sub_list'
          /\ Faulty(first_failed_task)' \/ Some_Call("missing")' \/ Some_Call("extra")'
    BY <1>2, <1>3, <1>5 DEF Faulty
  <2> QED BY <2>1, <2>2, <1>4 DEF ResultInv
<1> QED BY <1>2, <1>3, <1>6

(* A step that goes on fetching the results of a list.                     *)
LEMMA ListFetch ==
  ASSUME ListInv, Fetch_Results
  PROVE  ListInv'
<1> DEFINE n == Len(sub_list)
           m == Len(stream)
           c == CurrentResultSet
           unfaithful == Occurs("missing", calls) \/ Occurs("extra", calls)
           withResults == TextOf[sub_list[1]] \in WithResults
<1>1. /\ Executing /\ sub_list # <<>> /\ result = "none" /\ sub_list \in Seq(Task)
      /\ UNCHANGED <<connection, transaction, committed, sub_list, calls, stream, tried>>
  BY DEF ListInv, ExecutionTypeOK, Fetch_Results, More_Result_Sets, Bad_Result_Set, Finish_Result_Set,
         Fails, Executing
<1>2. /\ calls \in Seq(Behaviours) /\ stream \in Seq(Report) /\ ReportsOf(sub_list, calls, stream)
      /\ Len(calls) = n /\ TextOf[sub_list[1]] \in Text
  <2>1. sub_list[1] \in Task
    BY <1>1, EmptySeq
  <2> QED BY <2>1, <1>1, TextAssumption DEF ListInv, ExecutionTypeOK, CallsInv
<1>3. /\ n \in Nat /\ n # 0 /\ m \in Nat /\ c \in Nat /\ c <= n
      /\ stream = <<>> <=> m = 0
      /\ DOMAIN sub_list = 1 .. n /\ DOMAIN calls = 1 .. n /\ DOMAIN stream = 1 .. m
  BY <1>1, <1>2, EmptySeq DEF ListInv, ExecutionTypeOK, ProgressInv
<1>4. /\ \A k \in DOMAIN stream : k <= c => stream[k].kind = "ok"
      /\ \/ stream = <<>> /\ c = 0
         \/ c < m /\ stream[c + 1].kind # "error"
  BY <1>1 DEF ListInv, ProgressInv, At
<1>5. Matched(sub_list, calls, stream) => m = n
  BY DEF Matched
<1>6. withResults /\ ~unfaithful => m = n /\ Matched(sub_list, calls, stream)
  BY <1>2, <1>5 DEF ReportsOf
<1>7. ~withResults => /\ ~unfaithful
                      /\ \/ m = n /\ Matched(sub_list, calls, stream)
                         \/ \A j \in DOMAIN stream : stream[j].kind \in {"wrong", "error"}
  BY <1>2, <1>5 DEF ReportsOf
<1>8. unfaithful => \E i \in DOMAIN calls : Faulty(i)
  BY DEF Occurs, Faulty
<1>9. unfaithful <=> Some_Call("missing") \/ Some_Call("extra")
  BY DEF Occurs, Some_Call
<1>10. ASSUME NEW j \in DOMAIN stream, stream[j].kind # "ok", ~unfaithful
       PROVE  \/ j \in DOMAIN calls /\ Faulty(j) /\ m = n
              \/ /\ \A k \in DOMAIN stream : stream[k].kind \in {"wrong", "error"}
                 /\ \E i \in DOMAIN calls : Faulty(i)
  BY <1>1, <1>2, <1>5, <1>10, BadReport DEF Faulty
<1> HIDE DEF n, m, c, unfaithful, withResults
<1>11. ASSUME NEW row \in Int, Extract_Batch_Error(sub_list, row),
              connection' = connection, Statements' \in [Text -> StatementStates \cup {"none"}],
              CurrentResultSet' \in {c, c + 1}, CurrentResultSet' <= n,
              received' \in [Task -> SUBSET Task],
              CurrentResultSet' <= m \/ (c = 0 /\ CurrentResultSet' = 1 /\ stream = <<>> /\ ~withResults),
              CurrentResultSet' = c + 1 /\ c < m => stream[c + 1].kind = "ok",
              unfaithful \/ \E i \in DOMAIN calls : Faulty(i),
              Blamed(sub_list, row) # 0 => unfaithful \/ Faulty(Blamed(sub_list, row))
       PROVE  ListInv'
  <2>1. /\ ResultInv'
        /\ result' \in {"FAILED_SPECIFIC_TASK", "FAILED_UNKNOWN_TASK"}
        /\ first_failed_task' \in Nat
    <3>1. \E i \in DOMAIN calls : Faulty(i)
      BY <1>11, <1>8
    <3>2. Blamed(sub_list, row) # 0 =>
            Faulty(Blamed(sub_list, row)) \/ Some_Call("missing") \/ Some_Call("extra")
      BY <1>11, <1>9
    <3>3. ExecutionTypeOK
      BY DEF ListInv
    <3> QED BY <1>1, <1>11, <3>1, <3>2, <3>3, ErrorResult
  <2>2. ExecutionTypeOK'
    BY <1>1, <1>3, <1>11, <2>1 DEF ListInv, ExecutionTypeOK, Results
  <2>3. NoListInv' /\ CallsInv'
    BY <1>1 DEF ListInv, NoListInv, CallsInv
  <2>4. ProgressInv'
    <3>1. ASSUME NEW k \in DOMAIN stream, k <= CurrentResultSet' PROVE stream[k].kind = "ok"
      <4>1. k \in Int /\ k <= m /\ c \in Int /\ m \in Int
        BY <1>3
      <4>3. CurrentResultSet' = c \/ CurrentResultSet' = c + 1
        BY <1>11
      <4>2. k <= c \/ (k = c + 1 /\ CurrentResultSet' = c + 1 /\ c < m)
        BY <4>1, <4>3, <3>1
      <4> QED BY <4>2, <1>4, <1>11, <3>1
    <3>2. result' # "none"
      BY <2>1
    <3> QED BY <3>1, <3>2, <1>1, <1>11 DEF ProgressInv, n, m, withResults
  <2> QED BY <2>1, <2>2, <2>3, <2>4 DEF ListInv
<1>12. /\ Kinds["good"][1] = "ok"
       /\ \A i \in DOMAIN calls : calls[i] = "good" \/ Faulty(i)
  BY KindsValues DEF Faulty
<1>13. Statements \in [Text -> StatementStates \cup {"none"}] /\ received \in [Task -> SUBSET Task]
  BY DEF ListInv, ExecutionTypeOK
<1>14. Blamed(sub_list, UNKNOWN_ROW) # 0 => n = 1 /\ Blamed(sub_list, UNKNOWN_ROW) = 1
  BY <1>1, BlamedInList DEF n, UNKNOWN_ROW
<1>15. CASE More_Result_Sets
  <2>1. /\ c = n /\ Extract_Batch_Error(sub_list, UNKNOWN_ROW) /\ CurrentResultSet' = c /\ received' = received
        /\ Statements' = [Statements EXCEPT ![TextOf[sub_list[1]]] = "PROCESS_RESULTS"]
    BY <1>15 DEF More_Result_Sets, Fails, c, n
  <2>2. unfaithful
    <3> SUFFICES ASSUME ~unfaithful PROVE FALSE
      OBVIOUS
    <3>1. c < m
      BY <2>1, <1>3, <1>4
    <3>2. m # n
      BY <2>1, <3>1, <1>3
    <3>3. \A j \in DOMAIN stream : stream[j].kind \in {"wrong", "error"}
      BY <3>2, <1>6, <1>7
    <3>4. 1 \in DOMAIN stream /\ 1 <= c
      BY <2>1, <3>1, <1>3
    <3>5. stream[1].kind = "ok"
      BY <3>4, <1>4
    <3> QED BY <3>3, <3>4, <3>5
  <2>3. Statements' \in [Text -> StatementStates \cup {"none"}]
    BY <2>1, <1>13 DEF StatementStates
  <2>4. c <= m
    BY <2>1, <1>3, <1>4
  <2>5. c <= n /\ ~(c = c + 1)
    BY <1>3
  <2> QED BY <1>1, <1>11, <1>13, <2>1, <2>2, <2>3, <2>4, <2>5 DEF UNKNOWN_ROW
<1>16. CASE Bad_Result_Set
  <2>0. c < n
    BY <1>16 DEF Bad_Result_Set, c, n
  <2>1. ASSUME NEW row \in Int, Fails("RECOVERABLE_ERROR", row),
               unfaithful \/ \E i \in DOMAIN calls : Faulty(i),
               Blamed(sub_list, row) # 0 => unfaithful \/ Faulty(Blamed(sub_list, row))
        PROVE  ListInv'
    <3>1. /\ Extract_Batch_Error(sub_list, row) /\ CurrentResultSet' = c /\ received' = received
          /\ connection' = connection
          /\ Statements' = [Statements EXCEPT ![TextOf[sub_list[1]]] = "RECOVERABLE_ERROR"]
      BY <2>1 DEF Fails, c
    <3>2. Statements' \in [Text -> StatementStates \cup {"none"}]
      BY <3>1, <1>13 DEF StatementStates
    <3>3. c <= m
      BY <1>3, <1>4
    <3>4. c <= n /\ ~(c = c + 1)
      BY <1>3
    <3> QED BY <1>11, <1>13, <2>1, <3>1, <3>2, <3>3, <3>4
  <2>2. CASE stream = <<>> /\ withResults /\ Fails("RECOVERABLE_ERROR", UNKNOWN_ROW)
    <3>1. unfaithful
      BY <2>2, <1>3, <1>6
    <3> QED BY <2>1, <2>2, <3>1 DEF UNKNOWN_ROW
  <2>3. CASE stream # <<>> /\ stream[c + 1].kind = "wrong" /\ Fails("RECOVERABLE_ERROR", UNKNOWN_ROW)
    <3>1. c + 1 \in DOMAIN stream
      BY <2>3, <1>3, <1>4
    <3>2. unfaithful \/ \E i \in DOMAIN calls : Faulty(i)
      BY <2>3, <3>1, <1>10
    <3>3. Blamed(sub_list, UNKNOWN_ROW) # 0 => unfaithful \/ Faulty(Blamed(sub_list, UNKNOWN_ROW))
      <4> SUFFICES ASSUME Blamed(sub_list, UNKNOWN_ROW) # 0 PROVE unfaithful \/ Faulty(Blamed(sub_list, UNKNOWN_ROW))
        OBVIOUS
      <4>1. n = 1 /\ Blamed(sub_list, UNKNOWN_ROW) = 1
        BY <1>14
      <4>2. \A i \in DOMAIN calls : i = 1
        BY <4>1, <1>3
      <4> QED BY <4>1, <4>2, <3>2
    <3> QED BY <2>1, <2>3, <3>2, <3>3 DEF UNKNOWN_ROW
  <2>4. CASE stream # <<>> /\ stream[c + 1].kind = "garbled" /\ Fails("RECOVERABLE_ERROR", c)
    <3>1. c + 1 \in DOMAIN stream
      BY <2>4, <1>3, <1>4
    <3>2. unfaithful \/ (c + 1 \in DOMAIN calls /\ Faulty(c + 1))
      BY <2>4, <3>1, <1>10
    <3>3. Blamed(sub_list, c) # 0 => Blamed(sub_list, c) = c + 1
      <4>1. Blamed(sub_list, c) # 0 => Blamed(sub_list, c) = c + 1 \/ (n = 1 /\ Blamed(sub_list, c) = 1)
        <5>1. c \in Int
          BY <1>3
        <5> QED BY <5>1, <1>1, BlamedInList DEF n
      <4>2. n = 1 => c + 1 = 1
        BY <2>0, <1>3
      <4> QED BY <4>1, <4>2
    <3>4. c \in Int
      BY <1>3
    <3> QED BY <2>1, <2>4, <3>2, <3>3, <3>4
  <2>5. \/ stream = <<>> /\ withResults /\ Fails("RECOVERABLE_ERROR", UNKNOWN_ROW)
        \/ stream # <<>> /\ stream[c + 1].kind = "wrong" /\ Fails("RECOVERABLE_ERROR", UNKNOWN_ROW)
        \/ stream # <<>> /\ stream[c + 1].kind = "garbled" /\ Fails("RECOVERABLE_ERROR", c)
    BY <1>16 DEF Bad_Result_Set, At, c, withResults
  <2> QED BY <2>2, <2>3, <2>4, <2>5
<1>17. CASE Finish_Result_Set
  <2> DEFINE last == c + 1 >= m
             text == TextOf[sub_list[1]]
             inOrder(state) == Statements' = [Statements EXCEPT ![text] = state]
  <2>1. /\ c < n /\ c \in Int /\ m \in Int /\ n \in Int
        /\ stream = <<>> => ~withResults
        /\ stream # <<>> => stream[c + 1].kind = "ok"
        /\ CurrentResultSet' = c + 1
        /\ received' = IF withResults THEN [received EXCEPT ![sub_list[c + 1]] = @ \cup {stream[c + 1].task}]
                        ELSE received
    BY <1>3, <1>17 DEF Finish_Result_Set, At, c, n, m, withResults
  <2>2. \/ last /\ All_Sets_Are_In(text) /\ inOrder("READY") /\ result' = "SUCCESS" /\ UNCHANGED first_failed_task
        \/ last /\ ~All_Sets_Are_In(text) /\ inOrder("READY") /\ Extract_Batch_Error(sub_list, UNKNOWN_ROW)
        \/ ~last /\ stream[c + 2].kind = "error" /\ inOrder("RECOVERABLE_ERROR") /\ Extract_Batch_Error(sub_list, c + 1)
        \/ ~last /\ stream[c + 2].kind # "error" /\ UNCHANGED <<Statements, result, first_failed_task>>
    <3>1. (c + 1) + 1 = c + 2
      BY <2>1
    <3> QED BY <3>1, <1>17 DEF Finish_Result_Set, At, c, m
  <2>3. All_Sets_Are_In(text) <=> ~withResults \/ c + 1 = n
    BY DEF All_Sets_Are_In, At, c, n, withResults
  <2>4. /\ stream # <<>> => c + 1 \in DOMAIN stream /\ c < m
        /\ stream = <<>> => c = 0 /\ m = 0
    BY <1>3, <1>4
  <2>5. received' \in [Task -> SUBSET Task]
    <3>1. withResults => stream[c + 1].task \in Task
      <4>1. withResults => stream[c + 1] \in Report
        BY <2>1, <2>4, <1>2, <1>3, ElementOfSeq
      <4> QED BY <4>1 DEF Report
    <3> QED BY <3>1, <2>1, <1>13
  <2>6. CurrentResultSet' <= n /\ CurrentResultSet' \in {c, c + 1}
    BY <2>1
  <2>7. CurrentResultSet' <= m \/ (c = 0 /\ CurrentResultSet' = 1 /\ stream = <<>> /\ ~withResults)
    BY <2>1, <2>4
  <2>8. c < m => stream[c + 1].kind = "ok"
    BY <2>1, <2>4
  <2>9. CASE last /\ ~All_Sets_Are_In(text) /\ inOrder("READY") /\ Extract_Batch_Error(sub_list, UNKNOWN_ROW)
    <3>1. unfaithful
      BY <2>1, <2>3, <2>4, <2>9, <1>6
    <3>2. Statements' \in [Text -> StatementStates \cup {"none"}]
      BY <2>9, <1>13 DEF StatementStates
    <3> QED BY <1>1, <1>11, <2>5, <2>6, <2>7, <2>8, <2>9, <3>1, <3>2 DEF UNKNOWN_ROW
  <2>10. CASE ~last /\ stream[c + 2].kind = "error" /\ inOrder("RECOVERABLE_ERROR") /\ Extract_Batch_Error(sub_list, c + 1)
    <3>1. c + 1 \in DOMAIN stream /\ c + 2 \in DOMAIN stream /\ stream # <<>>
      BY <2>1, <2>10, <1>3
    <3>2. ~unfaithful => c + 2 \in DOMAIN calls /\ Faulty(c + 2) /\ m = n
      <4>1. stream[c + 1].kind \notin {"wrong", "error"}
        BY <3>1, <2>1
      <4> QED BY <4>1, <3>1, <2>10, <1>10
    <3>3. ~unfaithful /\ Blamed(sub_list, c + 1) # 0 => Blamed(sub_list, c + 1) = c + 2
      <4>1. c + 1 \in Int
        BY <2>1
      <4>2. Blamed(sub_list, c + 1) # 0 =>
              Blamed(sub_list, c + 1) = (c + 1) + 1 \/ (n = 1 /\ Blamed(sub_list, c + 1) = 1)
        BY <4>1, <1>1, BlamedInList DEF n
      <4>3. ~unfaithful => n # 1
        BY <3>1, <3>2, <2>1, <1>3
      <4> QED BY <4>2, <4>3, <2>1
    <3>4. Statements' \in [Text -> StatementStates \cup {"none"}]
      BY <2>10, <1>13 DEF StatementStates
    <3>5. c + 1 \in Int
      BY <2>1
    <3> QED BY <1>1, <1>11, <2>5, <2>6, <2>7, <2>8, <2>10, <3>2, <3>3, <3>4, <3>5
  <2>11. ASSUME Statements' \in [Text -> StatementStates \cup {"none"}],
                first_failed_task' = first_failed_task, result' \in {"none", "SUCCESS"},
                result' = "SUCCESS" => last /\ (~withResults \/ c + 1 = n),
                result' = "none" => ~last /\ stream[c + 2].kind # "error"
         PROVE  ListInv'
    <3>1. ExecutionTypeOK'
      <4>1. CurrentResultSet' \in Nat
        BY <2>1, <1>3
      <4> QED BY <4>1, <1>1, <2>5, <2>11 DEF ListInv, ExecutionTypeOK, Results
    <3>2. NoListInv' /\ CallsInv'
      BY <1>1 DEF ListInv, NoListInv, CallsInv
    <3>3. ResultInv'
      BY <2>1, <2>11, <1>1 DEF ResultInv, n, m, withResults
    <3>4. ProgressInv'
      <4>1. ASSUME NEW k \in DOMAIN stream, k <= CurrentResultSet' PROVE stream[k].kind = "ok"
        <5>1. k \in Int /\ k <= m
          BY <1>3
        <5>2. k <= c \/ (k = c + 1 /\ c < m)
          BY <4>1, <5>1, <2>1
        <5> QED BY <5>2, <1>4, <2>8
      <4>2. result' = "none" => c + 1 < m /\ stream[(c + 1) + 1].kind # "error"
        <5>1. (c + 1) + 1 = c + 2
          BY <2>1
        <5> QED BY <5>1, <2>1, <2>11
      <4> QED BY <4>1, <4>2, <1>1, <2>1, <2>6, <2>7 DEF ProgressInv, At, n, m, withResults
    <3> QED BY <3>1, <3>2, <3>3, <3>4 DEF ListInv
  <2>12. CASE last /\ All_Sets_Are_In(text) /\ inOrder("READY") /\ result' = "SUCCESS" /\ UNCHANGED first_failed_task
    <3>1. Statements' \in [Text -> StatementStates \cup {"none"}]
      BY <2>12, <1>13 DEF StatementStates
    <3> QED BY <3>1, <2>3, <2>11, <2>12
  <2>13. CASE ~last /\ stream[c + 2].kind # "error" /\ UNCHANGED <<Statements, result, first_failed_task>>
    BY <2>11, <2>13, <1>1, <1>13
  <2> QED BY <2>2, <2>9, <2>10, <2>12, <2>13
<1> QED BY <1>15, <1>16, <1>17 DEF Fetch_Results

(* A step that executes a list of tasks that share a text.                 *)
LEMMA ListExecute ==
  ASSUME ListInv, NEW list \in Seq(Task), Execute(list),
         \A i \in DOMAIN list : TextOf[list[i]] = TextOf[list[1]]
  PROVE  ListInv'
<1> DEFINE text == TextOf[list[1]]
           n == Len(list)
<1>1. /\ list # <<>> /\ sub_list' = list /\ sub_list = <<>> /\ CurrentResultSet' = 0
      /\ calls' \in [DOMAIN list -> Possible(text)]
      /\ tried' = tried \cup Members(list)
      /\ transaction' = transaction \cup { list[i] : i \in { j \in DOMAIN list : calls'[j] # "raises" } }
      /\ UNCHANGED <<connection, committed, received>>
  BY DEF Execute
<1>2. ReportsOf(list, calls', stream')
  <2>1. PICK counted \in BOOLEAN : (text \in WithResults => ~counted) /\ stream' = Reports(list, calls', counted)
    BY DEF Execute
  <2> QED BY <1>1, <2>1, ListReports
<1>3. /\ n \in Nat /\ n # 0 /\ DOMAIN list = 1 .. n /\ \A i \in 1 .. n : list[i] \in Task
  BY <1>1, EmptySeq
<1>4. calls' \in Seq(Behaviours) /\ Len(calls') = n /\ DOMAIN calls' = 1 .. n
  <2>1. calls' \in [1 .. n -> Behaviours]
    <3>1. \A i \in 1 .. n : calls'[i] \in Behaviours
      BY <1>1, <1>3 DEF Possible
    <3> QED BY <1>1, <1>3, <3>1
  <2>2. calls' \in Seq(Behaviours)
    BY <2>1, <1>3, SeqDef
  <2> QED BY <2>1, <2>2, <1>3, LenProperties
<1>5. result = "none" /\ first_failed_task = 0
  BY <1>1 DEF ListInv, NoListInv
<1> HIDE DEF n, text
<1>6. ASSUME NEW i \in DOMAIN list, calls'[i] = "raises", NEW row \in {UNKNOWN_ROW, i - 1},
             Extract_Batch_Error(list, row)
      PROVE  /\ ResultInv'
             /\ result' \in {"FAILED_SPECIFIC_TASK", "FAILED_UNKNOWN_TASK"}
             /\ first_failed_task' \in Nat
  <2>1. i \in 1 .. n /\ row \in Int
    BY <1>3 DEF UNKNOWN_ROW
  <2>2. /\ Blamed(list, row) \in Nat
        /\ Blamed(list, row) # 0 => Blamed(list, row) \in DOMAIN list
    BY <1>1, <2>1, BlamedInList
  <2>3. Blamed(list, row) # 0 => Blamed(list, row) = i
    <3>1. CASE row = UNKNOWN_ROW
      <4>1. Blamed(list, UNKNOWN_ROW) # 0 => n = 1 /\ Blamed(list, UNKNOWN_ROW) = 1
        BY <1>1, <2>1, BlamedInList DEF n
      <4>2. n = 1 => i = 1
        BY <2>1
      <4> QED BY <4>1, <4>2, <3>1
    <3>2. CASE row = i - 1
      <4>1. Blamed(list, row) # 0 => Blamed(list, row) = row + 1 \/ (n = 1 /\ Blamed(list, row) = 1)
        BY <1>1, <2>1, BlamedInList DEF n
      <4>2. row + 1 = i
        BY <2>1, <3>2
      <4>3. n = 1 => i = 1
        BY <2>1
      <4> QED BY <4>1, <4>2, <4>3
    <3> QED BY <3>1, <3>2, <1>6
  <2>4. /\ first_failed_task' = Blamed(list, row)
        /\ result' = IF Blamed(list, row) = 0 THEN "FAILED_UNKNOWN_TASK" ELSE "FAILED_SPECIFIC_TASK"
    BY <1>6 DEF Extract_Batch_Error
  <2>5. calls'[i] # "good" /\ i \in DOMAIN calls'
    BY <1>4, <1>6, <2>1
  <2>6. ResultInv'
    <3>1. result' # "SUCCESS"
      BY <2>4
    <3>2. result' = "FAILED_SPECIFIC_TASK" => first_failed_task' \in DOMAIN list /\ first_failed_task' = i
      BY <2>2, <2>3, <2>4
    <3> QED BY <3>1, <3>2, <2>5, <1>1 DEF ResultInv, Faulty
  <2> QED BY <2>2, <2>4, <2>6
<1>7. /\ ResultInv' /\ result' \in Results \cup {"none"} /\ first_failed_task' \in Nat
      /\ result' = "none" => ~(stream' # <<>> /\ stream'[1].kind = "error")
      /\ Statements' \in [Text -> StatementStates \cup {"none"}]
  <2>1. Statements \in [Text -> StatementStates \cup {"none"}]
    BY DEF ListInv, ExecutionTypeOK
  <2>2. CASE \E i \in DOMAIN list :
               /\ calls'[i] = "raises"
               /\ \A j \in 1 .. i - 1 : calls'[j] # "raises"
               /\ \E bad_row \in {UNKNOWN_ROW, i - 1} : Extract_Batch_Error(list, bad_row)
               /\ Statements' = [Statements EXCEPT ![text] = "RECOVERABLE_ERROR"]
    <3>1. PICK i \in DOMAIN list :
               /\ calls'[i] = "raises"
               /\ \E bad_row \in {UNKNOWN_ROW, i - 1} : Extract_Batch_Error(list, bad_row)
               /\ Statements' = [Statements EXCEPT ![text] = "RECOVERABLE_ERROR"]
      BY <2>2
    <3>2. PICK row \in {UNKNOWN_ROW, i - 1} : Extract_Batch_Error(list, row)
      BY <3>1
    <3>3. /\ ResultInv'
          /\ result' \in {"FAILED_SPECIFIC_TASK", "FAILED_UNKNOWN_TASK"}
          /\ first_failed_task' \in Nat
      BY <1>6, <3>1, <3>2
    <3>4. Statements' \in [Text -> StatementStates \cup {"none"}]
      BY <3>1, <2>1 DEF StatementStates
    <3> QED BY <3>3, <3>4 DEF Results
  <2>3. CASE /\ ~(stream' # <<>> /\ stream'[1].kind = "error")
             /\ Statements' = [Statements EXCEPT ![text] = "PROCESS_RESULTS"]
             /\ UNCHANGED <<result, first_failed_task>>
    <3>1. ResultInv'
      BY <2>3, <1>5 DEF ResultInv
    <3>2. Statements' \in [Text -> StatementStates \cup {"none"}]
      BY <2>3, <2>1 DEF StatementStates
    <3> QED BY <3>1, <3>2, <2>3, <1>5
  <2> QED BY <2>2, <2>3 DEF Execute, text
<1>8. ExecutionTypeOK'
  <2>1. tried' \in SUBSET Task /\ transaction' \in SUBSET Task
    BY <1>1, <1>3, MembersType DEF ListInv, ExecutionTypeOK
  <2>2. stream' \in Seq(Report)
    BY <1>2 DEF ReportsOf
  <2> QED BY <2>1, <2>2, <1>1, <1>4, <1>7 DEF ListInv, ExecutionTypeOK
<1>9. NoListInv' /\ CallsInv'
  BY <1>1, <1>2, <1>4 DEF NoListInv, CallsInv, n
<1>10. ProgressInv'
  <2>1. stream' \in Seq(Report)
    BY <1>2 DEF ReportsOf
  <2>2. Len(stream') \in Nat /\ DOMAIN stream' = 1 .. Len(stream') /\ (stream' = <<>> <=> Len(stream') = 0)
    BY <2>1, EmptySeq
  <2>3. 0 <= n /\ 0 <= Len(stream') /\ (\A k \in DOMAIN stream' : ~(k <= 0)) /\ 0 + 1 = 1
    BY <2>2, <1>3
  <2>4. result' = "none" => stream' = <<>> \/ (0 < Len(stream') /\ stream'[0 + 1].kind # "error")
    BY <2>2, <2>3, <1>7
  <2> QED BY <2>3, <2>4, <1>1 DEF ProgressInv, At, n
<1> QED BY <1>7, <1>8, <1>9, <1>10 DEF ListInv

(* A list that has succeeded: no call has raised an error, and unless a    *)
(* call selected nothing and another twice, there is one report of each.   *)
LEMMA SuccessfulList ==
  ASSUME ListInv, result = "SUCCESS"
  PROVE  /\ sub_list # <<>>
         /\ \A i \in DOMAIN calls : calls[i] # "raises"
         /\ TextOf[sub_list[1]] \in WithResults =>
              /\ CurrentResultSet = Len(sub_list)
              /\ ~(Some_Call("missing") /\ Some_Call("extra")) => Matched(sub_list, calls, stream)
<1>1. sub_list # <<>> /\ result # "none"
  BY DEF ListInv, NoListInv
<1>2. /\ sub_list \in Seq(Task) /\ stream \in Seq(Report) /\ CurrentResultSet \in Nat
      /\ ReportsOf(sub_list, calls, stream)
      /\ Len(stream) <= CurrentResultSet
      /\ TextOf[sub_list[1]] \in WithResults => CurrentResultSet = Len(sub_list) /\ CurrentResultSet <= Len(stream)
      /\ \A k \in DOMAIN stream : k <= CurrentResultSet => stream[k].kind = "ok"
  BY <1>1 DEF ListInv, ExecutionTypeOK, CallsInv, ProgressInv, ResultInv
<1>3. Len(stream) \in Nat /\ DOMAIN stream = 1 .. Len(stream) /\ Len(sub_list) \in Nat
  BY <1>2, LenProperties
<1>4. \A k \in DOMAIN stream : stream[k].kind = "ok"
  <2> SUFFICES ASSUME NEW k \in DOMAIN stream PROVE stream[k].kind = "ok"
    OBVIOUS
  <2>1. k <= CurrentResultSet
    BY <1>2, <1>3
  <2> QED BY <2>1, <1>2
<1>5. ~Occurs("raises", calls)
  BY <1>2, <1>4 DEF ReportsOf
<1>6. ASSUME TextOf[sub_list[1]] \in WithResults, ~(Some_Call("missing") /\ Some_Call("extra"))
      PROVE  Matched(sub_list, calls, stream)
  <2>1. Len(stream) = Len(sub_list)
    BY <1>2, <1>3, <1>6
  <2>2. ~(Len(stream) < Len(sub_list)) /\ ~(Len(stream) > Len(sub_list))
    BY <2>1, <1>3
  <2>3. ~(Occurs("missing", calls) /\ Occurs("extra", calls))
    BY <1>6 DEF Some_Call, Occurs
  <2> QED BY <2>2, <2>3, <1>2, <1>6 DEF ReportsOf
<1> QED BY <1>1, <1>2, <1>5, <1>6 DEF Occurs

=============================================================================
