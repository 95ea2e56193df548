-------------------------- MODULE ProjectDataProofs --------------------------
(***************************************************************************)
(* Proofs about ProjectData, for every set of files an operator may write  *)
(* (a known version, JSON in which every object is a finite tree: empty    *)
(* objects, empty and mixed arrays, nulls and arrays in arrays are among   *)
(* them) and every width of its numbers: its type invariant, that a saved  *)
(* file can be loaded and gives the job that was saved, and what else in a *)
(* file is kept.  The exceptions are the properties' own: empty objects,   *)
(* negative durations, pins that are not free, an array of objects in the  *)
(* watering system's place.                                                *)
(*                                                                         *)
(* The lemmas follow a text through the reader and the writer: one level   *)
(* of it, then trees by induction over their depth, then the watering      *)
(* system's own data, then the upgrade and the project as a whole.         *)
(***************************************************************************)
EXTENDS ProjectData, WellFoundedInduction, TLAPS

\* The key of the watering system's node in a project.
AWSKey == "automaticWateringSystem"

-----------------------------------------------------------------------------
(* Induction over the numbers and over the objects *)

\* A set of numbers that has 0 and, with each number, the next has all.
LEMMA FromZero ==
  ASSUME NEW S, 0 \in S, \A n \in Nat : n \in S => n + 1 \in S
  PROVE  Nat \subseteq S
<1> SUFFICES ASSUME Nat \ S # {} PROVE FALSE
  OBVIOUS
<1>1. PICK x \in Nat \ S : \A y \in Nat \ S : <<y, x>> \notin OpToRel(<, Nat)
  BY WFMin, NatLessThanWellFounded
<1>2. x \in Nat /\ x # 0
  OBVIOUS
<1>3. \A y \in Nat \ S : ~(y < x)
  BY <1>1 DEF OpToRel
<1>4. x - 1 \in S
  BY <1>2, <1>3
<1> QED BY <1>2, <1>4

\* A set of objects that has each object whose inner objects it has, has all.
LEMMA FromInside ==
  ASSUME NEW S, \A o \in Object : Inside(o) \subseteq S => o \in S
  PROVE  Object \subseteq S
<1> DEFINE T == {Depth(o) : o \in Object \ S}
<1> SUFFICES ASSUME Object \ S # {} PROVE FALSE
  OBVIOUS
<1>1. T \subseteq Nat /\ T # {}
  <2>1. \A o \in Object : Depth(o) \in Nat
    BY TreeAssumption
  <2> QED BY <2>1
<1>2. PICK x \in T : \A y \in T : <<y, x>> \notin OpToRel(<, Nat)
  BY <1>1, WFMin, NatLessThanWellFounded
<1>3. PICK o \in Object \ S : x = Depth(o)
  OBVIOUS
<1>4. ASSUME NEW i \in Inside(o) PROVE i \in S
  <2>1. i \in Object /\ Depth(i) < Depth(o) /\ Depth(i) \in Nat
    BY TreeAssumption
  <2> SUFFICES ASSUME i \notin S PROVE FALSE
    OBVIOUS
  <2>2. Depth(i) \in T
    BY <2>1
  <2> QED BY <1>1, <1>2, <1>3, <2>1, <2>2 DEF OpToRel
<1> QED BY <1>4

-----------------------------------------------------------------------------
(* The objects of a sequence *)

\* What is kept of a sequence are its objects; some if it has one, all if it
\* has nothing else.
LEMMA ObjectsOfSequence ==
  ASSUME NEW S, NEW s \in Seq(S)
  PROVE  /\ Objects(s) \in Seq({s[i] : i \in {k \in DOMAIN s : IsObject(s[k])}})
         /\ (\E i \in DOMAIN s : IsObject(s[i])) => Objects(s) # <<>>
         /\ (\A i \in DOMAIN s : IsObject(s[i])) => Objects(s) = s
<1> DEFINE N == Len(s)
           T == {s[i] : i \in {k \in DOMAIN s : IsObject(s[k])}}
           Step(t, i) == IF IsObject(s[i]) THEN Append(t, s[i]) ELSE t
           Is(f, n) == f = [i \in 0 .. n |-> IF i = 0 THEN <<>> ELSE Step(f[i - 1], i)]
<1>1. N \in Nat /\ DOMAIN s = 1 .. N
  OBVIOUS
<1>2. \A n \in Nat : \E f : Is(f, n)
  <2> DEFINE Sn == {n \in Nat : \E f : Is(f, n)}
  <2>1. 0 \in Sn
    <3> DEFINE f == [i \in {0} |-> <<>>]
    <3>1. Is(f, 0)
      OBVIOUS
    <3> QED BY <3>1
  <2>2. ASSUME NEW n \in Nat, n \in Sn PROVE n + 1 \in Sn
    <3>1. PICK f : Is(f, n)
      BY <2>2
    <3> DEFINE g == [i \in 0 .. n + 1 |-> IF i = n + 1 THEN Step(f[n], n + 1) ELSE f[i]]
    <3>2. \A i \in 0 .. n : f[i] = IF i = 0 THEN <<>> ELSE Step(f[i - 1], i)
      BY <3>1
    <3> HIDE DEF Next
    <3>3. Is(g, n + 1)
      <4>1. ASSUME NEW i \in 0 .. n + 1
            PROVE  g[i] = IF i = 0 THEN <<>> ELSE Step(g[i - 1], i)
        <5>1. CASE i = n + 1
          BY <5>1
        <5>2. CASE i \in 1 .. n
          <6>1. g[i] = f[i] /\ g[i - 1] = f[i - 1] /\ i \in 0 .. n
            BY <5>2
          <6> QED BY <3>2, <5>2, <6>1
        <5>3. CASE i = 0
          BY <3>2, <5>3
        <5> QED BY <5>1, <5>2, <5>3
      <4> QED BY <4>1
    <3> HIDE DEF g
    <3> QED BY <3>3
  <2> HIDE DEF Sn
  <2>3. Nat \subseteq Sn
    BY <2>1, <2>2, FromZero
  <2> QED BY <2>3 DEF Sn
<1> DEFINE f == CHOOSE f : Is(f, N)
<1>3. Objects(s) = f[N]
  BY DEF Objects
<1>4. Is(f, N)
  BY <1>1, <1>2
<1>5. \A i \in 0 .. N : f[i] = IF i = 0 THEN <<>> ELSE Step(f[i - 1], i)
  <2> HIDE DEF f, Next
  <2> QED BY <1>4
<1> HIDE DEF f
<1> DEFINE P(i) == /\ f[i] \in Seq(T)
                   /\ (\E k \in 1 .. i : IsObject(s[k])) => f[i] # <<>>
                   /\ (\A k \in 1 .. i : IsObject(s[k])) => f[i] = [k \in 1 .. i |-> s[k]]
           Good == {n \in Nat : n <= N => P(n)}
<1>6. 0 \in Good
  <2>1. f[0] = <<>> /\ 0 \in 0 .. N
    BY <1>1, <1>5
  <2>2. <<>> = [k \in 1 .. 0 |-> s[k]] /\ <<>> \in Seq(T)
    OBVIOUS
  <2>3. ~\E k \in 1 .. 0 : IsObject(s[k])
    OBVIOUS
  <2> HIDE DEF T
  <2>4. P(0)
    BY <2>1, <2>2, <2>3
  <2> QED BY <2>4
<1>7. ASSUME NEW n \in Nat, n \in Good PROVE n + 1 \in Good
  <2> SUFFICES ASSUME n + 1 <= N PROVE P(n + 1)
    OBVIOUS
  <2> DEFINE t == f[n]
             x == s[n + 1]
  <2>1. P(n) /\ n + 1 \in 0 .. N /\ n + 1 \in DOMAIN s
    BY <1>1, <1>7
  <2>2. f[n + 1] = IF IsObject(x) THEN Append(t, x) ELSE t
    BY <1>5, <2>1
  <2>3. CASE IsObject(x)
    <3>1. x \in T
      BY <2>1, <2>3
    <3> HIDE DEF T
    <3>2. f[n + 1] = Append(t, x) /\ t \in Seq(T)
      BY <2>1, <2>2, <2>3
    <3>3. Append(t, x) \in Seq(T) /\ Append(t, x) # <<>>
      BY <3>1, <3>2
    <3>4. ASSUME \A k \in 1 .. n + 1 : IsObject(s[k])
          PROVE  f[n + 1] = [k \in 1 .. n + 1 |-> s[k]]
      <4>1. t = [k \in 1 .. n |-> s[k]]
        BY <2>1, <3>4
      <4>2. Append(t, x) = [k \in 1 .. n + 1 |-> IF k = n + 1 THEN x ELSE t[k]]
        <5>1. Len(t) = n /\ DOMAIN t = 1 .. n
          BY <3>2, <4>1
        <5> QED BY <3>2, <5>1
      <4> QED BY <3>2, <4>1, <4>2
    <3> QED BY <3>2, <3>3, <3>4
  <2>4. CASE ~IsObject(x)
    <3>1. f[n + 1] = t /\ ~\A k \in 1 .. n + 1 : IsObject(s[k])
      BY <2>2, <2>4
    <3>2. \A k \in 1 .. n + 1 : IsObject(s[k]) => k \in 1 .. n
      BY <2>4
    <3> HIDE DEF T
    <3> QED BY <2>1, <3>1, <3>2
  <2> QED BY <2>3, <2>4
<1> HIDE DEF Good
<1>8. Nat \subseteq Good
  BY <1>6, <1>7, FromZero
<1>9. N \in Good /\ N <= N
  BY <1>1, <1>8
<1>10. s = [k \in 1 .. N |-> s[k]]
  OBVIOUS
<1> HIDE DEF T
<1> QED BY <1>1, <1>3, <1>9, <1>10 DEF T, Good

-----------------------------------------------------------------------------
(* One level of a tree, read and written: m is what it has, inner reads an *)
(* object in it, outer writes the node of one, back does both.             *)

\* The reader, at a key.
ReadsAs(m, inner, n) ==
  /\ n = [values |-> n.values, valueArrays |-> n.valueArrays,
          objects |-> n.objects, objectArrays |-> n.objectArrays]
  /\ n.objects = [k \in DOMAIN n.objects |-> n.objects[k]]
  /\ DOMAIN n.values = {k \in DOMAIN m : IsValue(m[k])}
  /\ DOMAIN n.valueArrays = {k \in DOMAIN m : HasValues(m[k])}
  /\ DOMAIN n.objects = {k \in DOMAIN m : IsObject(m[k])}
  /\ DOMAIN n.objectArrays = {k \in DOMAIN m : HasObjects(m[k])}
  /\ \A k \in DOMAIN n.values : n.values[k] = Variant(m[k])
  /\ \A k \in DOMAIN n.valueArrays :
       n.valueArrays[k] = [i \in DOMAIN m[k][2] |-> Variant(m[k][2][i])]
  /\ \A k \in DOMAIN n.objects : n.objects[k] = inner[m[k][2]]
  /\ \A k \in DOMAIN n.objectArrays :
       n.objectArrays[k] = [i \in DOMAIN Objects(m[k][2]) |-> inner[Objects(m[k][2])[i][2]]]

\* The reader gives each key as ReadsAs has it.
LEMMA NodeAt == ASSUME NEW m, NEW inner PROVE ReadsAs(m, inner, NodeFrom(m, inner))
BY DEF NodeFrom, ReadsAs

\* What the writer makes of a key: later maps overwrite earlier ones.
ObjectsText(s, outer) == <<"array", [i \in DOMAIN s |-> ObjectText(outer[s[i]])]>>
ValuesText(s)         == <<"array", [i \in DOMAIN s |-> Text(s[i])]>>

MemberText(node, outer, k) ==
  IF k \in DOMAIN node.objectArrays THEN ObjectsText(node.objectArrays[k], outer)
  ELSE IF k \in DOMAIN node.objects THEN ObjectText(outer[node.objects[k]])
  ELSE IF k \in DOMAIN node.valueArrays THEN ValuesText(node.valueArrays[k])
  ELSE Text(node.values[k])

\* The writer, at a key.
LEMMA MembersAt ==
  ASSUME NEW node, NEW outer
  PROVE  LET w == MembersFrom(node, outer)
         IN  /\ w = [k \in DOMAIN w |-> w[k]]
             /\ DOMAIN w = DOMAIN node.values \cup DOMAIN node.valueArrays
                             \cup DOMAIN node.objects \cup DOMAIN node.objectArrays
             /\ \A k \in DOMAIN w : w[k] = MemberText(node, outer, k)
BY DEF MembersFrom, Over, ObjectsText, ValuesText, MemberText

\* What both make of a value.
Rewritten(j, back) ==
  IF IsValue(j) THEN Text(Variant(j))
  ELSE IF IsObject(j) THEN ObjectText(back[j[2]])
  ELSE IF HasObjects(j)
         THEN <<"array", [i \in DOMAIN Objects(j[2]) |-> ObjectText(back[Objects(j[2])[i][2]])]>>
         ELSE <<"array", [i \in DOMAIN j[2] |-> Text(Variant(j[2][i]))]>>

\* The objects that are kept of an array are some of its own.
LEMMA ObjectsAreInside ==
  ASSUME NEW j, IsArray(j), j[2] \in Seq(Elements(j))
  PROVE  /\ Objects(j[2]) \in Seq({v \in Elements(j) : IsObject(v)})
         /\ \A i \in DOMAIN Objects(j[2]) :
              IsObject(Objects(j[2])[i]) /\ Objects(j[2])[i] \in Elements(j)
                /\ Objects(j[2])[i][2] \in ObjectsIn(j)
         /\ HasObjects(j) => Objects(j[2]) # <<>>
         /\ (\A v \in Elements(j) : IsObject(v)) => Objects(j[2]) = j[2]
<1> DEFINE s == j[2]
           T == {s[i] : i \in {k \in DOMAIN s : IsObject(s[k])}}
           O == {v \in Elements(j) : IsObject(v)}
<1>1. /\ Objects(s) \in Seq(T)
      /\ (\E i \in DOMAIN s : IsObject(s[i])) => Objects(s) # <<>>
      /\ (\A i \in DOMAIN s : IsObject(s[i])) => Objects(s) = s
  BY ObjectsOfSequence
<1>2. T = O
  BY DEF Elements
<1>3. \A i \in DOMAIN s : s[i] \in Elements(j)
  BY DEF Elements
<1>4. \A v \in O : v[2] \in ObjectsIn(j) /\ IsObject(v) /\ v \in Elements(j)
  BY DEF ObjectsIn
<1> HIDE DEF T, O
<1>5. Objects(s) \in Seq(O) /\ \A i \in DOMAIN Objects(s) : Objects(s)[i] \in O
  BY <1>1, <1>2
<1> QED BY <1>1, <1>3, <1>4, <1>5 DEF HasObjects, O

\* An object in a member is inside.
LEMMA MemberInside ==
  ASSUME NEW m, NEW k \in DOMAIN m
  PROVE  /\ ObjectsIn(m[k]) \subseteq Inside(m)
         /\ IsObject(m[k]) => m[k][2] \in ObjectsIn(m[k])
BY DEF Inside, ObjectsIn, Elements, IsObject, IsArray

\* And of a level that was read and is written: empty arrays are lost.
AgainWith(m, back) == [k \in {h \in DOMAIN m : ~IsEmptyArray(m[h])} |-> Rewritten(m[k], back)]

\* What was read is written back as AgainWith has it.
LEMMA WrittenBack ==
  ASSUME NEW m, NEW inner, NEW outer, NEW back,
         \A k \in DOMAIN m : IsJson(m[k]),
         NEW n, n = NodeFrom(m, inner),
         \A o \in Inside(m) : inner[o] \in NodesIn(n) => outer[inner[o]] = back[o]
  PROVE  MembersFrom(n, outer) = AgainWith(m, back)
<1> DEFINE w == MembersFrom(n, outer)
<1>0. /\ DOMAIN n.values = {k \in DOMAIN m : IsValue(m[k])}
      /\ DOMAIN n.valueArrays = {k \in DOMAIN m : HasValues(m[k])}
      /\ DOMAIN n.objects = {k \in DOMAIN m : IsObject(m[k])}
      /\ DOMAIN n.objectArrays = {k \in DOMAIN m : HasObjects(m[k])}
      /\ \A k \in DOMAIN n.values : n.values[k] = Variant(m[k])
      /\ \A k \in DOMAIN n.valueArrays :
                  n.valueArrays[k] = [i \in DOMAIN m[k][2] |-> Variant(m[k][2][i])]
      /\ \A k \in DOMAIN n.objects : n.objects[k] = inner[m[k][2]]
      /\ \A k \in DOMAIN n.objectArrays :
                  n.objectArrays[k] = [i \in DOMAIN Objects(m[k][2]) |->
                                         inner[Objects(m[k][2])[i][2]]]
  <2>1. ReadsAs(m, inner, n)
    BY NodeAt
  <2> QED BY <2>1 DEF ReadsAs
<1>1. \A o \in Inside(m) : inner[o] \in NodesIn(n) => outer[inner[o]] = back[o]
  OBVIOUS
<1>2. /\ w = [k \in DOMAIN w |-> w[k]]
      /\ DOMAIN w = DOMAIN n.values \cup DOMAIN n.valueArrays \cup DOMAIN n.objects \cup DOMAIN n.objectArrays
      /\ \A k \in DOMAIN w : w[k] = MemberText(n, outer, k)
  BY MembersAt
<1> HIDE DEF w
<1>3. DOMAIN w = {k \in DOMAIN m : ~IsEmptyArray(m[k])}
  <2>1. ASSUME NEW j
        PROVE  ~IsEmptyArray(j) <=> IsValue(j) \/ HasValues(j) \/ IsObject(j) \/ HasObjects(j)
    <3>1. ~(IsArray(j) /\ IsObject(j))
      BY DEF IsArray, IsObject
    <3>2. HasObjects(j) => IsArray(j) /\ j[2] # <<>>
      <4> SUFFICES ASSUME HasObjects(j), j[2] = <<>> PROVE FALSE
        BY DEF HasObjects
      <4>1. DOMAIN j[2] = {}
        OBVIOUS
      <4> QED BY <4>1 DEF HasObjects
    <3> QED BY <3>1, <3>2 DEF IsEmptyArray, IsValue, HasValues
  <2> QED BY <1>0, <1>2, <2>1
<1>4. ASSUME NEW k \in DOMAIN w PROVE w[k] = Rewritten(m[k], back)
  <2> DEFINE j == m[k]
  <2>1. k \in DOMAIN m /\ w[k] = MemberText(n, outer, k) /\ IsJson(j)
    BY <1>2, <1>3
  <2>2. CASE IsValue(j)
    <3>1. /\ k \in DOMAIN n.values /\ k \notin DOMAIN n.objectArrays
          /\ k \notin DOMAIN n.objects /\ k \notin DOMAIN n.valueArrays
      BY <1>0, <2>1, <2>2 DEF IsValue, HasObjects, HasValues
    <3> QED BY <1>0, <2>1, <2>2, <3>1 DEF MemberText, Rewritten
  <2>3. CASE IsObject(j)
    <3>1. k \in DOMAIN n.objects /\ k \notin DOMAIN n.objectArrays /\ ~IsValue(j)
      BY <1>0, <2>1, <2>3 DEF IsValue, HasObjects, IsArray, IsObject
    <3>2. n.objects[k] \in NodesIn(n) /\ n.objects[k] = inner[j[2]]
      BY <1>0, <3>1 DEF NodesIn
    <3>3. j[2] \in Inside(m)
      BY <2>1, <2>3, MemberInside
    <3> QED BY <1>1, <2>1, <2>3, <3>1, <3>2, <3>3 DEF MemberText, Rewritten
  <2>4. CASE HasObjects(j)
    <3> DEFINE s == Objects(j[2])
    <3>1. k \in DOMAIN n.objectArrays /\ ~IsValue(j) /\ ~IsObject(j) /\ IsArray(j)
      BY <1>0, <2>1, <2>4 DEF IsValue, HasObjects, IsArray, IsObject
    <3>2. n.objectArrays[k] = [i \in DOMAIN s |-> inner[s[i][2]]]
      BY <1>0, <3>1
    <3>3. \A i \in DOMAIN s : s[i][2] \in Inside(m)
      BY <2>1, <3>1, MemberInside, ObjectsAreInside DEF IsJson
    <3>4. \A i \in DOMAIN s : inner[s[i][2]] \in NodesIn(n)
      <4> HIDE DEF s
      <4> SUFFICES ASSUME NEW i \in DOMAIN s PROVE n.objectArrays[k][i] \in NodesIn(n)
        BY <3>2
      <4>1. i \in DOMAIN n.objectArrays[k]
        BY <3>2
      <4> QED BY <3>1, <4>1 DEF NodesIn
    <3>5. ObjectsText(n.objectArrays[k], outer) = <<"array", [i \in DOMAIN s |-> ObjectText(back[s[i][2]])]>>
      <4> HIDE DEF s
      <4>1. DOMAIN n.objectArrays[k] = DOMAIN s
            /\ \A i \in DOMAIN s : outer[n.objectArrays[k][i]] = back[s[i][2]]
        BY <1>1, <3>2, <3>3, <3>4
      <4> QED BY <4>1 DEF ObjectsText
    <3> QED BY <2>1, <2>4, <3>1, <3>5 DEF MemberText, Rewritten
  <2>5. CASE HasValues(j)
    <3>1. /\ k \in DOMAIN n.valueArrays /\ k \notin DOMAIN n.objectArrays /\ k \notin DOMAIN n.objects
          /\ ~IsValue(j) /\ ~IsObject(j) /\ ~HasObjects(j)
      BY <1>0, <2>1, <2>5 DEF IsValue, HasValues, IsArray, IsObject
    <3>2. n.valueArrays[k] = [i \in DOMAIN j[2] |-> Variant(j[2][i])]
      BY <1>0, <3>1
    <3>3. ValuesText(n.valueArrays[k]) = <<"array", [i \in DOMAIN j[2] |-> Text(Variant(j[2][i]))]>>
      BY <3>2 DEF ValuesText
    <3> QED BY <2>1, <3>1, <3>3 DEF MemberText, Rewritten
  <2> QED BY <1>3, <2>2, <2>3, <2>4, <2>5 DEF IsValue, HasValues, IsEmptyArray
<1> QED BY <1>2, <1>3, <1>4 DEF w, AgainWith

-----------------------------------------------------------------------------
(* A value, read and written *)

\* A value that is no object or array is written as it was.
LEMMA TextOfVariant == ASSUME NEW j, IsTyped(j) PROVE Text(Variant(j)) = j
BY DEF IsTyped, Text, Variant

\* A sequence is a function.
LEMMA SequenceIsFunction == ASSUME NEW S, NEW s \in Seq(S) PROVE s = [i \in DOMAIN s |-> s[i]]
OBVIOUS

\* Values put in place of a sequence's are a sequence.
LEMMA SequenceOf ==
  ASSUME NEW S, NEW s \in Seq(S), NEW f, f = [i \in DOMAIN s |-> f[i]]
  PROVE  f \in Seq({f[i] : i \in DOMAIN f}) /\ (s # <<>> => f # <<>>)
<1>1. Len(s) \in Nat /\ DOMAIN s = 1 .. Len(s)
  OBVIOUS
<1>2. f \in [1 .. Len(s) -> {f[i] : i \in DOMAIN f}]
  BY <1>1
<1>3. f \in Seq({f[i] : i \in DOMAIN f})
  BY <1>1, <1>2
<1>4. s # <<>> => Len(s) >= 1
  OBVIOUS
<1> QED BY <1>1, <1>2, <1>3, <1>4

\* A plain value, whose objects come back as they were, is written as it was.
LEMMA SameIfPlain ==
  ASSUME NEW j, IsJson(j), IsPlain(j), NEW back,
         \A o \in ObjectsIn(j) : back[o] = o /\ o # Nothing
  PROVE  Rewritten(j, back) = j
<1>1. CASE IsValue(j)
  BY <1>1, TextOfVariant DEF Rewritten, IsJson
<1>2. CASE IsObject(j)
  <2>1. ~IsValue(j) /\ j = <<"object", j[2]>> /\ j[2] \in ObjectsIn(j)
    BY <1>2 DEF IsValue, IsObject, IsArray, IsJson, IsTyped, ObjectsIn, Elements
  <2> QED BY <1>2, <2>1 DEF Rewritten, ObjectText
<1>3. CASE HasObjects(j)
  <2>1. ~IsValue(j) /\ ~IsObject(j) /\ IsArray(j) /\ j = <<"array", j[2]>> /\ j[2] \in Seq(Elements(j))
    BY <1>3 DEF IsValue, IsObject, IsArray, IsJson, IsTyped, HasObjects
  <2>2. \A v \in Elements(j) : IsObject(v) /\ v = <<"object", v[2]>> /\ v[2] \in ObjectsIn(j)
    <3>1. \E v \in Elements(j) : IsObject(v)
      BY <1>3, <2>1 DEF HasObjects, Elements
    <3>2. \A v \in Elements(j) : IsObject(v) /\ IsTyped(v)
      BY <3>1 DEF IsPlain, IsJson
    <3> QED BY <3>2 DEF IsTyped, IsObject, ObjectsIn
  <2>3. Objects(j[2]) = j[2]
    BY <2>1, <2>2, ObjectsAreInside
  <2>4. \A i \in DOMAIN j[2] : ObjectText(back[j[2][i][2]]) = j[2][i]
    <3> TAKE i \in DOMAIN j[2]
    <3>1. j[2][i] \in Elements(j)
      BY <2>1 DEF Elements
    <3> QED BY <2>2, <3>1 DEF ObjectText
  <2>5. j[2] = [i \in DOMAIN j[2] |-> j[2][i]]
    BY <2>1, SequenceIsFunction
  <2>6. [i \in DOMAIN j[2] |-> ObjectText(back[j[2][i][2]])] = j[2]
    BY <2>4, <2>5
  <2> QED BY <1>3, <2>1, <2>3, <2>6 DEF Rewritten
<1>4. CASE HasValues(j)
  <2>1. /\ ~IsValue(j) /\ ~IsObject(j) /\ IsArray(j) /\ ~HasObjects(j)
        /\ j = <<"array", j[2]>> /\ j[2] \in Seq(Elements(j))
    BY <1>4 DEF IsValue, IsObject, IsArray, IsJson, IsTyped, HasValues
  <2>2. \A i \in DOMAIN j[2] : Text(Variant(j[2][i])) = j[2][i]
    <3> TAKE i \in DOMAIN j[2]
    <3>1. IsTyped(j[2][i])
      BY <2>1 DEF Elements, IsJson
    <3> QED BY <3>1, TextOfVariant
  <2>3. j[2] = [i \in DOMAIN j[2] |-> j[2][i]]
    BY <2>1, SequenceIsFunction
  <2>4. [i \in DOMAIN j[2] |-> Text(Variant(j[2][i]))] = j[2]
    BY <2>2, <2>3
  <2> QED BY <2>1, <2>4 DEF Rewritten
<1> QED BY <1>1, <1>2, <1>3, <1>4 DEF IsPlain, IsEmptyArray, IsValue, HasValues

\* What is written is JSON again, with objects that came back.
LEMMA JsonAgain ==
  ASSUME NEW j, IsJson(j), ~IsEmptyArray(j), NEW back
  PROVE  /\ IsJson(Rewritten(j, back)) /\ ~IsEmptyArray(Rewritten(j, back))
         /\ ObjectsIn(Rewritten(j, back)) \subseteq {back[o] : o \in ObjectsIn(j)}
<1> DEFINE w == Rewritten(j, back)
<1>0. \A x : IsTyped(ObjectText(x)) /\ (IsObject(ObjectText(x)) => ObjectText(x)[2] = x) /\ ~IsArray(ObjectText(x))
  BY DEF ObjectText, IsTyped, IsObject, IsArray, Null
<1>1. CASE IsValue(j)
  <2>1. w = j
    BY <1>1, TextOfVariant DEF Rewritten, IsJson
  <2>2. ObjectsIn(j) = {}
    BY <1>1 DEF IsValue, ObjectsIn, Elements
  <2> QED BY <2>1, <2>2
<1>2. CASE IsObject(j)
  <2>1. w = ObjectText(back[j[2]]) /\ j[2] \in ObjectsIn(j)
    BY <1>2 DEF Rewritten, IsValue, ObjectsIn, Elements, IsObject, IsArray
  <2> HIDE DEF w
  <2>2. Elements(w) = {w} /\ IsTyped(w) /\ ~IsArray(w) /\ (IsObject(w) => w[2] = back[j[2]])
    BY <1>0, <2>1 DEF Elements
  <2>3. ObjectsIn(w) \subseteq {back[j[2]]}
    BY <2>2 DEF ObjectsIn
  <2>4. IsJson(w) /\ ~IsEmptyArray(w)
    BY <2>2 DEF IsJson, IsEmptyArray
  <2> QED BY <2>1, <2>3, <2>4 DEF w
<1>3. CASE HasObjects(j)
  <2> DEFINE s == Objects(j[2])
             t == [i \in DOMAIN s |-> ObjectText(back[s[i][2]])]
  <2>1. ~IsValue(j) /\ ~IsObject(j) /\ IsArray(j) /\ j[2] \in Seq(Elements(j))
    BY <1>3 DEF IsValue, IsObject, IsArray, IsJson, HasObjects
  <2>2. w = <<"array", t>>
    BY <1>3, <2>1 DEF Rewritten
  <2>3. /\ s \in Seq({v \in Elements(j) : IsObject(v)}) /\ s # <<>>
        /\ \A i \in DOMAIN s : s[i][2] \in ObjectsIn(j)
    BY <1>3, <2>1, ObjectsAreInside
  <2> HIDE DEF s, w
  <2>4. DOMAIN t = DOMAIN s /\ \A i \in DOMAIN s : t[i] = ObjectText(back[s[i][2]])
    OBVIOUS
  <2>5. t = [i \in DOMAIN s |-> t[i]]
    OBVIOUS
  <2> HIDE DEF t
  <2>6. t \in Seq({t[i] : i \in DOMAIN t}) /\ t # <<>>
    BY <2>3, <2>5, SequenceOf
  <2>7. IsArray(w) /\ w[2] = t /\ Elements(w) = {t[i] : i \in DOMAIN t} /\ IsTyped(w)
    BY <2>2 DEF IsArray, Elements, IsTyped
  <2>8. \A v \in Elements(w) : IsTyped(v) /\ (IsObject(v) => v[2] \in {back[o] : o \in ObjectsIn(j)})
    BY <1>0, <2>3, <2>4, <2>7
  <2>9. ObjectsIn(w) \subseteq {back[o] : o \in ObjectsIn(j)}
    BY <2>8 DEF ObjectsIn
  <2>10. IsJson(w) /\ ~IsEmptyArray(w)
    BY <2>6, <2>7, <2>8 DEF IsJson, IsEmptyArray
  <2> QED BY <2>9, <2>10 DEF w
<1>4. CASE HasValues(j)
  <2> DEFINE t == [i \in DOMAIN j[2] |-> Text(Variant(j[2][i]))]
  <2>1. /\ ~IsValue(j) /\ ~IsObject(j) /\ IsArray(j) /\ ~HasObjects(j) /\ j[2] # <<>>
        /\ j[2] \in Seq(Elements(j))
    BY <1>4 DEF IsValue, IsObject, IsArray, IsJson, HasValues
  <2>2. \A i \in DOMAIN j[2] : Text(Variant(j[2][i])) = j[2][i]
    <3> TAKE i \in DOMAIN j[2]
    <3>1. IsTyped(j[2][i])
      BY <2>1 DEF Elements, IsJson
    <3> QED BY <3>1, TextOfVariant
  <2>3. j[2] = [i \in DOMAIN j[2] |-> j[2][i]]
    BY <2>1, SequenceIsFunction
  <2>4. t = j[2]
    BY <2>2, <2>3
  <2>5. w = <<"array", t>> /\ j = <<"array", j[2]>>
    BY <2>1 DEF Rewritten, IsJson, IsTyped, IsArray
  <2>6. w = j
    BY <2>4, <2>5
  <2>7. ObjectsIn(j) = {}
    BY <2>1 DEF ObjectsIn, Elements, HasObjects
  <2> QED BY <2>6, <2>7
<1> QED BY <1>1, <1>2, <1>3, <1>4 DEF IsEmptyArray, IsValue, HasValues

\* A value the reader does not throw for, whose objects do not come back
\* empty, is plain when it is written.
IsReadableValue(j) == \A v \in Elements(j) : IsObject(v) \/ (~IsArray(v) /\ v # Null)

\* That is so of each value that is not an empty array.
LEMMA PlainAgain ==
  ASSUME NEW j, IsJson(j), ~IsEmptyArray(j), IsReadableValue(j), NEW back,
         \A o \in ObjectsIn(j) : back[o] # Nothing
  PROVE  IsPlain(Rewritten(j, back))
<1> DEFINE w == Rewritten(j, back)
<1>0. \A x : x # Nothing => /\ IsObject(ObjectText(x)) /\ ~IsArray(ObjectText(x)) /\ ObjectText(x) # Null
  BY DEF ObjectText, IsObject, IsArray, Null
<1>1. ~IsEmptyArray(w)
  BY JsonAgain
<1>2. CASE IsValue(j)
  <2>1. w = j /\ Elements(w) = {j} /\ ~IsArray(j) /\ ~IsObject(j) /\ j # Null
    BY <1>2, TextOfVariant DEF Rewritten, IsJson, IsValue, Elements, IsReadableValue
  <2> HIDE DEF w
  <2>2. IsPlain(w)
    BY <1>1, <2>1 DEF IsPlain
  <2> QED BY <2>2 DEF w
<1>3. CASE IsObject(j)
  <2>1. w = ObjectText(back[j[2]]) /\ j[2] \in ObjectsIn(j)
    BY <1>3 DEF Rewritten, IsValue, ObjectsIn, Elements, IsObject, IsArray
  <2> HIDE DEF w
  <2>2. IsObject(w) /\ ~IsArray(w) /\ w # Null /\ Elements(w) = {w}
    BY <1>0, <2>1 DEF Elements
  <2>3. IsPlain(w)
    BY <1>1, <2>2 DEF IsPlain
  <2> QED BY <2>3 DEF w
<1>4. CASE HasObjects(j)
  <2> DEFINE s == Objects(j[2])
             t == [i \in DOMAIN s |-> ObjectText(back[s[i][2]])]
  <2>1. ~IsValue(j) /\ ~IsObject(j) /\ IsArray(j) /\ j[2] \in Seq(Elements(j))
    BY <1>4 DEF IsValue, IsObject, IsArray, IsJson, HasObjects
  <2>2. w = <<"array", t>>
    BY <1>4, <2>1 DEF Rewritten
  <2>3. \A i \in DOMAIN s : s[i][2] \in ObjectsIn(j)
    BY <1>4, <2>1, ObjectsAreInside
  <2> HIDE DEF s, w
  <2>4. IsArray(w) /\ Elements(w) = {t[i] : i \in DOMAIN s}
    BY <2>2 DEF IsArray, Elements
  <2>5. \A v \in Elements(w) : IsObject(v) /\ ~IsArray(v) /\ v # Null
    BY <1>0, <2>3, <2>4
  <2>6. IsPlain(w)
    BY <1>1, <2>5 DEF IsPlain
  <2> QED BY <2>6 DEF w
<1>5. CASE HasValues(j)
  <2>1. /\ ~IsValue(j) /\ ~IsObject(j) /\ IsArray(j) /\ ~HasObjects(j)
        /\ j[2] \in Seq(Elements(j)) /\ j = <<"array", j[2]>>
    BY <1>5 DEF IsValue, IsObject, IsArray, IsJson, HasValues, IsTyped
  <2>2. \A i \in DOMAIN j[2] : Text(Variant(j[2][i])) = j[2][i]
    <3> TAKE i \in DOMAIN j[2]
    <3>1. IsTyped(j[2][i])
      BY <2>1 DEF Elements, IsJson
    <3> QED BY <3>1, TextOfVariant
  <2>3. j[2] = [i \in DOMAIN j[2] |-> j[2][i]]
    BY <2>1, SequenceIsFunction
  <2>4. w = <<"array", [i \in DOMAIN j[2] |-> Text(Variant(j[2][i]))]>>
    BY <2>1 DEF Rewritten
  <2>5. w = j
    BY <2>1, <2>2, <2>3, <2>4
  <2>6. \A v \in Elements(j) : ~IsObject(v) /\ ~IsArray(v) /\ v # Null
    BY <2>1 DEF Elements, HasObjects, IsReadableValue
  <2> HIDE DEF w
  <2>7. IsPlain(w)
    BY <1>1, <2>5, <2>6 DEF IsPlain
  <2> QED BY <2>7 DEF w
<1> QED BY <1>2, <1>3, <1>4, <1>5 DEF IsEmptyArray, IsValue, HasValues

-----------------------------------------------------------------------------
(* The objects beside the watering system: every level is the same *)

\* The nodes in a node that is read are those of the objects in the text.
LEMMA NodesAreRead ==
  ASSUME NEW m, AreMembers(m), NEW inner, NEW x \in NodesIn(NodeFrom(m, inner))
  PROVE  \E o \in Inside(m) : x = inner[o]
<1> DEFINE n == NodeFrom(m, inner)
<1>1. ReadsAs(m, inner, n)
  BY NodeAt
<1>2. x \in NodesIn(n)
  OBVIOUS
<1> HIDE DEF n
<1>3. CASE \E k \in DOMAIN n.objects : x = n.objects[k]
  <2>1. PICK k \in DOMAIN n.objects : x = n.objects[k]
    BY <1>3
  <2>2. k \in DOMAIN m /\ IsObject(m[k]) /\ x = inner[m[k][2]]
    BY <1>1, <2>1 DEF ReadsAs
  <2> QED BY <2>2, MemberInside
<1>4. CASE \E k \in DOMAIN n.objectArrays : \E i \in DOMAIN n.objectArrays[k] : x = n.objectArrays[k][i]
  <2>1. PICK k \in DOMAIN n.objectArrays : \E i \in DOMAIN n.objectArrays[k] : x = n.objectArrays[k][i]
    BY <1>4
  <2> DEFINE s == Objects(m[k][2])
  <2>2. k \in DOMAIN m /\ HasObjects(m[k]) /\ n.objectArrays[k] = [i \in DOMAIN s |-> inner[s[i][2]]]
    BY <1>1, <2>1 DEF ReadsAs
  <2>3. PICK i \in DOMAIN s : x = inner[s[i][2]]
    BY <2>1, <2>2
  <2>4. IsArray(m[k]) /\ m[k][2] \in Seq(Elements(m[k]))
    BY <2>2 DEF HasObjects, AreMembers, IsJson
  <2>5. s[i][2] \in ObjectsIn(m[k])
    BY <2>4, ObjectsAreInside
  <2> QED BY <2>2, <2>3, <2>5, MemberInside
<1> QED BY <1>2, <1>3, <1>4 DEF NodesIn

\* Read a level above, an object is read as below.
LEMMA ReadAlike ==
  ASSUME NEW o \in Object
  PROVE  ReadDevice(o) = DeepRead(o) /\ ReadFlow(o) = DeepRead(o) /\ ReadSystem(o) = DeepRead(o)
<1>1. \A x \in Object : /\ Inside(x) \subseteq Object
                        /\ DeepRead(x) = NodeFrom(x, [y \in Inside(x) |-> DeepRead(y)])
  BY TreeAssumption
<1>2. \A x \in Object : ReadDevice(x) = DeepRead(x)
  BY <1>1 DEF ReadDevice
<1>3. ASSUME NEW x \in Object PROVE ReadFlow(x) = DeepRead(x)
  <2>1. [y \in Inside(x) |-> ReadDevice(y)] = [y \in Inside(x) |-> DeepRead(y)]
    BY <1>1, <1>2
  <2> QED BY <1>1, <2>1 DEF ReadFlow
<1>4. ASSUME NEW x \in Object PROVE ReadSystem(x) = DeepRead(x)
  <2>1. [y \in Inside(x) |-> ReadFlow(y)] = [y \in Inside(x) |-> DeepRead(y)]
    BY <1>1, <1>3
  <2> QED BY <1>1, <2>1 DEF ReadSystem
<1> QED BY <1>2, <1>3, <1>4

\* It is readable as below.
LEMMA ReadableAlike ==
  ASSUME NEW o \in Object
  PROVE  ReadableSystem(o) = DeepReadable(o)
<1>1. \A x \in Object : /\ Inside(x) \subseteq Object
                        /\ DeepReadable(x) = ReadableFrom(x, [y \in Inside(x) |-> DeepReadable(y)])
  BY TreeAssumption
<1>2. \A x \in Object : ReadableDevice(x) = DeepReadable(x)
  BY <1>1 DEF ReadableDevice
<1>3. ASSUME NEW x \in Object PROVE ReadableFlow(x) = DeepReadable(x)
  <2>1. [y \in Inside(x) |-> ReadableDevice(y)] = [y \in Inside(x) |-> DeepReadable(y)]
    BY <1>1, <1>2
  <2> QED BY <1>1, <2>1 DEF ReadableFlow
<1>4. [y \in Inside(o) |-> ReadableFlow(y)] = [y \in Inside(o) |-> DeepReadable(y)]
  BY <1>1, <1>3
<1> QED BY <1>1, <1>4 DEF ReadableSystem

\* And its node is written as below.
LEMMA WrittenAlike ==
  ASSUME NEW o \in Object
  PROVE  SystemMembers(DeepRead(o)) = DeepMembers(DeepRead(o))
<1>1. ASSUME NEW x \in Object
      PROVE  LET n == DeepRead(x)
             IN  /\ DeepMembers(n) = MembersFrom(n, [y \in NodesIn(n) |-> DeepMembers(y)])
                 /\ \A y \in NodesIn(n) : \E z \in Object : y = DeepRead(z)
  <2> DEFINE n == DeepRead(x)
             inner == [y \in Inside(x) |-> DeepRead(y)]
  <2>1. /\ AreMembers(x) /\ Inside(x) \subseteq Object
        /\ DeepMembers(n) = MembersFrom(n, [y \in NodesIn(n) |-> DeepMembers(y)])
        /\ n = NodeFrom(x, inner)
    BY TreeAssumption
  <2>2. ASSUME NEW y \in NodesIn(n) PROVE \E z \in Object : y = DeepRead(z)
    <3> HIDE DEF n, inner
    <3>1. PICK z \in Inside(x) : y = inner[z]
      BY <2>1, <2>2, NodesAreRead
    <3> QED BY <2>1, <3>1 DEF inner
  <2> QED BY <2>1, <2>2
<1>2. ASSUME NEW x \in Object PROVE DeviceMembers(DeepRead(x)) = DeepMembers(DeepRead(x))
  BY <1>1 DEF DeviceMembers
<1>3. ASSUME NEW x \in Object PROVE FlowMembers(DeepRead(x)) = DeepMembers(DeepRead(x))
  <2> DEFINE n == DeepRead(x)
  <2>1. [y \in NodesIn(n) |-> DeviceMembers(y)] = [y \in NodesIn(n) |-> DeepMembers(y)]
    BY <1>1, <1>2
  <2> QED BY <1>1, <2>1 DEF FlowMembers
<1> DEFINE n == DeepRead(o)
<1>4. [y \in NodesIn(n) |-> FlowMembers(y)] = [y \in NodesIn(n) |-> DeepMembers(y)]
  BY <1>1, <1>3
<1> QED BY <1>1, <1>4 DEF SystemMembers

-----------------------------------------------------------------------------
(* A text beside the watering system, read and written *)

\* What becomes of it.
Back(m)  == [o \in Inside(m) |-> DeepMembers(DeepRead(o))]
Again(m) == AgainWith(m, Back(m))

\* The text of an object.
LEMMA ObjectAgain == ASSUME NEW o \in Object PROVE DeepMembers(DeepRead(o)) = Again(o)
<1> DEFINE inner == [x \in Inside(o) |-> DeepRead(x)]
           n == NodeFrom(o, inner)
           outer == [x \in NodesIn(n) |-> DeepMembers(x)]
<1>1. AreMembers(o) /\ DeepRead(o) = n
  BY TreeAssumption
<1>2. DeepMembers(n) = MembersFrom(n, outer)
  BY TreeAssumption
<1>3. \A x \in Inside(o) : inner[x] \in NodesIn(n) => outer[inner[x]] = Back(o)[x]
  BY DEF Back
<1>4. \A k \in DOMAIN o : IsJson(o[k])
  BY <1>1 DEF AreMembers
<1> HIDE DEF inner, outer
<1>5. MembersFrom(n, outer) = Again(o)
  <2>1. MembersFrom(n, outer) = AgainWith(o, Back(o))
    <3> DEFINE N == n
    <3>1. N = NodeFrom(o, inner)
      OBVIOUS
    <3> HIDE DEF N
    <3> QED BY <1>3, <1>4, <3>1, WrittenBack
  <2> QED BY <2>1 DEF Again, AgainWith
<1> QED BY <1>1, <1>2, <1>5

\* The text of a project whose objects are all of that kind.
LEMMA TextAgain ==
  ASSUME NEW m, AreMembers(m), Inside(m) \subseteq Object
  PROVE  MembersOf(ReadNode(m)) = Again(m)
<1> DEFINE inner == [x \in Inside(m) |-> ReadSystem(x)]
           n == NodeFrom(m, inner)
           outer == [x \in NodesIn(n) |-> SystemMembers(x)]
<1>1. \A k \in DOMAIN m : IsJson(m[k])
  BY DEF AreMembers
<1>2. ASSUME NEW x \in Inside(m), inner[x] \in NodesIn(n) PROVE outer[inner[x]] = Back(m)[x]
  <2>1. inner[x] = DeepRead(x)
    BY ReadAlike
  <2>2. outer[inner[x]] = DeepMembers(DeepRead(x))
    BY <1>2, <2>1, WrittenAlike
  <2> QED BY <2>2 DEF Back
<1>3. ReadNode(m) = n /\ MembersOf(n) = MembersFrom(n, outer)
  BY DEF ReadNode, MembersOf
<1> HIDE DEF inner, outer
<1>4. MembersFrom(n, outer) = Again(m)
  <2>1. MembersFrom(n, outer) = AgainWith(m, Back(m))
    <3> DEFINE N == n
    <3>1. N = NodeFrom(m, inner)
      OBVIOUS
    <3> HIDE DEF N
    <3>2. \A o \in Inside(m) : inner[o] \in NodesIn(N) => outer[inner[o]] = Back(m)[o]
      BY <1>2, <3>1
    <3> QED BY <1>1, <3>1, <3>2, WrittenBack
  <2> QED BY <2>1 DEF Again, AgainWith
<1> QED BY <1>3, <1>4

\* It is a text again.
LEMMA TextAgainIsText ==
  ASSUME NEW m, AreMembers(m), Inside(m) \subseteq Object
  PROVE  /\ AreMembers(Again(m)) /\ DOMAIN Again(m) \subseteq DOMAIN m
         /\ Inside(Again(m)) \subseteq {Again(o) : o \in Inside(m)}
         /\ Inside(Again(m)) \subseteq Object
         /\ \A o \in Inside(m) : Back(m)[o] = Again(o)
<1> DEFINE w == Again(m)
<1>1. \A o \in Inside(m) : Back(m)[o] = Again(o) /\ Back(m)[o] \in Object
  BY ObjectAgain, TreeAssumption DEF Back
<1>2. /\ w = [k \in DOMAIN w |-> w[k]] /\ DOMAIN w = {k \in DOMAIN m : ~IsEmptyArray(m[k])}
      /\ \A k \in DOMAIN w : w[k] = Rewritten(m[k], Back(m))
  BY DEF Again, AgainWith
<1> HIDE DEF w
<1>3. ASSUME NEW k \in DOMAIN w
      PROVE  IsJson(w[k]) /\ ObjectsIn(w[k]) \subseteq {Back(m)[o] : o \in ObjectsIn(m[k])}
                          /\ ObjectsIn(m[k]) \subseteq Inside(m)
  <2>1. k \in DOMAIN m /\ IsJson(m[k]) /\ ~IsEmptyArray(m[k]) /\ w[k] = Rewritten(m[k], Back(m))
    BY <1>2 DEF AreMembers
  <2> QED BY <2>1, JsonAgain, MemberInside
<1>4. \A k \in DOMAIN w : ObjectsIn(w[k]) \subseteq {Back(m)[o] : o \in Inside(m)}
  BY <1>3
<1>5. Inside(w) \subseteq {Back(m)[o] : o \in Inside(m)}
  BY <1>4 DEF Inside
<1> QED BY <1>1, <1>2, <1>3, <1>5 DEF AreMembers, w

-----------------------------------------------------------------------------
(* What is kept *)

\* The two properties of an object pass to the objects in it.
LEMMA WholeInside ==
  ASSUME NEW o \in Object
  PROVE  /\ IsWhole(o) <=> ArePlain(o) /\ \A x \in Inside(o) : IsWhole(x)
         /\ IsSolid(o) <=> (\E k \in DOMAIN o : ~IsEmptyArray(o[k])) /\ \A x \in Inside(o) : IsSolid(x)
<1>1. Within(o) = Inside(o) \cup UNION {Within(x) : x \in Inside(o)}
  BY TreeAssumption
<1> DEFINE All == {o} \cup Within(o)
<1>2. /\ o \in All /\ \A x \in Inside(o) : {x} \cup Within(x) \subseteq All
      /\ \A y \in All : y = o \/ \E x \in Inside(o) : y \in {x} \cup Within(x)
  BY <1>1
<1> HIDE DEF All
<1>3. IsWhole(o) <=> \A y \in All : ArePlain(y)
  BY DEF IsWhole, All
<1>4. IsSolid(o) <=> \A y \in All : \E k \in DOMAIN y : ~IsEmptyArray(y[k])
  BY DEF IsSolid, All
<1>5. \A x \in Inside(o) : IsWhole(x) <=> \A y \in {x} \cup Within(x) : ArePlain(y)
  BY DEF IsWhole
<1>6. \A x \in Inside(o) : IsSolid(x) <=> \A y \in {x} \cup Within(x) : \E k \in DOMAIN y : ~IsEmptyArray(y[k])
  BY DEF IsSolid
<1>7. IsWhole(o) <=> ArePlain(o) /\ \A x \in Inside(o) : IsWhole(x)
  BY <1>2, <1>3, <1>5
<1>8. IsSolid(o) <=> (\E k \in DOMAIN o : ~IsEmptyArray(o[k])) /\ \A x \in Inside(o) : IsSolid(x)
  BY <1>2, <1>4, <1>6
<1> QED BY <1>7, <1>8

\* A plain text whose objects come back as they were comes back as it was.
LEMMA MemberAgain ==
  ASSUME NEW m, AreMembers(m), Inside(m) \subseteq Object, NEW k \in DOMAIN m, IsPlain(m[k]),
         \A o \in ObjectsIn(m[k]) : Again(o) = o /\ o # Nothing
  PROVE  k \in DOMAIN Again(m) /\ Again(m)[k] = m[k]
<1>1. k \in DOMAIN Again(m) /\ Again(m)[k] = Rewritten(m[k], Back(m))
  BY DEF Again, AgainWith, IsPlain
<1>2. \A o \in ObjectsIn(m[k]) : Back(m)[o] = o /\ o # Nothing
  BY MemberInside, TextAgainIsText
<1>3. IsJson(m[k])
  BY DEF AreMembers
<1> QED BY <1>1, <1>2, <1>3, SameIfPlain

\* A whole object comes back as it was, and can be read.
LEMMA WholeAgain == \A o \in Object : IsWhole(o) => Again(o) = o /\ o # Nothing /\ DeepReadable(o)
<1> DEFINE S == {o \in Object : IsWhole(o) => Again(o) = o /\ o # Nothing /\ DeepReadable(o)}
<1>1. ASSUME NEW o \in Object, Inside(o) \subseteq S PROVE o \in S
  <2> SUFFICES ASSUME IsWhole(o) PROVE Again(o) = o /\ o # Nothing /\ DeepReadable(o)
    OBVIOUS
  <2>1. ArePlain(o) /\ \A x \in Inside(o) : IsWhole(x)
    BY WholeInside
  <2>2. \A x \in Inside(o) : Again(x) = x /\ x # Nothing /\ DeepReadable(x)
    BY <1>1, <2>1
  <2>3. AreMembers(o) /\ Inside(o) \subseteq Object
    BY TreeAssumption
  <2> HIDE DEF S
  <2>4. \A k \in DOMAIN o : k \in DOMAIN Again(o) /\ Again(o)[k] = o[k]
    BY <2>1, <2>2, <2>3, MemberAgain, MemberInside DEF ArePlain
  <2>5. Again(o) = o
    <3>1. DOMAIN Again(o) = DOMAIN o /\ Again(o) = [k \in DOMAIN Again(o) |-> Again(o)[k]]
      BY <2>4 DEF Again, AgainWith
    <3>2. o = [k \in DOMAIN o |-> o[k]]
      BY <2>3 DEF AreMembers
    <3> QED BY <2>4, <3>1, <3>2
  <2>6. DeepReadable(o)
    <3>1. DeepReadable(o) = ReadableFrom(o, [x \in Inside(o) |-> DeepReadable(x)])
      BY TreeAssumption
    <3>2. ASSUME NEW k \in DOMAIN o, NEW v \in Elements(o[k])
          PROVE  IF IsObject(v) THEN v[2] \in Inside(o) ELSE ~IsArray(v) /\ v # Null
      <4>1. IsObject(v) => v[2] \in ObjectsIn(o[k])
        BY DEF ObjectsIn
      <4> QED BY <2>1, <4>1, MemberInside DEF ArePlain, IsPlain
    <3> QED BY <2>2, <3>1, <3>2 DEF ReadableFrom
  <2> QED BY <2>1, <2>5, <2>6 DEF ArePlain
<1> HIDE DEF S
<1>2. Object \subseteq S
  BY <1>1, FromInside
<1> QED BY <1>2 DEF S

\* A solid object that can be read is whole when it is written.
LEMMA SolidAgain ==
  \A o \in Object : IsSolid(o) /\ DeepReadable(o) => Again(o) # Nothing /\ IsWhole(Again(o))
<1> DEFINE S == {o \in Object : IsSolid(o) /\ DeepReadable(o) => Again(o) # Nothing /\ IsWhole(Again(o))}
<1>1. ASSUME NEW o \in Object, Inside(o) \subseteq S PROVE o \in S
  <2> SUFFICES ASSUME IsSolid(o), DeepReadable(o) PROVE Again(o) # Nothing /\ IsWhole(Again(o))
    OBVIOUS
  <2>1. (\E k \in DOMAIN o : ~IsEmptyArray(o[k])) /\ \A x \in Inside(o) : IsSolid(x)
    BY WholeInside
  <2>2. /\ AreMembers(o) /\ Inside(o) \subseteq Object
        /\ DeepReadable(o) = ReadableFrom(o, [x \in Inside(o) |-> DeepReadable(x)])
    BY TreeAssumption
  <2>3. ASSUME NEW k \in DOMAIN o, NEW v \in Elements(o[k])
        PROVE  IF IsObject(v) THEN v[2] \in Inside(o) /\ DeepReadable(v[2]) ELSE ~IsArray(v) /\ v # Null
    <3>1. IsObject(v) => v[2] \in Inside(o)
      BY MemberInside DEF ObjectsIn
    <3> QED BY <2>2, <3>1 DEF ReadableFrom
  <2>4. \A x \in Inside(o) : DeepReadable(x)
    BY <2>3 DEF Inside, ObjectsIn
  <2>5. \A x \in Inside(o) : Again(x) # Nothing /\ IsWhole(Again(x))
    BY <1>1, <2>1, <2>4
  <2> HIDE DEF S
  <2>6. \A k \in DOMAIN o : IsReadableValue(o[k])
    BY <2>3 DEF IsReadableValue
  <2>7. ASSUME NEW k \in DOMAIN Again(o) PROVE IsPlain(Again(o)[k])
    <3>1. k \in DOMAIN o /\ ~IsEmptyArray(o[k]) /\ Again(o)[k] = Rewritten(o[k], Back(o)) /\ IsJson(o[k])
      BY <2>2 DEF Again, AgainWith, AreMembers
    <3>2. \A x \in ObjectsIn(o[k]) : Back(o)[x] # Nothing
      BY <2>2, <2>5, <3>1, MemberInside, TextAgainIsText
    <3> QED BY <2>6, <3>1, <3>2, PlainAgain
  <2>8. Again(o) # Nothing
    <3>1. DOMAIN Again(o) # {} /\ DOMAIN Nothing = {}
      BY <2>1 DEF Again, AgainWith, Nothing
    <3> QED BY <3>1
  <2>9. Again(o) \in Object
    BY ObjectAgain, TreeAssumption
  <2>10. \A x \in Inside(Again(o)) : IsWhole(x)
    BY <2>2, <2>5, TextAgainIsText
  <2> QED BY <2>7, <2>8, <2>9, <2>10, WholeInside DEF ArePlain
<1> HIDE DEF S
<1>2. Object \subseteq S
  BY <1>1, FromInside
<1> QED BY <1>2 DEF S

-----------------------------------------------------------------------------
(* The watering system's data, written and read *)

\* The text of a device.
DeviceText(name, pin, state, isEnabled) ==
  [name |-> <<"string", name>>, pinID |-> <<"number", pin>>,
   activationState |-> <<"string", state>>, enabled |-> <<"bool", isEnabled>>]

\* What the writer makes of a device's node.
LEMMA DeviceWritten ==
  ASSUME NEW name, NEW pin, NEW state, NEW isEnabled
  PROVE  DeviceMembers(DeviceNode(name, pin, state, isEnabled))
           = DeviceText(name, pin, state, isEnabled)
<1> DEFINE n == DeviceNode(name, pin, state, isEnabled)
           keys == {"name", "pinID", "activationState", "enabled"}
<1>1. /\ DOMAIN n.values = keys /\ DOMAIN n.valueArrays = {}
      /\ DOMAIN n.objects = {} /\ DOMAIN n.objectArrays = {}
      /\ n.values["name"] = <<"string", name>> /\ n.values["pinID"] = <<"uint", pin>>
      /\ n.values["activationState"] = <<"string", state>>
      /\ n.values["enabled"] = <<"bool", isEnabled>>
  BY DEF DeviceNode, EmptyNode, Nothing
<1> HIDE DEF n
<1>2. DeviceMembers(n) = [k \in keys |-> Text(n.values[k])]
  BY <1>1 DEF DeviceMembers, MembersFrom, Over
<1>3. /\ Text(n.values["name"]) = <<"string", name>> /\ Text(n.values["pinID"]) = <<"number", pin>>
      /\ Text(n.values["activationState"]) = <<"string", state>>
      /\ Text(n.values["enabled"]) = <<"bool", isEnabled>>
  BY <1>1 DEF Text
<1> QED BY <1>2, <1>3 DEF n, DeviceText

\* What the reader makes of that text: each value with the type it is asked for.
LEMMA DeviceRead ==
  ASSUME NEW name, NEW pin \in Nat, NEW state, NEW isEnabled
  PROVE  LET n == ReadDevice(DeviceText(name, pin, state, isEnabled))
         IN  /\ Has(n, "name", "string") /\ ValueAt(n, "name") = name
             /\ Has(n, "pinID", "uint") /\ ValueAt(n, "pinID") = pin
             /\ Has(n, "activationState", "string") /\ ValueAt(n, "activationState") = state
             /\ Has(n, "enabled", "bool") /\ ValueAt(n, "enabled") = isEnabled
<1> DEFINE m == DeviceText(name, pin, state, isEnabled)
           n == ReadDevice(m)
<1>1. DOMAIN m = {"name", "pinID", "activationState", "enabled"}
  BY DEF DeviceText
<1>2. n.values = [k \in {k \in DOMAIN m : IsValue(m[k])} |-> Variant(m[k])]
  BY DEF ReadDevice, NodeFrom
<1>3. /\ m["name"] = <<"string", name>> /\ m["pinID"] = <<"number", pin>>
      /\ m["activationState"] = <<"string", state>> /\ m["enabled"] = <<"bool", isEnabled>>
  BY DEF DeviceText
<1> HIDE DEF m, n
<1>4. \A k \in DOMAIN m : ~IsArray(m[k]) /\ ~IsObject(m[k])
  BY <1>1, <1>3 DEF IsArray, IsObject
<1>5. DOMAIN n.values = DOMAIN m /\ \A k \in DOMAIN m : n.values[k] = Variant(m[k])
  BY <1>2, <1>4 DEF IsValue
<1>6. /\ n.values["name"] = <<"string", name>> /\ n.values["pinID"] = <<"uint", pin>>
      /\ n.values["activationState"] = <<"string", state>>
      /\ n.values["enabled"] = <<"bool", isEnabled>>
  BY <1>1, <1>3, <1>5 DEF Variant
<1> QED BY <1>1, <1>5, <1>6 DEF Has, ValueAt, n, m

\* The reader does not throw on it.
LEMMA DeviceReadable ==
  ASSUME NEW name, NEW pin, NEW state, NEW isEnabled
  PROVE  ReadableDevice(DeviceText(name, pin, state, isEnabled))
<1> DEFINE m == DeviceText(name, pin, state, isEnabled)
<1>1. ASSUME NEW k \in DOMAIN m PROVE m[k][1] \in {"string", "number", "bool"}
  BY DEF DeviceText
<1> HIDE DEF m
<1>2. ASSUME NEW k \in DOMAIN m PROVE ~IsArray(m[k]) /\ ~IsObject(m[k]) /\ m[k] # Null
  BY <1>1 DEF IsArray, IsObject, Null
<1>3. ReadableDevice(m)
  BY <1>2 DEF ReadableDevice, ReadableFrom, Elements
<1> QED BY <1>3 DEF m

\* The texts of a configuration.
DeviceTextOf(c, d) ==
  DeviceText(d, c.device[d].pin, StateText(c.device[d].high), c.device[d].enabled)

DevicesText(c) ==
  <<<<"object", DeviceTextOf(c, "waterValve")>>, <<"object", DeviceTextOf(c, "waterPump")>>>>

FlowText(c) ==
  [k \in Duration \cup {"devices"} |->
     IF k = "devices" THEN <<"array", DevicesText(c)>> ELSE <<"number", c.time[k]>>]

SystemText(c) ==
  [mode |-> <<"string", "cycled">>, name |-> <<"string", c.name>>, flow |-> <<"object", FlowText(c)>>]

\* None of the nodes is empty, which would be written as null.
LEMMA TextsAreSomething ==
  ASSUME NEW c, NEW d
  PROVE  DeviceTextOf(c, d) # Nothing /\ FlowText(c) # Nothing /\ SystemText(c) # Nothing
<1>1. "name" \in DOMAIN DeviceTextOf(c, d)
  BY DEF DeviceTextOf, DeviceText
<1>2. "devices" \in DOMAIN FlowText(c)
  BY DEF FlowText
<1>3. "mode" \in DOMAIN SystemText(c)
  BY DEF SystemText
<1>4. DOMAIN Nothing = {}
  BY DEF Nothing
<1> QED BY <1>1, <1>2, <1>3, <1>4

\* What the writer makes of the watering system's node, level by level.
LEMMA SystemWritten ==
  ASSUME NEW c
  PROVE  SystemMembers(AWSNode(c)) = SystemText(c)
<1> DEFINE DeviceOf(d) == DeviceNode(d, c.device[d].pin, StateText(c.device[d].high), c.device[d].enabled)
           devices == <<DeviceOf("waterValve"), DeviceOf("waterPump")>>
           flow == [EmptyNode EXCEPT !.values = [t \in Duration |-> <<"int", c.time[t]>>],
                                     !.objectArrays = [devices |-> devices]]
           a == AWSNode(c)
<1>1. \A d : DeviceMembers(DeviceOf(d)) = DeviceTextOf(c, d)
  BY DeviceWritten DEF DeviceTextOf
<1>2. /\ flow.values = [t \in Duration |-> <<"int", c.time[t]>>]
      /\ flow.objectArrays = [devices |-> devices]
      /\ DOMAIN flow.valueArrays = {} /\ DOMAIN flow.objects = {}
  BY DEF EmptyNode, Nothing
<1>3. /\ a.values = [mode |-> <<"string", "cycled">>, name |-> <<"string", c.name>>]
      /\ a.objects = [flow |-> flow]
      /\ DOMAIN a.valueArrays = {} /\ DOMAIN a.objectArrays = {}
  BY DEF AWSNode, EmptyNode, Nothing
<1>4. FlowMembers(flow) = FlowText(c)
  <2> DEFINE outer == [n \in NodesIn(flow) |-> DeviceMembers(n)]
             w == MembersFrom(flow, outer)
             m == FlowText(c)
  <2>0. /\ DOMAIN flow.objectArrays = {"devices"} /\ flow.objectArrays["devices"] = devices
        /\ DOMAIN flow.values = Duration
    BY <1>2
  <2> HIDE DEF flow
  <2>1. \A i \in DOMAIN devices : outer[devices[i]] = DeviceMembers(devices[i])
    BY <2>0 DEF NodesIn
  <2>2. ObjectsText(devices, outer) = <<"array", DevicesText(c)>>
    <3>1. DOMAIN devices = {1, 2}
      OBVIOUS
    <3>2. /\ ObjectText(outer[devices[1]]) = <<"object", DeviceTextOf(c, "waterValve")>>
          /\ ObjectText(outer[devices[2]]) = <<"object", DeviceTextOf(c, "waterPump")>>
      BY <1>1, <2>1, TextsAreSomething DEF ObjectText
    <3> HIDE DEF devices, outer
    <3>3. [i \in {1, 2} |-> ObjectText(outer[devices[i]])] = DevicesText(c)
      BY <3>2 DEF DevicesText
    <3> QED BY <3>1, <3>3 DEF ObjectsText
  <2>3. /\ w = [k \in DOMAIN w |-> w[k]]
        /\ DOMAIN w = DOMAIN flow.values \cup DOMAIN flow.valueArrays
                        \cup DOMAIN flow.objects \cup DOMAIN flow.objectArrays
        /\ \A k \in DOMAIN w : w[k] = MemberText(flow, outer, k)
    BY MembersAt
  <2>4. w = FlowMembers(flow)
    BY DEF FlowMembers
  <2> HIDE DEF w, outer, devices
  <2>5. DOMAIN w = Duration \cup {"devices"} /\ "devices" \notin Duration
    BY <1>2, <2>0, <2>3 DEF Duration
  <2>6. w["devices"] = <<"array", DevicesText(c)>>
    BY <2>0, <2>2, <2>3, <2>5 DEF MemberText
  <2>7. ASSUME NEW t \in Duration PROVE w[t] = <<"number", c.time[t]>>
    <3>1. /\ t \notin DOMAIN flow.objectArrays /\ t \notin DOMAIN flow.objects
          /\ t \notin DOMAIN flow.valueArrays /\ t \in DOMAIN w
      BY <1>2, <2>0, <2>5
    <3>2. w[t] = Text(flow.values[t])
      BY <2>3, <3>1 DEF MemberText
    <3> QED BY <1>2, <3>2 DEF Text
  <2>8. /\ DOMAIN m = Duration \cup {"devices"} /\ m = [k \in DOMAIN m |-> m[k]]
        /\ m["devices"] = <<"array", DevicesText(c)>> /\ \A t \in Duration : m[t] = <<"number", c.time[t]>>
    BY <2>5 DEF FlowText
  <2> HIDE DEF m
  <2>9. w = m
    BY <2>3, <2>5, <2>6, <2>7, <2>8
  <2> QED BY <2>4, <2>9 DEF m
<1>5. SystemMembers(a) =
        [k \in {"mode", "name", "flow"} |->
           IF k = "flow" THEN <<"object", FlowText(c)>> ELSE Text(a.values[k])]
  <2> DEFINE outer == [n \in NodesIn(a) |-> FlowMembers(n)]
             w == MembersFrom(a, outer)
  <2> HIDE DEF a, flow
  <2>1. DOMAIN a.values = {"mode", "name"} /\ DOMAIN a.objects = {"flow"} /\ a.objects["flow"] = flow
    BY <1>3
  <2>2. outer[flow] = FlowText(c)
    BY <1>4, <2>1 DEF NodesIn
  <2>3. /\ w = [k \in DOMAIN w |-> w[k]]
        /\ DOMAIN w = DOMAIN a.values \cup DOMAIN a.valueArrays \cup DOMAIN a.objects \cup DOMAIN a.objectArrays
        /\ \A k \in DOMAIN w : w[k] = MemberText(a, outer, k)
    BY MembersAt
  <2>4. w = SystemMembers(a)
    BY DEF SystemMembers
  <2> HIDE DEF w, outer
  <2>5. DOMAIN w = {"mode", "name", "flow"}
    BY <1>3, <2>1, <2>3
  <2>6. w["flow"] = <<"object", FlowText(c)>>
    BY <1>3, <2>1, <2>2, <2>3, <2>5, TextsAreSomething DEF MemberText, ObjectText
  <2>7. \A k \in {"mode", "name"} : w[k] = Text(a.values[k])
    BY <1>3, <2>1, <2>3, <2>5 DEF MemberText
  <2> QED BY <2>3, <2>4, <2>5, <2>6, <2>7
<1>6. /\ Text(a.values["mode"]) = <<"string", "cycled">> /\ Text(a.values["name"]) = <<"string", c.name>>
  BY <1>3 DEF Text
<1> HIDE DEF a
<1> QED BY <1>5, <1>6 DEF SystemText, a

\* The reader does not throw on that.
LEMMA SystemReadable ==
  ASSUME NEW c
  PROVE  ReadableSystem(SystemText(c))
<1>1. \A d : ReadableDevice(DeviceTextOf(c, d))
  BY DeviceReadable DEF DeviceTextOf
<1>2. ReadableFlow(FlowText(c))
  <2> DEFINE m == FlowText(c)
             v == DevicesText(c)
  <2>1. DOMAIN m = Duration \cup {"devices"} /\ m["devices"] = <<"array", v>>
        /\ \A t \in Duration : m[t] = <<"number", c.time[t]>>
    BY DEF FlowText, Duration
  <2>2. \A i \in DOMAIN v : v[i] = <<"object", v[i][2]>> /\ ReadableDevice(v[i][2])
    BY <1>1 DEF DevicesText
  <2> HIDE DEF m, v
  <2>3. ASSUME NEW k \in Duration, NEW x \in Elements(m[k])
        PROVE  ~IsArray(x) /\ ~IsObject(x) /\ x # Null
    BY <2>1 DEF Elements, IsArray, IsObject, Null
  <2>4. ASSUME NEW x \in Elements(m["devices"]) PROVE IsObject(x) /\ ReadableDevice(x[2])
    BY <2>1, <2>2 DEF Elements, IsArray, IsObject
  <2>5. \A k \in DOMAIN m : \A x \in Elements(m[k]) : IsObject(x) => x[2] \in Inside(m)
    BY DEF Inside, ObjectsIn
  <2>6. ReadableFlow(m)
    BY <2>1, <2>3, <2>4, <2>5 DEF ReadableFlow, ReadableFrom
  <2> QED BY <2>6 DEF m
<1> DEFINE s == SystemText(c)
<1>3. DOMAIN s = {"mode", "name", "flow"} /\ s["mode"] = <<"string", "cycled">>
      /\ s["name"] = <<"string", c.name>> /\ s["flow"] = <<"object", FlowText(c)>>
  BY DEF SystemText
<1> HIDE DEF s
<1>4. \A k \in DOMAIN s : Elements(s[k]) = {s[k]} /\ ~IsArray(s[k]) /\ s[k] # Null
                          /\ (IsObject(s[k]) => ReadableFlow(s[k][2]) /\ s[k][2] \in Inside(s))
  <2>1. \A k \in DOMAIN s : ~IsArray(s[k]) /\ s[k] # Null /\ (IsObject(s[k]) => ReadableFlow(s[k][2]))
    BY <1>2, <1>3 DEF IsArray, IsObject, Null
  <2> QED BY <2>1, MemberInside DEF Elements
<1>5. ReadableSystem(s)
  BY <1>4 DEF ReadableSystem, ReadableFrom
<1> QED BY <1>5 DEF s

-----------------------------------------------------------------------------
(* The types of what is loaded *)

\* The last of a list's devices is one of them.
LEMMA GreatestIsOne ==
  ASSUME NEW n \in Nat, NEW S, S \subseteq 1 .. n, S # {}
  PROVE  Greatest(S) \in S
<1> DEFINE T == {n - i : i \in S}
<1>1. T \subseteq Nat /\ T # {}
  <2>1. \A i \in S : n - i \in Nat
    OBVIOUS
  <2> QED BY <2>1
<1>2. PICK x \in T : \A y \in T : <<y, x>> \notin OpToRel(<, Nat)
  BY <1>1, WFMin, NatLessThanWellFounded
<1>3. PICK i \in S : x = n - i
  OBVIOUS
<1>4. ASSUME NEW k \in S PROVE k <= i
  <2>1. n - k \in T
    OBVIOUS
  <2>2. ~(n - k < n - i)
    BY <1>1, <1>2, <1>3, <2>1 DEF OpToRel
  <2> QED BY <1>3, <2>2
<1> QED BY <1>3, <1>4 DEF Greatest

\* What loadConfigFromProject leaves is a configuration.
LEMMA LoadTyped ==
  ASSUME NEW node, HasTypes(node), NEW old, IsConfiguration(old)
  PROVE  IsConfiguration(AfterLoad(node, old))
<1> DEFINE a == AWSOf(node)
           flow == a.objects["flow"]
           devices == flow.objectArrays["devices"]
<1> SUFFICES ASSUME HasAWS(node), IsApplied(a)
             PROVE  IsConfiguration(AfterLoad(node, old))
  BY DEF AfterLoad
<1>1. HasFlow(a) /\ FlowIsValid(flow) /\ HasNumbers(flow)
  BY DEF IsApplied, HasTypes
<1>2. ASSUME NEW t \in Duration PROVE Signed(ValueAt(flow, t)) \in -Half .. Half - 1
  BY <1>1, WidthAssumption DEF FlowIsValid, HasNumbers, Signed, Has
<1>3. ASSUME NEW d \in Device
      PROVE  AppliedDevice(flow, d, old.device[d])
               \in [enabled : BOOLEAN, pin : 0 .. PinModulus - 1, high : BOOLEAN]
  <2> DEFINE named == {i \in DOMAIN devices : ValueAt(devices[i], "name") = d}
             n == devices[Greatest(named)]
             known == {i \in named :
                         ValueAt(devices[i], "activationState") \in {"Active High", "Active Low"}}
             high == known # {} /\ ValueAt(devices[Greatest(known)], "activationState") = "Active High"
  <2>1. Len(devices) \in Nat /\ DOMAIN devices = 1 .. Len(devices)
    BY <1>1 DEF FlowIsValid, HasNumbers
  <2>2. ASSUME named # {} PROVE Greatest(named) \in DOMAIN devices
    <3>1. named \subseteq 1 .. Len(devices)
      BY <2>1
    <3> HIDE DEF named
    <3> QED BY <2>1, <2>2, <3>1, GreatestIsOne
  <2>3. ASSUME named # {} PROVE ValueAt(n, "pinID") \in Nat
    BY <1>1, <2>2, <2>3 DEF FlowIsValid, DeviceIsValid, HasNumbers
  <2>4. AppliedDevice(flow, d, old.device[d]) =
          IF named = {} \/ ~ValueAt(n, "enabled")
            THEN [old.device[d] EXCEPT !.enabled = FALSE]
            ELSE [enabled |-> TRUE, pin |-> ValueAt(n, "pinID") % PinModulus, high |-> high]
    BY Zenon DEF AppliedDevice
  <2>5. old.device[d] \in [enabled : BOOLEAN, pin : 0 .. PinModulus - 1, high : BOOLEAN]
    BY DEF IsConfiguration
  <2>6. ASSUME NEW x \in Nat PROVE x % PinModulus \in 0 .. PinModulus - 1
    BY WidthAssumption
  <2>k. high \in BOOLEAN
    OBVIOUS
  <2> HIDE DEF named, n, known, high
  <2>7. CASE named = {} \/ ~ValueAt(n, "enabled")
    BY <2>4, <2>5, <2>7
  <2>8. CASE ~(named = {} \/ ~ValueAt(n, "enabled"))
    <3> DEFINE pin == ValueAt(n, "pinID") % PinModulus
    <3>1. pin \in 0 .. PinModulus - 1
      BY <2>3, <2>6, <2>8
    <3>2. AppliedDevice(flow, d, old.device[d]) = [enabled |-> TRUE, pin |-> pin, high |-> high]
      BY <2>4, <2>8, Zenon
    <3> HIDE DEF pin
    <3> QED BY <2>k, <3>1, <3>2
  <2> QED BY <2>7, <2>8
<1>4. AfterLoad(node, old) =
        [device |-> [d \in Device |-> AppliedDevice(flow, d, old.device[d])],
         time   |-> [t \in Duration |-> Signed(ValueAt(flow, t))],
         name   |-> NameOf(a, old.name)]
  BY DEF AfterLoad
<1> QED BY <1>2, <1>3, <1>4 DEF IsConfiguration

\* A flow that was written is read with its durations, of which those below 0
\* are signed numbers, and with its two devices.
LEMMA FlowRead ==
  ASSUME NEW c, IsConfiguration(c)
  PROVE  LET flow == ReadFlow(FlowText(c))
         IN  /\ DOMAIN flow.values = Duration
             /\ \A t \in Duration :
                  flow.values[t] = <<IF c.time[t] >= 0 THEN "uint" ELSE "int", c.time[t]>>
             /\ "devices" \in DOMAIN flow.objectArrays
             /\ flow.objectArrays["devices"] = <<ReadDevice(DeviceTextOf(c, "waterValve")),
                                                 ReadDevice(DeviceTextOf(c, "waterPump"))>>
<1> DEFINE m == FlowText(c)
           v == DevicesText(c)
           inner == [o \in Inside(m) |-> ReadDevice(o)]
           n == ReadFlow(m)
<1>1. /\ DOMAIN m = Duration \cup {"devices"} /\ m["devices"] = <<"array", v>>
      /\ \A t \in Duration : m[t] = <<"number", c.time[t]>>
  BY DEF FlowText, Duration
<1>2. /\ DOMAIN v = {1, 2} /\ v # <<>> /\ v \in Seq({v[1], v[2]})
      /\ v[1] = <<"object", DeviceTextOf(c, "waterValve")>>
      /\ v[2] = <<"object", DeviceTextOf(c, "waterPump")>>
  BY DEF DevicesText
<1>0. ReadsAs(m, inner, n)
  BY NodeAt DEF ReadFlow
<1> HIDE DEF m, v, n
<1>3. \A i \in DOMAIN v : IsObject(v[i])
  BY <1>2 DEF IsObject
<1>4. Objects(v) = v
  BY <1>2, <1>3, ObjectsOfSequence
<1>5. IsArray(m["devices"]) /\ m["devices"][2] = v /\ HasObjects(m["devices"]) /\ ~IsValue(m["devices"])
  BY <1>1, <1>2, <1>3 DEF IsArray, HasObjects, IsValue
<1>6. ASSUME NEW t \in Duration
      PROVE  /\ t \in DOMAIN n.values
             /\ n.values[t] = <<IF c.time[t] >= 0 THEN "uint" ELSE "int", c.time[t]>>
  <2>1. m[t] = <<"number", c.time[t]>> /\ t \in DOMAIN m
    BY <1>1
  <2>2. IsValue(m[t]) /\ Variant(m[t]) = <<IF c.time[t] >= 0 THEN "uint" ELSE "int", c.time[t]>>
    BY <2>1 DEF IsArray, IsObject, IsValue, Variant
  <2> QED BY <1>0, <2>1, <2>2 DEF ReadsAs
<1>7. "devices" \in DOMAIN n.objectArrays /\ n.objectArrays["devices"] = [i \in DOMAIN v |-> inner[v[i][2]]]
  BY <1>0, <1>1, <1>4, <1>5 DEF ReadsAs
<1>8. DOMAIN n.values = Duration
  BY <1>0, <1>1, <1>5, <1>6 DEF ReadsAs
<1>9. ASSUME NEW i \in DOMAIN v PROVE inner[v[i][2]] = ReadDevice(v[i][2])
  <2>1. v[i] \in Elements(m["devices"])
    BY <1>5 DEF Elements
  <2>2. v[i][2] \in Inside(m)
    BY <1>1, <1>3, <2>1 DEF Inside, ObjectsIn
  <2> QED BY <2>2
<1>10. [i \in DOMAIN v |-> inner[v[i][2]]]
         = <<ReadDevice(DeviceTextOf(c, "waterValve")), ReadDevice(DeviceTextOf(c, "waterPump"))>>
  BY <1>2, <1>9
<1> HIDE DEF inner
<1> QED BY <1>6, <1>7, <1>8, <1>10 DEF n, m

\* And the watering system with its mode, its name and that flow.
LEMMA SystemRead ==
  ASSUME NEW c, IsConfiguration(c)
  PROVE  LET a == ReadSystem(SystemText(c))
         IN  /\ Has(a, "mode", "string") /\ ValueAt(a, "mode") = "cycled"
             /\ Has(a, "name", "string") /\ ValueAt(a, "name") = c.name
             /\ HasFlow(a) /\ a.objects["flow"] = ReadFlow(FlowText(c))
<1> DEFINE m == SystemText(c)
           inner == [o \in Inside(m) |-> ReadFlow(o)]
           n == ReadSystem(m)
<1>1. DOMAIN m = {"mode", "name", "flow"} /\ m["mode"] = <<"string", "cycled">>
      /\ m["name"] = <<"string", c.name>> /\ m["flow"] = <<"object", FlowText(c)>>
  BY DEF SystemText
<1>2. ReadsAs(m, inner, n)
  BY NodeAt DEF ReadSystem
<1> HIDE DEF m, n
<1>3. ASSUME NEW k \in {"mode", "name"}
      PROVE  IsValue(m[k]) /\ Variant(m[k]) = m[k] /\ k \in DOMAIN m
  BY <1>1 DEF IsArray, IsObject, IsValue, Variant
<1>4. IsObject(m["flow"]) /\ m["flow"][2] = FlowText(c) /\ FlowText(c) \in Inside(m)
  <2>1. IsObject(m["flow"]) /\ m["flow"][2] = FlowText(c)
    BY <1>1 DEF IsObject
  <2> QED BY <1>1, <2>1, MemberInside
<1>5. /\ "mode" \in DOMAIN n.values /\ n.values["mode"] = m["mode"]
      /\ "name" \in DOMAIN n.values /\ n.values["name"] = m["name"]
  BY <1>2, <1>3 DEF ReadsAs
<1>6. "flow" \in DOMAIN n.objects /\ n.objects["flow"] = ReadFlow(FlowText(c))
  BY <1>1, <1>2, <1>4 DEF ReadsAs
<1> QED BY <1>1, <1>5, <1>6 DEF Has, ValueAt, HasFlow, n, m

\* A device after a load of the configuration c: one that is disabled keeps
\* what it was driven with.
DeviceAfter(c, old, d) ==
  IF c.device[d].enabled THEN c.device[d] ELSE [old.device[d] EXCEPT !.enabled = FALSE]

\* A system that was written and read is applied without an exception, unless
\* one of its durations is below 0, and gives the configuration that was saved.
LEMMA SavedSystem ==
  ASSUME NEW c, IsConfiguration(c), NEW node, HasAWS(node), AWSOf(node) = ReadSystem(SystemText(c))
  PROVE  /\ ~LoadThrows(node) /\ HasTypes(node)
         /\ (\A t \in Duration : c.time[t] >= 0) =>
              /\ Moves(node)
              /\ \A old : IsConfiguration(old) =>
                   LET r == AfterLoad(node, old)
                   IN  /\ SameJob(r, c)
                       /\ \A d \in Device : r.device[d] = DeviceAfter(c, old, d)
<1> DEFINE a == AWSOf(node)
           flow == ReadFlow(FlowText(c))
           DeviceAt(d) == ReadDevice(DeviceTextOf(c, d))
           devices == <<DeviceAt("waterValve"), DeviceAt("waterPump")>>
           Unsigned == \A t \in Duration : c.time[t] >= 0
<1>1. /\ Has(a, "mode", "string") /\ ValueAt(a, "mode") = "cycled"
      /\ Has(a, "name", "string") /\ ValueAt(a, "name") = c.name
      /\ HasFlow(a) /\ a.objects["flow"] = flow
  BY SystemRead
<1>2. /\ DOMAIN flow.values = Duration
      /\ \A t \in Duration : flow.values[t] = <<IF c.time[t] >= 0 THEN "uint" ELSE "int", c.time[t]>>
      /\ "devices" \in DOMAIN flow.objectArrays /\ flow.objectArrays["devices"] = devices
  BY FlowRead
<1>3. ASSUME NEW d \in Device
      PROVE  LET n == DeviceAt(d)
             IN  /\ Has(n, "name", "string") /\ ValueAt(n, "name") = d
                 /\ Has(n, "pinID", "uint") /\ ValueAt(n, "pinID") = c.device[d].pin
                 /\ Has(n, "activationState", "string")
                 /\ ValueAt(n, "activationState") = StateText(c.device[d].high)
                 /\ Has(n, "enabled", "bool") /\ ValueAt(n, "enabled") = c.device[d].enabled
  <2>1. c.device[d].pin \in Nat
    BY WidthAssumption DEF IsConfiguration
  <2> QED BY <2>1, DeviceRead DEF DeviceTextOf
<1> HIDE DEF a, flow, DeviceAt
<1>4. ASSUME Unsigned PROVE FlowIsValid(flow)
  <2>1. ASSUME NEW i \in DOMAIN devices PROVE DeviceIsValid(devices[i])
    BY <1>3 DEF DeviceIsValid, Device
  <2>2. \A t \in Duration : Has(flow, t, "uint")
    BY <1>2, <1>4 DEF Has
  <2> QED BY <1>2, <2>1, <2>2 DEF FlowIsValid
<1>5. ~ModeThrows(a) /\ ~NameThrows(a) /\ (Unsigned => IsApplied(a))
  BY <1>1, <1>4 DEF IsApplied, ModeThrows, NameThrows
<1>6. ASSUME Unsigned, NEW old, IsConfiguration(old)
      PROVE  LET r == AfterLoad(node, old)
             IN  SameJob(r, c) /\ \A d \in Device : r.device[d] = DeviceAfter(c, old, d)
  <2> DEFINE r == AfterLoad(node, old)
  <2>1. r = [device |-> [d \in Device |-> AppliedDevice(flow, d, old.device[d])],
             time   |-> [t \in Duration |-> Signed(ValueAt(flow, t))],
             name   |-> NameOf(a, old.name)]
    BY <1>1, <1>5, <1>6 DEF AfterLoad, a
  <2>2. r.time = c.time
    <3>1. ASSUME NEW t \in Duration PROVE Signed(ValueAt(flow, t)) = c.time[t]
      <4>1. ValueAt(flow, t) = c.time[t]
        BY <1>2 DEF ValueAt
      <4>2. c.time[t] < Half
        BY WidthAssumption DEF IsConfiguration
      <4> QED BY <4>1, <4>2 DEF Signed
    <3> QED BY <2>1, <3>1 DEF IsConfiguration
  <2>3. r.name = c.name
    BY <1>1, <1>5, <2>1 DEF NameOf, Has
  <2>4. ASSUME NEW d \in Device PROVE r.device[d] = DeviceAfter(c, old, d)
    <3> DEFINE named == {i \in DOMAIN devices : ValueAt(devices[i], "name") = d}
               last == Greatest(named)
    <3>1. named = {IF d = "waterValve" THEN 1 ELSE 2}
      BY <1>3 DEF Device
    <3>2. last = IF d = "waterValve" THEN 1 ELSE 2
      BY <3>1 DEF Greatest
    <3>3. devices[last] = DeviceAt(d) /\ named # {}
      BY <3>1, <3>2 DEF Device
    <3>4. AppliedDevice(flow, d, old.device[d]) =
            IF ~c.device[d].enabled THEN [old.device[d] EXCEPT !.enabled = FALSE]
            ELSE [enabled |-> TRUE, pin |-> c.device[d].pin % PinModulus,
                  high |-> StateText(c.device[d].high) = "Active High"]
      <4> DEFINE there == flow.objectArrays["devices"]
                 namedThere == {i \in DOMAIN there : ValueAt(there[i], "name") = d}
                 known == {i \in namedThere :
                             ValueAt(there[i], "activationState") \in {"Active High", "Active Low"}}
                 n == there[Greatest(namedThere)]
                 k == there[Greatest(known)]
      <4>1. AppliedDevice(flow, d, old.device[d]) =
              IF namedThere = {} \/ ~ValueAt(n, "enabled")
                THEN [old.device[d] EXCEPT !.enabled = FALSE]
                ELSE [enabled |-> TRUE, pin |-> ValueAt(n, "pinID") % PinModulus,
                      high |-> known # {} /\ ValueAt(k, "activationState") = "Active High"]
        BY Zenon DEF AppliedDevice
      <4>2. there = devices
        BY <1>2
      <4>3. namedThere = named
        BY <4>2, Zenon
      <4>4. n = DeviceAt(d)
        BY <3>3, <4>2, <4>3
      <4>5. ValueAt(DeviceAt(d), "activationState") \in {"Active High", "Active Low"}
        BY <1>3 DEF StateText
      <4>6. known = named
        BY <3>1, <3>2, <3>3, <4>2, <4>3, <4>5
      <4> HIDE DEF named, namedThere, n, known
      <4>7. k = DeviceAt(d) /\ known # {}
        BY <3>3, <4>2, <4>6
      <4> HIDE DEF k
      <4> QED BY <1>3, <3>3, <4>1, <4>3, <4>4, <4>7
    <3>5. c.device[d] \in [enabled : BOOLEAN, pin : 0 .. PinModulus - 1, high : BOOLEAN]
      BY DEF IsConfiguration
    <3>6. c.device[d].pin % PinModulus = c.device[d].pin
      BY <3>5, WidthAssumption
    <3>7. (StateText(c.device[d].high) = "Active High") = c.device[d].high
      BY <3>5 DEF StateText
    <3>8. r.device[d] = AppliedDevice(flow, d, old.device[d])
      BY <2>1
    <3> HIDE DEF r, named, last
    <3> QED BY <3>4, <3>5, <3>6, <3>7, <3>8 DEF DeviceAfter
  <2> HIDE DEF r
  <2>5. ASSUME NEW d \in Device, ~c.device[d].enabled PROVE ~r.device[d].enabled
    <3>1. old.device[d] \in [enabled : BOOLEAN, pin : 0 .. PinModulus - 1, high : BOOLEAN]
      BY <1>6 DEF IsConfiguration
    <3> QED BY <2>4, <2>5, <3>1 DEF DeviceAfter
  <2>6. SameJob(r, c)
    BY <2>2, <2>3, <2>4, <2>5 DEF SameJob, DeviceAfter
  <2> QED BY <2>4, <2>6 DEF r
<1>7. HasNumbers(flow)
  <2>1. ASSUME NEW t \in Duration, Has(flow, t, "uint") PROVE ValueAt(flow, t) \in 0 .. 2 * Half - 1
    <3>1. flow.values[t] = <<IF c.time[t] >= 0 THEN "uint" ELSE "int", c.time[t]>>
          /\ c.time[t] \in -Half .. Half - 1
      BY <1>2 DEF IsConfiguration
    <3>2. c.time[t] >= 0 /\ ValueAt(flow, t) = c.time[t]
      BY <2>1, <3>1 DEF Has, ValueAt
    <3> QED BY <3>1, <3>2, WidthAssumption
  <2>2. \A d \in Device : OldKey[d].pin \notin Duration
    BY DEF OldKey, Duration, Device
  <2>3. Len(devices) \in Nat /\ DOMAIN devices = 1 .. Len(devices)
    OBVIOUS
  <2>4. ASSUME NEW i \in DOMAIN devices PROVE ValueAt(devices[i], "pinID") \in Nat
    <3>1. \A d \in Device : c.device[d].pin \in Nat
      BY WidthAssumption DEF IsConfiguration
    <3> QED BY <1>3, <3>1 DEF Device
  <2> HIDE DEF devices
  <2> QED BY <1>2, <2>1, <2>2, <2>3, <2>4 DEF HasNumbers, Has
<1>8. ~LoadThrows(node) /\ HasTypes(node) /\ (Unsigned => Moves(node))
  BY <1>1, <1>5, <1>7 DEF LoadThrows, HasTypes, Moves, a
<1> QED BY <1>6, <1>8

-----------------------------------------------------------------------------
(* The outputs *)

\* A load gives or takes outputs, one way or the other.
LEMMA MovedTyped ==
  ASSUME NEW c, NEW r, NEW l \in [Device -> BOOLEAN]
  PROVE  Moved(c, r, l) \in [Device -> BOOLEAN]
<1>1. ASSUME NEW b, NEW k \in [Device -> BOOLEAN], NEW d \in Device
      PROVE  MovedOne(d, b, r, k) \in [Device -> BOOLEAN]
  BY DEF MovedOne, Granted
<1> QED BY <1>1 DEF Moved, Device

\* If the pins are free both devices have their outputs after a load.
LEMMA MovedServes ==
  ASSUME NEW c, NEW b, NEW r, IsConfiguration(c), IsConfiguration(b),
         \A d \in Device : r.device[d] = DeviceAfter(c, b, d), PinsAreFree(c, b)
  PROVE  HasOutputs(Moved(b, r, AllOutputs))
<1> DEFINE Row == [enabled : BOOLEAN, pin : 0 .. PinModulus - 1, high : BOOLEAN]
<1>0. \A d \in Device : c.device[d] \in Row /\ b.device[d] \in Row
  BY DEF IsConfiguration
<1> DEFINE l == MovedOne("waterValve", b, r, AllOutputs)
<1>1. /\ r.device["waterValve"] = DeviceAfter(c, b, "waterValve")
      /\ r.device["waterPump"] = DeviceAfter(c, b, "waterPump")
  BY DEF Device
<1>2. \A d \in Device : (r.device[d].enabled <=> c.device[d].enabled)
                        /\ r.device[d].pin = IF c.device[d].enabled THEN c.device[d].pin ELSE b.device[d].pin
  BY <1>0 DEF DeviceAfter
<1>3. l = AllOutputs
  BY <1>2 DEF MovedOne, Granted, AllOutputs, Other, PinsAreFree, Device
<1>4. MovedOne("waterPump", r, r, AllOutputs) = AllOutputs
  BY <1>2 DEF MovedOne, Granted, AllOutputs, Other, PinsAreFree, Device
<1> QED BY <1>3, <1>4 DEF Moved, HasOutputs, AllOutputs

-----------------------------------------------------------------------------
(* The upgrade *)

\* A node that is read is a record of four maps, and so are the objects in it.
IsNode(n) ==
  n = [values |-> n.values, valueArrays |-> n.valueArrays,
       objects |-> n.objects, objectArrays |-> n.objectArrays]

\* The reader gives nodes.
LEMMA ReadIsNode ==
  ASSUME NEW m
  PROVE  LET n == ReadNode(m)
         IN  /\ IsNode(n) /\ n.objects = [k \in DOMAIN n.objects |-> n.objects[k]]
             /\ HasAWS(n) =>
                  /\ IsNode(AWSOf(n))
                  /\ AWSOf(n).objects = [k \in DOMAIN AWSOf(n).objects |-> AWSOf(n).objects[k]]
                  /\ HasFlow(AWSOf(n)) => IsNode(AWSOf(n).objects["flow"])
<1> DEFINE n == ReadNode(m)
<1>1. ASSUME NEW x, NEW node, NEW inner, ReadsAs(x, inner, node)
      PROVE  /\ IsNode(node) /\ node.objects = [k \in DOMAIN node.objects |-> node.objects[k]]
             /\ \A k \in DOMAIN node.objects : node.objects[k] = inner[x[k][2]] /\ x[k][2] \in Inside(x)
  BY <1>1, MemberInside DEF ReadsAs, IsNode
<1> HIDE DEF n
<1>2. /\ IsNode(n) /\ n.objects = [k \in DOMAIN n.objects |-> n.objects[k]]
      /\ \A k \in DOMAIN n.objects : \E s : n.objects[k] = ReadSystem(s)
  <2> DEFINE inner == [o \in Inside(m) |-> ReadSystem(o)]
  <2>1. ReadsAs(m, inner, n)
    BY NodeAt DEF ReadNode, n
  <2> HIDE DEF n, inner
  <2>2. \A k \in DOMAIN n.objects : n.objects[k] = inner[m[k][2]] /\ m[k][2] \in Inside(m)
    BY <1>1, <2>1
  <2> QED BY <1>1, <2>1, <2>2 DEF inner
<1>3. ASSUME HasAWS(n)
      PROVE  /\ IsNode(AWSOf(n))
             /\ AWSOf(n).objects = [k \in DOMAIN AWSOf(n).objects |-> AWSOf(n).objects[k]]
             /\ HasFlow(AWSOf(n)) => IsNode(AWSOf(n).objects["flow"])
  <2>1. PICK s : AWSOf(n) = ReadSystem(s)
    BY <1>2, <1>3 DEF HasAWS, AWSOf
  <2> DEFINE a == ReadSystem(s)
  <2>2. /\ IsNode(a) /\ a.objects = [k \in DOMAIN a.objects |-> a.objects[k]]
        /\ \A k \in DOMAIN a.objects : \E f : a.objects[k] = ReadFlow(f)
    <3> DEFINE inner == [o \in Inside(s) |-> ReadFlow(o)]
    <3>1. ReadsAs(s, inner, a)
      BY NodeAt DEF ReadSystem
    <3> HIDE DEF a, inner
    <3>2. \A k \in DOMAIN a.objects : a.objects[k] = inner[s[k][2]] /\ s[k][2] \in Inside(s)
      BY <1>1, <3>1
    <3> QED BY <1>1, <3>1, <3>2 DEF inner
  <2> HIDE DEF n, a
  <2>3. ASSUME HasFlow(a) PROVE IsNode(a.objects["flow"])
    <3>1. PICK f : a.objects["flow"] = ReadFlow(f)
      BY <2>2, <2>3 DEF HasFlow
    <3>2. IsNode(ReadFlow(f))
      <4> DEFINE inner == [o \in Inside(f) |-> ReadDevice(o)]
                 d == ReadFlow(f)
      <4>1. ReadsAs(f, inner, d)
        BY NodeAt DEF ReadFlow
      <4> HIDE DEF inner, d
      <4>2. IsNode(d)
        BY <1>1, <4>1
      <4> QED BY <4>2 DEF d
    <3> QED BY <3>1, <3>2
  <2> QED BY <2>1, <2>2, <2>3 DEF a
<1> QED BY <1>2, <1>3 DEF n

\* What the upgrade makes of a project: only the flow of the watering system
\* changes, and it has the types it had.
LEMMA FixedNode ==
  ASSUME NEW m, NEW v \in Version,
         LET p == [version |-> v, node |-> ReadNode(m)]
         IN  HasTypes(p.node) /\ ~UpgradeThrows(p)
  PROVE  LET n == ReadNode(m)
             p == Fixed([version |-> v, node |-> n])
         IN  /\ p = [version |-> p.version, node |-> p.node] /\ p.version \in {120, 130}
             /\ HasTypes(p.node)
             /\ p.node.values = n.values /\ p.node.valueArrays = n.valueArrays
             /\ p.node.objectArrays = n.objectArrays /\ DOMAIN p.node.objects = DOMAIN n.objects
             /\ \A k \in DOMAIN n.objects \ {AWSKey} : p.node.objects[k] = n.objects[k]
             /\ v >= 120 => p.node = n
<1> DEFINE n == ReadNode(m)
           p == [version |-> v, node |-> n]
           q == Fixed(p)
<1>1. q = [version |-> q.version, node |-> q.node] /\ q.version \in {120, 130}
  BY DEF Fixed, Version, AppVersion
<1>2. CASE ~IsOld(p)
  <2>1. q.node = n
    BY <1>2 DEF Fixed
  <2> QED BY <1>1, <2>1
<1>3. CASE IsOld(p)
  <2> DEFINE a == AWSOf(n)
             flow == a.objects["flow"]
  <2>1. HasAWS(n) /\ HasFlow(a) /\ OldFlowIsValid(flow) /\ v < 120
    BY <1>3 DEF IsOld, UpgradeThrows
  <2>2. /\ IsNode(n) /\ n.objects = [k \in DOMAIN n.objects |-> n.objects[k]]
        /\ IsNode(a) /\ a.objects = [k \in DOMAIN a.objects |-> a.objects[k]] /\ IsNode(flow)
    BY <2>1, ReadIsNode
  <2>3. q.node = [n EXCEPT !.objects["automaticWateringSystem"].objects["flow"] = Upgraded(flow)]
    BY <1>3 DEF Fixed, AWSOf
  <2> HIDE DEF n
  <2>4. /\ q.node.values = n.values /\ q.node.valueArrays = n.valueArrays
        /\ q.node.objectArrays = n.objectArrays /\ DOMAIN q.node.objects = DOMAIN n.objects
        /\ \A k \in DOMAIN n.objects \ {AWSKey} : q.node.objects[k] = n.objects[k]
        /\ AWSOf(q.node) = [a EXCEPT !.objects["flow"] = Upgraded(flow)]
    BY <2>1, <2>2, <2>3 DEF IsNode, HasAWS, AWSOf, AWSKey
  <2>5. /\ AWSOf(q.node).values = a.values /\ HasFlow(AWSOf(q.node))
        /\ AWSOf(q.node).objects["flow"] = Upgraded(flow)
    BY <2>1, <2>2, <2>4 DEF IsNode, HasFlow, AWSOf
  <2>6. HasNumbers(Upgraded(flow))
    <3> DEFINE u == Upgraded(flow)
               old == UNION {{OldKey[d].enabled, OldKey[d].pin} : d \in Device}
               devices == <<OldDevice(flow, "waterValve"), OldDevice(flow, "waterPump")>>
    <3>1. HasNumbers(flow)
      BY <2>1 DEF HasTypes, n
    <3>2. ASSUME NEW d \in Device PROVE ValueAt(OldDevice(flow, d), "pinID") \in Nat
      <4> DEFINE isEnabled == ValueAt(flow, OldKey[d].enabled)
                 pin == IF isEnabled THEN ValueAt(flow, OldKey[d].pin) ELSE 0
      <4>1. isEnabled => Has(flow, OldKey[d].pin, "uint")
        BY <2>1 DEF OldFlowIsValid
      <4>2. pin \in Nat
        BY <3>1, <4>1 DEF HasNumbers, Has
      <4>3. OldDevice(flow, d) = DeviceNode(d, pin, "Active Low", isEnabled)
        BY DEF OldDevice
      <4> HIDE DEF pin, isEnabled
      <4>4. ValueAt(DeviceNode(d, pin, "Active Low", isEnabled), "pinID") = pin
        BY DEF DeviceNode, EmptyNode, ValueAt
      <4> QED BY <4>2, <4>3, <4>4
    <3>3. /\ u.values = [k \in DOMAIN flow.values \ old |-> flow.values[k]]
          /\ u.objectArrays["devices"] = devices
      BY <2>2 DEF Upgraded, IsNode, Over
    <3> HIDE DEF u, old
    <3>4. \A k \in DOMAIN u.values : k \in DOMAIN flow.values /\ u.values[k] = flow.values[k]
      BY <3>3
    <3>5. /\ \A d \in Device : Has(u, OldKey[d].pin, "uint") => ValueAt(u, OldKey[d].pin) \in Nat
          /\ \A t \in Duration : Has(u, t, "uint") => ValueAt(u, t) \in 0 .. 2 * Half - 1
      BY <3>1, <3>4 DEF HasNumbers, Has, ValueAt
    <3>6. Len(devices) \in Nat /\ DOMAIN devices = 1 .. Len(devices)
      OBVIOUS
    <3>7. \A i \in DOMAIN devices : ValueAt(devices[i], "pinID") \in Nat
      BY <3>2 DEF Device
    <3> HIDE DEF devices
    <3>8. HasNumbers(u)
      BY <3>3, <3>5, <3>6, <3>7 DEF HasNumbers
    <3> QED BY <3>8 DEF u
  <2>7. HasTypes(q.node)
    BY <2>5, <2>6 DEF HasTypes
  <2>8. ~(v >= 120)
    BY <2>1 DEF Version
  <2> HIDE DEF q
  <2> QED BY <1>1, <2>4, <2>7, <2>8 DEF n, p, q
<1> QED BY <1>2, <1>3

-----------------------------------------------------------------------------
(* What is beside the watering system, in a project's file *)

\* Two nodes that are the same but for what is under the watering system's key.
SameBeside(n, o) ==
  LET Same(f, g) == /\ DOMAIN f \ {AWSKey} = DOMAIN g \ {AWSKey}
                    /\ \A k \in DOMAIN f \ {AWSKey} : f[k] = g[k]
  IN  /\ Same(n.values, o.values) /\ Same(n.valueArrays, o.valueArrays)
      /\ Same(n.objects, o.objects) /\ Same(n.objectArrays, o.objectArrays)

\* What is written beside the watering system does not depend on its node.
LEMMA OthersDependOnOthers ==
  ASSUME NEW n, NEW o, SameBeside(n, o)
  PROVE  Others(MembersOf(n)) = Others(MembersOf(o))
<1> DEFINE inN == [x \in NodesIn(n) |-> SystemMembers(x)]
           inO == [x \in NodesIn(o) |-> SystemMembers(x)]
           w == MembersOf(n)
           v == MembersOf(o)
<1>0. /\ DOMAIN n.values \ {AWSKey} = DOMAIN o.values \ {AWSKey}
      /\ DOMAIN n.valueArrays \ {AWSKey} = DOMAIN o.valueArrays \ {AWSKey}
      /\ DOMAIN n.objects \ {AWSKey} = DOMAIN o.objects \ {AWSKey}
      /\ DOMAIN n.objectArrays \ {AWSKey} = DOMAIN o.objectArrays \ {AWSKey}
      /\ \A k \in DOMAIN n.values \ {AWSKey} : n.values[k] = o.values[k]
      /\ \A k \in DOMAIN n.valueArrays \ {AWSKey} : n.valueArrays[k] = o.valueArrays[k]
      /\ \A k \in DOMAIN n.objects \ {AWSKey} : n.objects[k] = o.objects[k]
      /\ \A k \in DOMAIN n.objectArrays \ {AWSKey} : n.objectArrays[k] = o.objectArrays[k]
  BY DEF SameBeside
<1>1. /\ DOMAIN w = DOMAIN n.values \cup DOMAIN n.valueArrays \cup DOMAIN n.objects \cup DOMAIN n.objectArrays
      /\ \A k \in DOMAIN w : w[k] = MemberText(n, inN, k)
  BY MembersAt DEF MembersOf
<1>2. /\ DOMAIN v = DOMAIN o.values \cup DOMAIN o.valueArrays \cup DOMAIN o.objects \cup DOMAIN o.objectArrays
      /\ \A k \in DOMAIN v : v[k] = MemberText(o, inO, k)
  BY MembersAt DEF MembersOf
<1>3. \A x \in NodesIn(n) : inN[x] = SystemMembers(x)
  OBVIOUS
<1>4. \A x \in NodesIn(o) : inO[x] = SystemMembers(x)
  OBVIOUS
<1> HIDE DEF inN, inO, w, v
<1>5. DOMAIN w \ {AWSKey} = DOMAIN v \ {AWSKey}
  BY <1>0, <1>1, <1>2
<1>6. ASSUME NEW k \in DOMAIN w \ {AWSKey} PROVE w[k] = v[k]
  <2>1. w[k] = MemberText(n, inN, k) /\ v[k] = MemberText(o, inO, k) /\ k # AWSKey
    BY <1>1, <1>2, <1>5
  <2>2. CASE k \in DOMAIN n.objectArrays
    <3> DEFINE s == n.objectArrays[k]
    <3>1. k \in DOMAIN o.objectArrays /\ o.objectArrays[k] = s
      BY <1>0, <2>1, <2>2
    <3>2. \A i \in DOMAIN s : s[i] \in NodesIn(n) /\ s[i] \in NodesIn(o)
      BY <2>2, <3>1 DEF NodesIn
    <3> HIDE DEF s
    <3>3. ObjectsText(s, inN) = ObjectsText(s, inO)
      <4>1. \A i \in DOMAIN s : ObjectText(inN[s[i]]) = ObjectText(inO[s[i]])
        BY <1>3, <1>4, <3>2
      <4> QED BY <4>1 DEF ObjectsText
    <3> QED BY <2>1, <2>2, <3>1, <3>3 DEF MemberText, s
  <2>3. CASE k \notin DOMAIN n.objectArrays /\ k \in DOMAIN n.objects
    <3> DEFINE x == n.objects[k]
    <3>1. k \notin DOMAIN o.objectArrays /\ k \in DOMAIN o.objects /\ o.objects[k] = x
      BY <1>0, <2>1, <2>3
    <3>2. x \in NodesIn(n) /\ x \in NodesIn(o)
      BY <2>3, <3>1 DEF NodesIn
    <3> QED BY <1>3, <1>4, <2>1, <2>3, <3>1, <3>2 DEF MemberText
  <2>4. CASE k \notin DOMAIN n.objectArrays /\ k \notin DOMAIN n.objects
    <3>1. /\ k \notin DOMAIN o.objectArrays /\ k \notin DOMAIN o.objects
          /\ k \in DOMAIN n.valueArrays <=> k \in DOMAIN o.valueArrays
          /\ k \in DOMAIN n.valueArrays => n.valueArrays[k] = o.valueArrays[k]
          /\ k \notin DOMAIN n.valueArrays => n.values[k] = o.values[k]
      BY <1>0, <1>1, <2>1, <2>4
    <3> QED BY <2>1, <2>4, <3>1 DEF MemberText
  <2> QED BY <2>2, <2>3, <2>4
<1>7. Others(w) = Others(v)
  BY <1>5, <1>6 DEF Others, AWSKey
<1> QED BY <1>7 DEF w, v

\* What is beside it is read, and written, as if it were alone.
LEMMA OthersAlone ==
  ASSUME NEW m, AreMembers(Others(m)), Inside(Others(m)) \subseteq Object
  PROVE  Others(MembersOf(ReadNode(m))) = Again(Others(m))
<1> DEFINE b == Others(m)
           inM == [x \in Inside(m) |-> ReadSystem(x)]
           inB == [x \in Inside(b) |-> ReadSystem(x)]
           n == ReadNode(m)
           o == ReadNode(b)
<1>1. DOMAIN b = DOMAIN m \ {AWSKey} /\ \A k \in DOMAIN b : b[k] = m[k]
  BY DEF Others, AWSKey
<1>2. ReadsAs(m, inM, n) /\ ReadsAs(b, inB, o)
  <2>1. ReadsAs(m, inM, n)
    BY NodeAt DEF ReadNode
  <2>2. ReadsAs(b, inB, o)
    <3> HIDE DEF b
    <3> QED BY NodeAt DEF ReadNode
  <2> QED BY <2>1, <2>2
<1>3. \A x \in Inside(b) : x \in Inside(m) /\ inM[x] = ReadSystem(x) /\ inB[x] = ReadSystem(x)
  <2>1. Inside(b) \subseteq Inside(m)
    <3> HIDE DEF b
    <3> QED BY <1>1 DEF Inside
  <2> QED BY <2>1
<1>4. \A k \in DOMAIN b : IsJson(b[k])
  BY DEF AreMembers
<1> HIDE DEF b, inM, inB, n, o
<1>5. /\ DOMAIN n.values \ {AWSKey} = DOMAIN o.values \ {AWSKey}
      /\ DOMAIN n.valueArrays \ {AWSKey} = DOMAIN o.valueArrays \ {AWSKey}
      /\ DOMAIN n.objects \ {AWSKey} = DOMAIN o.objects \ {AWSKey}
      /\ DOMAIN n.objectArrays \ {AWSKey} = DOMAIN o.objectArrays \ {AWSKey}
  BY <1>1, <1>2 DEF ReadsAs
<1>6. /\ \A k \in DOMAIN n.values \ {AWSKey} : n.values[k] = o.values[k]
      /\ \A k \in DOMAIN n.valueArrays \ {AWSKey} : n.valueArrays[k] = o.valueArrays[k]
  <2>1. ASSUME NEW k \in DOMAIN n.values \ {AWSKey} PROVE n.values[k] = o.values[k]
    <3>1. k \in DOMAIN o.values /\ k \in DOMAIN b /\ b[k] = m[k]
      BY <1>1, <1>2, <1>5 DEF ReadsAs
    <3> QED BY <1>2, <3>1 DEF ReadsAs
  <2>2. ASSUME NEW k \in DOMAIN n.valueArrays \ {AWSKey} PROVE n.valueArrays[k] = o.valueArrays[k]
    <3>1. k \in DOMAIN o.valueArrays /\ k \in DOMAIN b /\ b[k] = m[k]
      BY <1>1, <1>2, <1>5 DEF ReadsAs
    <3>2. /\ n.valueArrays[k] = [i \in DOMAIN b[k][2] |-> Variant(b[k][2][i])]
          /\ o.valueArrays[k] = [i \in DOMAIN b[k][2] |-> Variant(b[k][2][i])]
      BY <1>2, <3>1 DEF ReadsAs
    <3> QED BY <3>2
  <2> QED BY <2>1, <2>2
<1>7. ASSUME NEW k \in DOMAIN n.objects \ {AWSKey} PROVE n.objects[k] = o.objects[k]
  <2>1. /\ n.objects[k] = inM[b[k][2]] /\ o.objects[k] = inB[b[k][2]]
        /\ IsObject(b[k]) /\ k \in DOMAIN b
    BY <1>1, <1>2, <1>5 DEF ReadsAs
  <2> QED BY <1>3, <2>1, MemberInside
<1>8. ASSUME NEW k \in DOMAIN n.objectArrays \ {AWSKey} PROVE n.objectArrays[k] = o.objectArrays[k]
  <2> DEFINE s == Objects(b[k][2])
  <2>1. k \in DOMAIN b /\ b[k] = m[k] /\ HasObjects(b[k]) /\ k \in DOMAIN o.objectArrays
    BY <1>1, <1>2, <1>5 DEF ReadsAs
  <2>2. /\ n.objectArrays[k] = [i \in DOMAIN s |-> inM[s[i][2]]]
        /\ o.objectArrays[k] = [i \in DOMAIN s |-> inB[s[i][2]]]
    BY <1>2, <2>1 DEF ReadsAs
  <2>3. IsArray(b[k]) /\ b[k][2] \in Seq(Elements(b[k]))
    BY <1>4, <2>1 DEF HasObjects, IsJson
  <2>4. \A i \in DOMAIN s : s[i][2] \in Inside(b)
    BY <2>1, <2>3, ObjectsAreInside, MemberInside
  <2> HIDE DEF s
  <2> QED BY <1>3, <2>2, <2>4
<1>9. Others(MembersOf(n)) = Others(MembersOf(o))
  <2>1. SameBeside(n, o)
    BY <1>5, <1>6, <1>7, <1>8 DEF SameBeside
  <2> QED BY <2>1, OthersDependOnOthers
<1>10. MembersOf(o) = Again(b)
  BY TextAgain DEF b, o
<1>11. DOMAIN Again(b) \subseteq DOMAIN b /\ AreMembers(Again(b))
  BY TextAgainIsText DEF b
<1>12. Others(Again(b)) = Again(b)
  BY <1>1, <1>11 DEF Others, AWSKey, AreMembers
<1> QED BY <1>9, <1>10, <1>12 DEF b, n

\* A text all of which will be kept comes back as it was, and can be read.
LEMMA KeptAgain ==
  ASSUME NEW m, AreMembers(m), Inside(m) \subseteq Object, NEW k \in DOMAIN m, WillBeKept(m[k])
  PROVE  k \in DOMAIN Again(m) /\ Again(m)[k] = m[k]
<1>1. \A o \in ObjectsIn(m[k]) : Again(o) = o /\ o # Nothing
  BY MemberInside, WholeAgain DEF WillBeKept
<1> QED BY <1>1, MemberAgain DEF WillBeKept

\* Neither does the reader throw on it.
LEMMA KeptReadable ==
  ASSUME NEW m, Inside(m) \subseteq Object, \A k \in DOMAIN m : WillBeKept(m[k])
  PROVE  Readable(m)
<1>1. ASSUME NEW k \in DOMAIN m, NEW v \in Elements(m[k])
      PROVE  IF IsObject(v) THEN v[2] \in Inside(m) /\ ReadableSystem(v[2]) ELSE ~IsArray(v) /\ v # Null
  <2>1. CASE IsObject(v)
    <3>1. v[2] \in ObjectsIn(m[k]) /\ v[2] \in Object /\ v[2] \in Inside(m)
      BY <2>1, MemberInside DEF ObjectsIn
    <3>2. DeepReadable(v[2])
      BY <3>1, WholeAgain DEF WillBeKept
    <3> QED BY <2>1, <3>1, <3>2, ReadableAlike
  <2>2. CASE ~IsObject(v)
    BY <2>2 DEF WillBeKept, IsPlain
  <2> QED BY <2>1, <2>2
<1> QED BY <1>1 DEF Readable, ReadableFrom

\* All of a solid text that can be read will be kept once it was written.
LEMMA SolidKept ==
  ASSUME NEW m, AreMembers(m), Inside(m) \subseteq Object, AreSolid(m), Readable(m),
         NEW k \in DOMAIN Again(m)
  PROVE  WillBeKept(Again(m)[k])
<1>1. k \in DOMAIN m /\ ~IsEmptyArray(m[k]) /\ Again(m)[k] = Rewritten(m[k], Back(m)) /\ IsJson(m[k])
  BY DEF Again, AgainWith, AreMembers
<1>2. ASSUME NEW v \in Elements(m[k])
      PROVE  IF IsObject(v) THEN DeepReadable(v[2]) ELSE ~IsArray(v) /\ v # Null
  <2>1. IsObject(v) => v[2] \in Inside(m)
    BY <1>1, MemberInside DEF ObjectsIn
  <2> QED BY <1>1, <2>1, ReadableAlike DEF Readable, ReadableFrom
<1>3. \A o \in ObjectsIn(m[k]) : DeepReadable(o) /\ o \in Inside(m)
  BY <1>1, <1>2, MemberInside DEF ObjectsIn
<1>4. \A o \in ObjectsIn(m[k]) : Back(m)[o] # Nothing /\ IsWhole(Back(m)[o])
  BY <1>3, SolidAgain, TextAgainIsText DEF AreSolid
<1>5. IsPlain(Again(m)[k])
  BY <1>1, <1>2, <1>4, PlainAgain DEF IsReadableValue
<1>6. ObjectsIn(Again(m)[k]) \subseteq {Back(m)[o] : o \in ObjectsIn(m[k])}
  BY <1>1, JsonAgain
<1> QED BY <1>4, <1>5, <1>6 DEF WillBeKept

-----------------------------------------------------------------------------
(* The inductive invariant *)

\* Of what a file's author put beside the watering system, all that will be
\* kept is in m, and nothing else; and if it is solid all of m will be kept.
OthersInv(m, given) ==
  /\ AreMembers(m) /\ Inside(m) \subseteq Object /\ DOMAIN m \subseteq DOMAIN given
  /\ \A k \in DOMAIN given : WillBeKept(given[k]) => k \in DOMAIN m /\ m[k] = given[k]
  /\ AreSolid(given) => \A k \in DOMAIN m : WillBeKept(m[k])

\* The file is what the operator wrote ...
WrittenBy(d) ==
  /\ file = [version |-> d.version, members |-> d.members]
  /\ foreign = Others(d.members)

\* ... or what a save of this configuration did.
SavedAs(c) ==
  /\ IsConfiguration(c) /\ origin.means = {c}
  /\ file.version \in {120, 130} /\ file = [version |-> file.version, members |-> file.members]
  /\ HasSystem(file) => file.members[AWSKey] = <<"object", SystemText(c)>>
  /\ OthersInv(Others(file.members), foreign)

FileInv ==
  \/ origin.author = "nobody" /\ file \in {None, Torn} /\ foreign = Nothing
  \/ origin.author = "operator" /\ \E d \in Documents : WrittenBy(d)
  \/ origin.author = "save" /\ \E c \in origin.means : SavedAs(c)

\* A current project will be written with what is beside the watering system.
IsProject(p) ==
  /\ p = [version |-> p.version, node |-> p.node] /\ p.version \in {120, 130}
  /\ IsNode(p.node)

ProjectInv ==
  hasProject => up /\ IsProject(project) /\ OthersInv(Others(MembersOf(project.node)), foreign)

\* The inductive invariant.
IInv ==
  up \in BOOLEAN /\ IsConfiguration(aws) /\ live \in [Device -> BOOLEAN] /\ FileInv /\ ProjectInv

-----------------------------------------------------------------------------

\* A project that is read from the author's file, when it is written ...
LEMMA OthersFirst ==
  ASSUME NEW m, AreMembers(m), Inside(m) \subseteq Object, Readable(m)
  PROVE  OthersInv(Again(m), m)
<1>1. /\ AreMembers(Again(m)) /\ Inside(Again(m)) \subseteq Object /\ DOMAIN Again(m) \subseteq DOMAIN m
  BY TextAgainIsText
<1>2. \A k \in DOMAIN m : WillBeKept(m[k]) => k \in DOMAIN Again(m) /\ Again(m)[k] = m[k]
  BY KeptAgain
<1>3. AreSolid(m) => \A k \in DOMAIN Again(m) : WillBeKept(Again(m)[k])
  BY SolidKept
<1> QED BY <1>1, <1>2, <1>3 DEF OthersInv

\* ... and from one that was saved.
LEMMA OthersNext == ASSUME NEW m, NEW given, OthersInv(m, given) PROVE OthersInv(Again(m), given)
<1>0. AreMembers(m) /\ Inside(m) \subseteq Object /\ DOMAIN m \subseteq DOMAIN given
  BY DEF OthersInv
<1>1. /\ AreMembers(Again(m)) /\ Inside(Again(m)) \subseteq Object /\ DOMAIN Again(m) \subseteq DOMAIN m
  BY <1>0, TextAgainIsText
<1>2. \A k \in DOMAIN m : WillBeKept(m[k]) => k \in DOMAIN Again(m) /\ Again(m)[k] = m[k]
  BY <1>0, KeptAgain
<1>3. \A k \in DOMAIN given :
        WillBeKept(given[k]) => k \in DOMAIN Again(m) /\ Again(m)[k] = given[k]
  BY <1>2 DEF OthersInv
<1>4. AreSolid(given) => \A k \in DOMAIN Again(m) : WillBeKept(Again(m)[k])
  BY <1>1, <1>2 DEF OthersInv
<1> QED BY <1>0, <1>1, <1>3, <1>4 DEF OthersInv

\* A version that a project or a file has.
LEMMA NoProjectIsNone == \A p : p.version \in {120, 130} => p # NoProject /\ p # None
BY DEF NoProject, None

\* A new project has nothing beside the watering system.
LEMMA NothingIsKept ==
  OthersInv(Others(MembersOf(EmptyNode)), Nothing)
<1>1. DOMAIN Nothing = {} /\ Nothing = [k \in {} |-> Null]
  BY DEF Nothing
<1>2. DOMAIN MembersOf(EmptyNode) = {}
  <2> DEFINE outer == [x \in NodesIn(EmptyNode) |-> SystemMembers(x)]
  <2>1. MembersOf(EmptyNode) = MembersFrom(EmptyNode, outer)
    BY DEF MembersOf
  <2>2. /\ DOMAIN EmptyNode.values = {} /\ DOMAIN EmptyNode.valueArrays = {}
        /\ DOMAIN EmptyNode.objects = {} /\ DOMAIN EmptyNode.objectArrays = {}
    BY <1>1 DEF EmptyNode
  <2> HIDE DEF outer
  <2>3. DOMAIN MembersFrom(EmptyNode, outer) = {}
    BY <2>2, MembersAt
  <2> QED BY <2>1, <2>3
<1>3. Others(MembersOf(EmptyNode)) = Nothing
  BY <1>2 DEF Others, Nothing
<1> QED BY <1>1, <1>3 DEF OthersInv, AreMembers, Inside

\* A project file that is read, and upgraded, is the current project.
LEMMA ReadIsProject ==
  ASSUME NEW f, f.version \in Version,
         AreMembers(Others(f.members)), Inside(Others(f.members)) \subseteq Object,
         HasTypes(ReadNode(f.members)), ~UpgradeThrows(ReadFile(f))
  PROVE  LET p == Fixed(ReadFile(f))
         IN  /\ IsProject(p) /\ HasTypes(p.node)
             /\ Others(MembersOf(p.node)) = Again(Others(f.members))
<1> DEFINE m == f.members
           n == ReadNode(m)
           p == Fixed(ReadFile(f))
<1>1. ReadFile(f) = [version |-> f.version, node |-> n]
  BY DEF ReadFile
<1>2. /\ p = [version |-> p.version, node |-> p.node] /\ p.version \in {120, 130}
      /\ HasTypes(p.node)
      /\ p.node.values = n.values /\ p.node.valueArrays = n.valueArrays
      /\ p.node.objectArrays = n.objectArrays /\ DOMAIN p.node.objects = DOMAIN n.objects
      /\ \A k \in DOMAIN n.objects \ {AWSKey} : p.node.objects[k] = n.objects[k]
  BY <1>1, FixedNode
<1>3. IsNode(p.node)
  <2>1. IsNode(n)
    BY ReadIsNode
  <2> QED BY <1>1, <2>1 DEF Fixed, IsNode
<1>4. Others(MembersOf(n)) = Again(Others(m))
  BY OthersAlone
<1>5. Others(MembersOf(p.node)) = Others(MembersOf(n))
  <2> HIDE DEF p, n
  <2>1. SameBeside(p.node, n)
    BY <1>2 DEF SameBeside
  <2> QED BY <2>1, OthersDependOnOthers
<1> QED BY <1>2, <1>3, <1>4, <1>5 DEF IsProject

\* What a save writes.
LEMMA CollectedIsProject ==
  ASSUME IsProject(project), IsConfiguration(aws)
  PROVE  LET f == FileOf(Collected)
         IN  /\ IsProject(Collected)
             /\ Others(MembersOf(Collected.node)) = Others(MembersOf(project.node))
             /\ f.version \in {120, 130} /\ f = [version |-> f.version, members |-> f.members]
             /\ HasSystem(f) => f.members[AWSKey] = <<"object", SystemText(aws)>>
             /\ Others(f.members) = Others(MembersOf(project.node))
<1> DEFINE n == project.node
           o == Collected.node
<1>1. /\ Collected = [version |-> project.version, node |-> o]
      /\ o = [n EXCEPT !.objects = Over([automaticWateringSystem |-> AWSNode(aws)], n.objects)]
  BY DEF Collected, IsProject
<1>2. /\ IsNode(o) /\ o.values = n.values /\ o.valueArrays = n.valueArrays
      /\ o.objectArrays = n.objectArrays
      /\ o.objects = Over([automaticWateringSystem |-> AWSNode(aws)], n.objects)
  BY <1>1 DEF IsProject, IsNode
<1>3. /\ DOMAIN o.objects = DOMAIN n.objects \cup {AWSKey} /\ o.objects[AWSKey] = AWSNode(aws)
      /\ \A k \in DOMAIN n.objects \ {AWSKey} : o.objects[k] = n.objects[k]
  BY <1>2 DEF Over, AWSKey
<1> HIDE DEF o
<1>4. Others(MembersOf(o)) = Others(MembersOf(n))
  <2>1. SameBeside(o, n)
    BY <1>2, <1>3 DEF SameBeside
  <2> QED BY <2>1, OthersDependOnOthers
<1>5. \/ MembersOf(o)[AWSKey] = <<"object", SystemText(aws)>>
      \/ ~IsObject(MembersOf(o)[AWSKey])
  <2> DEFINE outer == [x \in NodesIn(o) |-> SystemMembers(x)]
             w == MembersOf(o)
  <2>1. /\ DOMAIN w = DOMAIN o.values \cup DOMAIN o.valueArrays \cup DOMAIN o.objects \cup DOMAIN o.objectArrays
        /\ \A k \in DOMAIN w : w[k] = MemberText(o, outer, k)
    BY MembersAt DEF MembersOf
  <2>2. outer[AWSNode(aws)] = SystemText(aws)
    BY <1>3, SystemWritten DEF NodesIn
  <2> HIDE DEF w, outer
  <2>3. AWSKey \in DOMAIN w
    BY <1>3, <2>1
  <2>4. CASE AWSKey \in DOMAIN o.objectArrays
    <3>1. w[AWSKey] = ObjectsText(o.objectArrays[AWSKey], outer)
      BY <2>1, <2>3, <2>4 DEF MemberText
    <3>2. ~IsObject(w[AWSKey])
      BY <3>1 DEF ObjectsText, IsObject
    <3> QED BY <3>2 DEF w
  <2>5. CASE AWSKey \notin DOMAIN o.objectArrays
    <3>1. w[AWSKey] = ObjectText(outer[AWSNode(aws)])
      BY <1>3, <2>1, <2>3, <2>5 DEF MemberText
    <3> QED BY <2>2, <3>1, TextsAreSomething DEF ObjectText, w
  <2> QED BY <2>4, <2>5
<1>6. FileOf(Collected) = [version |-> project.version, members |-> MembersOf(o)]
  BY <1>1 DEF FileOf
<1>7. IsProject(Collected)
  <2>1. project.version \in {120, 130}
    BY DEF IsProject
  <2> QED BY <1>1, <1>2, <2>1 DEF IsProject
<1>8. project.version \in {120, 130}
  BY DEF IsProject
<1> DEFINE f == FileOf(Collected)
<1>9. f.version = project.version /\ f.members = MembersOf(o)
  BY <1>6
<1>10. f = [version |-> f.version, members |-> f.members]
  BY <1>6
<1> HIDE DEF f
<1>11. HasSystem(f) => f.members[AWSKey] = <<"object", SystemText(aws)>>
  BY <1>5, <1>9 DEF HasSystem, AWSKey
<1> QED BY <1>4, <1>7, <1>8, <1>9, <1>10, <1>11 DEF f, o

\* A saved file can be read, and nothing throws on it, unless an empty object
\* is in it; and if it is read it gives the job that was saved.
LEMMA SavedFile ==
  ASSUME NEW c, SavedAs(c)
  PROVE  /\ AreSolid(foreign) /\ HasSystem(file) => IsReadable(file)
         /\ ~Terminates(file) /\ ~UpgradeThrows(ReadFile(file))
         /\ HasTypes(ReadNode(file.members))
         /\ HasSystem(file) /\ (\A t \in Duration : c.time[t] >= 0) =>
              LET node == Fixed(ReadFile(file)).node
              IN  /\ Moves(node)
                  /\ \A old : IsConfiguration(old) =>
                       /\ SameJob(AfterLoad(node, old), c)
                       /\ \A d \in Device : AfterLoad(node, old).device[d] = DeviceAfter(c, old, d)
<1> DEFINE m == file.members
           inner == [x \in Inside(m) |-> ReadSystem(x)]
           n == ReadNode(m)
           p == ReadFile(file)
<1>1. ASSUME HasSystem(file)
      PROVE  /\ m[AWSKey] = <<"object", SystemText(c)>> /\ AWSKey \in DOMAIN m
             /\ IsObject(m[AWSKey]) /\ ~IsArray(m[AWSKey]) /\ SystemText(c) \in Inside(m)
  <2>1. m[AWSKey] = <<"object", SystemText(c)>> /\ AWSKey \in DOMAIN m
    BY <1>1 DEF SavedAs, HasSystem, AWSKey
  <2>2. IsObject(m[AWSKey]) /\ ~IsArray(m[AWSKey]) /\ m[AWSKey][2] = SystemText(c)
    BY <2>1 DEF IsObject, IsArray
  <2> QED BY <2>1, <2>2, MemberInside
<1>2. ASSUME AreSolid(foreign), HasSystem(file) PROVE Readable(m)
  <2>1. Readable(Others(m))
    BY <1>2, KeptReadable DEF SavedAs, OthersInv
  <2>2. ASSUME NEW k \in DOMAIN m, NEW v \in Elements(m[k])
        PROVE  IF IsObject(v) THEN v[2] \in Inside(m) /\ ReadableSystem(v[2])
                              ELSE ~IsArray(v) /\ v # Null
    <3>1. IsObject(v) => v[2] \in ObjectsIn(m[k]) /\ v[2] \in Inside(m)
      BY MemberInside DEF ObjectsIn
    <3>2. CASE k = AWSKey
      <4>1. v = m[AWSKey]
        BY <1>1, <1>2, <3>2 DEF Elements
      <4> QED BY <1>1, <1>2, <3>1, <4>1, SystemReadable
    <3>3. CASE k # AWSKey
      <4>1. k \in DOMAIN Others(m) /\ Others(m)[k] = m[k]
        BY <3>3 DEF Others, AWSKey
      <4>2. IsObject(v) => v[2] \in Inside(Others(m))
        BY <3>1, <4>1, MemberInside
      <4> QED BY <2>1, <3>1, <4>1, <4>2 DEF Readable, ReadableFrom
    <3> QED BY <3>2, <3>3
  <2> QED BY <2>2 DEF Readable, ReadableFrom
<1>3. ReadsAs(m, inner, n)
  BY NodeAt DEF ReadNode
<1>4. p.version = file.version /\ p.node = n /\ ~IsOld(p)
  BY DEF ReadFile, IsOld, SavedAs
<1>5. ~UpgradeThrows(p) /\ Fixed(p).node = n
  BY <1>4 DEF UpgradeThrows, Fixed
<1> HIDE DEF n
<1>6. HasAWS(n) => HasSystem(file) /\ AWSOf(n) = ReadSystem(SystemText(c))
  <2> SUFFICES ASSUME HasAWS(n) PROVE HasSystem(file) /\ AWSOf(n) = ReadSystem(SystemText(c))
    OBVIOUS
  <2>1. AWSKey \in DOMAIN m /\ IsObject(m[AWSKey]) /\ AWSOf(n) = inner[m[AWSKey][2]]
    BY <1>3 DEF ReadsAs, HasAWS, AWSOf, AWSKey
  <2>2. HasSystem(file)
    BY <2>1 DEF HasSystem, AWSKey
  <2>3. m[AWSKey][2] = SystemText(c) /\ SystemText(c) \in Inside(m)
    BY <1>1, <2>2
  <2> QED BY <2>1, <2>2, <2>3
<1>7. HasSystem(file) => HasAWS(n)
  BY <1>1, <1>3 DEF ReadsAs, HasAWS, AWSKey
<1>8. HasAWS(n) =>
        /\ ~LoadThrows(n) /\ HasTypes(n)
        /\ (\A t \in Duration : c.time[t] >= 0) =>
             /\ Moves(n)
             /\ \A old : IsConfiguration(old) =>
                  /\ SameJob(AfterLoad(n, old), c)
                  /\ \A d \in Device : AfterLoad(n, old).device[d] = DeviceAfter(c, old, d)
  BY <1>6, SavedSystem DEF SavedAs
<1>9. ~HasAWS(n) => ~LoadThrows(n) /\ HasTypes(n)
  BY DEF LoadThrows, HasTypes
<1> QED BY <1>2, <1>5, <1>7, <1>8, <1>9 DEF IsReadable, Terminates, n

\* The process begins without a project and without a file.
LEMMA InitInv == Init => IInv
<1> SUFFICES ASSUME Init PROVE IInv
  OBVIOUS
<1> QED BY InputAssumption DEF Init, IInv, FileInv, ProjectInv, hasProject, By, AllOutputs

\* A command that saves leaves a file that was saved.
LEMMA SaveStep ==
  ASSUME IInv, SaveCurrent, foreign' = foreign
  PROVE  FileInv'
<1>1. CASE hasProject
  <2>1. IsProject(project) /\ OthersInv(Others(MembersOf(project.node)), foreign) /\ IsConfiguration(aws)
    BY <1>1 DEF IInv, ProjectInv
  <2>2. file' = FileOf(Collected) /\ origin' = [author |-> "save", means |-> {aws}]
    BY <1>1 DEF SaveCurrent, By
  <2>3. /\ file'.version \in {120, 130} /\ file' = [version |-> file'.version, members |-> file'.members]
        /\ HasSystem(file') => file'.members[AWSKey] = <<"object", SystemText(aws)>>
        /\ Others(file'.members) = Others(MembersOf(project.node))
    BY <2>1, <2>2, CollectedIsProject
  <2>4. OthersInv(Others(file'.members), foreign')
    BY <2>1, <2>3
  <2>5. ASSUME NEW c, c = aws PROVE SavedAs(c)'
    BY <2>1, <2>2, <2>3, <2>4, <2>5 DEF SavedAs
  <2>6. \E c \in origin'.means : SavedAs(c)'
    BY <2>2, <2>5
  <2>7. origin'.author = "save"
    BY <2>2
  <2> QED BY <2>6, <2>7 DEF FileInv
<1>2. CASE ~hasProject
  <2>1. file' = file /\ origin' = origin
    BY <1>2 DEF SaveCurrent
  <2> QED BY <2>1 DEF IInv, FileInv, WrittenBy, SavedAs
<1> QED BY <1>1, <1>2

\* The current project, with the configuration in it, is still one.
LEMMA CollectedStep ==
  ASSUME IInv, project' = (IF hasProject THEN Collected ELSE project), up' = up, foreign' = foreign
  PROVE  ProjectInv'
<1>1. CASE hasProject
  <2>1. up /\ IsProject(project) /\ OthersInv(Others(MembersOf(project.node)), foreign)
    BY <1>1 DEF IInv, ProjectInv
  <2>2. IsProject(Collected) /\ Others(MembersOf(Collected.node)) = Others(MembersOf(project.node))
    BY <2>1, CollectedIsProject DEF IInv
  <2>3. project' = Collected
    BY <1>1
  <2>4. OthersInv(Others(MembersOf(project'.node)), foreign')
    BY <2>1, <2>2, <2>3
  <2> QED BY <2>1, <2>2, <2>3, <2>4 DEF ProjectInv
<1>2. CASE ~hasProject
  BY <1>2 DEF IInv, ProjectInv, hasProject
<1> QED BY <1>1, <1>2

\* What is beside the watering system in a readable file is readable.
LEMMA OthersReadable == ASSUME NEW m, Readable(m) PROVE Readable(Others(m))
<1>1. ASSUME NEW k \in DOMAIN Others(m), NEW v \in Elements(Others(m)[k])
      PROVE  IF IsObject(v) THEN v[2] \in Inside(Others(m)) /\ ReadableSystem(v[2])
                            ELSE ~IsArray(v) /\ v # Null
  <2>1. k \in DOMAIN m /\ Others(m)[k] = m[k]
    BY DEF Others
  <2>2. IsObject(v) => v[2] \in Inside(m) /\ v[2] \in Inside(Others(m))
    BY <2>1, MemberInside DEF ObjectsIn
  <2> QED BY <2>1, <2>2 DEF Readable, ReadableFrom
<1> QED BY <1>1 DEF Readable, ReadableFrom

\* A truncated file is not.
LEMMA TornIsUnreadable == ~IsReadable(Torn)
<1> DEFINE m == [torn |-> Null]
<1>1. "torn" \in DOMAIN m /\ Null \in Elements(m["torn"]) /\ ~IsObject(Null)
  BY DEF Elements, IsArray, IsObject, Null
<1> HIDE DEF m
<1>2. ~Readable(m)
  BY <1>1 DEF Readable, ReadableFrom
<1> QED BY <1>2 DEF IsReadable, Torn, m

\* A load leaves a configuration, and outputs or none.
LEMMA LoadStep ==
  ASSUME NEW node, HasTypes(node), NEW c, IsConfiguration(c), NEW l \in [Device -> BOOLEAN]
  PROVE  IsConfiguration(AfterLoad(node, c)) /\ OutputsAfter(node, c, l) \in [Device -> BOOLEAN]
BY LoadTyped, MovedTyped DEF OutputsAfter

\* Every command, and every edit of the file, keeps the invariant.
LEMMA Step == ASSUME IInv, [Next]_vars PROVE IInv'
<1>0. AllOutputs \in [Device -> BOOLEAN] /\ IsConfiguration(Default)
  BY InputAssumption DEF AllOutputs
<1>1. ASSUME Configure PROVE IInv'
  <2>1. IsConfiguration(aws')
    <3>1. ASSUME NEW d \in Device, NEW c \in [enabled : BOOLEAN, pin : 0 .. PinModulus - 1, high : BOOLEAN],
                 SetDevice(d, c)
          PROVE  IsConfiguration(aws')
      BY <3>1 DEF IInv, IsConfiguration, SetDevice
    <3>2. \A d \in Device : aws.device[d] \in [enabled : BOOLEAN, pin : 0 .. PinModulus - 1, high : BOOLEAN]
      BY DEF IInv, IsConfiguration
    <3>3. ASSUME NEW d \in Device, SetDevice(d, [aws.device[d] EXCEPT !.enabled = ~@])
          PROVE  IsConfiguration(aws')
      BY <3>1, <3>2, <3>3
    <3>4. ASSUME NEW d \in Device, NEW n \in PinIds[d],
                 SetDevice(d, [enabled |-> aws.device[d].enabled, pin |-> n, high |-> FALSE])
          PROVE  IsConfiguration(aws')
      BY <3>1, <3>2, <3>4, InputAssumption
    <3>5. ASSUME NEW t \in Duration, NEW n \in Times, aws' = [aws EXCEPT !.time[t] = n]
          PROVE  IsConfiguration(aws')
      <4>1. n \in -Half .. Half - 1
        BY InputAssumption, WidthAssumption
      <4> QED BY <3>5, <4>1 DEF IInv, IsConfiguration
    <3>6. ASSUME NEW n \in Names, aws' = [aws EXCEPT !.name = n]
          PROVE  IsConfiguration(aws')
      BY <3>6 DEF IInv, IsConfiguration
    <3> QED BY <1>1, <3>3, <3>4, <3>5, <3>6 DEF Configure
  <2>2. live' \in [Device -> BOOLEAN]
    BY <1>1 DEF Configure, IInv, Granted
  <2>3. UNCHANGED <<up, project, file, origin, foreign>>
    BY <1>1 DEF Configure
  <2>4. FileInv'
    BY <2>3 DEF IInv, FileInv, WrittenBy, SavedAs
  <2>5. ProjectInv'
    BY <2>3 DEF IInv, ProjectInv, hasProject
  <2> QED BY <2>1, <2>2, <2>3, <2>4, <2>5 DEF IInv
<1>2. ASSUME Save PROVE IInv'
  <2>1. FileInv' /\ ProjectInv'
    BY <1>2, SaveStep, CollectedStep DEF Save
  <2> QED BY <1>2, <2>1 DEF Save, IInv
<1>3. ASSUME Create PROVE IInv'
  <2>1. FileInv'
    BY <1>3 DEF Create, FileInv, By
  <2>2. IsProject(project') /\ project'.node = EmptyNode
    BY <1>3 DEF Create, IsProject, IsNode, EmptyNode, Nothing, AppVersion
  <2>3. ProjectInv'
    BY <1>3, <2>2, NothingIsKept DEF Create, ProjectInv
  <2> QED BY <1>3, <2>1, <2>3 DEF Create, IInv
<1>4. ASSUME NEW d \in Documents, Load(d) PROVE IInv'
  <2>1. FileInv'
    BY <1>4 DEF Load, TheFileIs, FileInv, WrittenBy, By
  <2>2. /\ d.version \in Version /\ Readable(d.members)
        /\ AreMembers(Others(d.members)) /\ Inside(Others(d.members)) \subseteq Object
        /\ HasTypes(ReadNode(d.members)) /\ ~UpgradeThrows(ReadFile(d))
    BY <1>4, DocumentAssumption DEF Load, IsReadable
  <2>3. /\ IsProject(project') /\ HasTypes(project'.node)
        /\ Others(MembersOf(project'.node)) = Again(Others(d.members))
    BY <1>4, <2>2, ReadIsProject DEF Load
  <2>4. OthersInv(Others(MembersOf(project'.node)), foreign')
    BY <1>4, <2>2, <2>3, OthersReadable, OthersFirst DEF Load, TheFileIs
  <2>5. IsConfiguration(aws') /\ live' \in [Device -> BOOLEAN]
    BY <1>4, <2>3, LoadStep DEF Load, IInv
  <2> QED BY <1>4, <2>1, <2>3, <2>4, <2>5 DEF Load, IInv, ProjectInv
<1>5. ASSUME NEW d \in Documents, LoadRefused(d) PROVE IInv'
  <2>1. FileInv' /\ ProjectInv'
    BY <1>5, SaveStep, CollectedStep DEF LoadRefused
  <2> QED BY <1>5, <2>1 DEF LoadRefused, IInv
<1>6. ASSUME NEW d \in Documents, LoadTerminates(d) PROVE IInv'
  <2>1. FileInv'
    BY <1>6, SaveStep DEF LoadTerminates
  <2> QED BY <1>6, <2>1 DEF LoadTerminates, IInv, ProjectInv, hasProject
<1>7. ASSUME Exit PROVE IInv'
  <2>1. FileInv'
    BY <1>7, SaveStep DEF Exit
  <2> QED BY <1>7, <2>1 DEF Exit, IInv, ProjectInv, hasProject
<1>8. ASSUME StartWithout PROVE IInv'
  <2>1. ~hasProject
    BY <1>8 DEF StartWithout, IInv, ProjectInv
  <2>2. FileInv'
    BY <1>8 DEF StartWithout, IInv, FileInv, WrittenBy, SavedAs
  <2> QED BY <1>0, <1>8, <2>1, <2>2 DEF StartWithout, IInv, ProjectInv, hasProject
<1>9. ASSUME StartWith PROVE IInv'
  <2>1. /\ file.version \in Version /\ AreMembers(Others(file.members))
        /\ Inside(Others(file.members)) \subseteq Object
        /\ HasTypes(ReadNode(file.members))
        /\ OthersInv(Again(Others(file.members)), foreign)
    <3>1. CASE \E d \in Documents : WrittenBy(d)
      <4>1. PICK d \in Documents : WrittenBy(d)
        BY <3>1
      <4>2. /\ file.version = d.version /\ file.members = d.members /\ foreign = Others(d.members)
            /\ Readable(d.members)
        BY <1>9, <4>1 DEF StartWith, IsReadable, WrittenBy
      <4>3. /\ d.version \in Version /\ AreMembers(Others(d.members))
            /\ Inside(Others(d.members)) \subseteq Object
                /\ HasTypes(ReadNode(d.members))
        BY DocumentAssumption
      <4>4. OthersInv(Again(Others(d.members)), Others(d.members))
        BY <4>2, <4>3, OthersReadable, OthersFirst
      <4> QED BY <4>2, <4>3, <4>4
    <3>2. CASE \E c \in origin.means : SavedAs(c)
      BY <3>2, SavedFile, OthersNext DEF SavedAs, OthersInv, Version
    <3>3. file # Torn
      BY <1>9, TornIsUnreadable DEF StartWith
    <3> QED BY <1>9, <3>1, <3>2, <3>3 DEF StartWith, IInv, FileInv
  <2>2. ~UpgradeThrows(ReadFile(file))
    BY <1>9 DEF StartWith, Terminates
  <2>3. /\ IsProject(project') /\ HasTypes(project'.node)
        /\ Others(MembersOf(project'.node)) = Again(Others(file.members))
    BY <1>9, <2>1, <2>2, ReadIsProject DEF StartWith
  <2>4. IsConfiguration(aws') /\ live' \in [Device -> BOOLEAN]
    BY <1>0, <1>9, <2>3, LoadStep DEF StartWith
  <2>5. FileInv'
    BY <1>9 DEF StartWith, IInv, FileInv, WrittenBy, SavedAs
  <2>6. ProjectInv'
    BY <1>9, <2>1, <2>3 DEF StartWith, ProjectInv
  <2> QED BY <1>9, <2>4, <2>5, <2>6 DEF StartWith, IInv
<1>10. ASSUME NEW d \in Documents, Edit(d) PROVE IInv'
  <2>1. ~hasProject
    BY <1>10 DEF Edit, IInv, ProjectInv
  <2>2. FileInv'
    BY <1>10 DEF Edit, TheFileIs, FileInv, WrittenBy, By
  <2> QED BY <1>10, <2>1, <2>2 DEF Edit, IInv, ProjectInv, hasProject
<1>11. ASSUME NullUsed PROVE IInv'
  <2>1. FileInv'
    <3>1. CASE file' = Torn /\ origin' = By("nobody", {}) /\ foreign' = Nothing
      BY <3>1 DEF FileInv, By
    <3>2. CASE UNCHANGED <<file, origin, foreign>>
      BY <3>2 DEF IInv, FileInv, WrittenBy, SavedAs
    <3> QED BY <1>11, <3>1, <3>2 DEF NullUsed
  <2> QED BY <1>11, <2>1 DEF NullUsed, IInv, ProjectInv, hasProject
<1>12. ASSUME UNCHANGED vars PROVE IInv'
  BY <1>12 DEF vars, IInv, FileInv, ProjectInv, hasProject, WrittenBy, SavedAs
<1> QED BY <1>1, <1>2, <1>3, <1>4, <1>5, <1>6, <1>7, <1>8, <1>9, <1>10, <1>11, <1>12 DEF Next

\* A step at a time, what holds of the file, the project and the configuration.
THEOREM Invariant == Spec => []IInv
BY InitInv, Step, PTL DEF Spec

-----------------------------------------------------------------------------
(* The properties *)

\* Whatever files are loaded, edited and saved, the watering system has a
\* configuration its code can hold: pins of 32 bits, durations of 64.
THEOREM TypeCorrect == Spec => []TypeOK
<1>1. IInv => TypeOK
  <2> SUFFICES ASSUME IInv PROVE TypeOK
    OBVIOUS
  <2>1. file.version \in Version \cup {-1}
    <3>1. CASE file \in {None, Torn}
      BY <3>1 DEF None, Torn
    <3>2. CASE \E d \in Documents : WrittenBy(d)
      BY <3>2, DocumentAssumption DEF WrittenBy
    <3>3. CASE \E c \in origin.means : SavedAs(c)
      BY <3>3 DEF SavedAs, Version
    <3> QED BY <3>1, <3>2, <3>3 DEF IInv, FileInv
  <2>2. project.version \in Version \cup {-1} /\ (up \/ ~hasProject)
    BY DEF IInv, ProjectInv, hasProject, NoProject, IsProject, Version
  <2>3. \A d \in Device : aws.device[d] \in [enabled : BOOLEAN, pin : 0 .. PinModulus - 1, high : BOOLEAN]
    BY DEF IInv, IsConfiguration
  <2>4. aws.time \in [Duration -> -Half .. Half - 1]
    BY DEF IInv, IsConfiguration
  <2> QED BY <2>1, <2>2, <2>3, <2>4 DEF TypeOK, IInv
<1> QED BY <1>1, Invariant, PTL

\* A start can read what a save wrote, and neither the reader nor the upgrade
\* nor the watering system throws on it, unless an empty object is in it or an array
\* is in the watering system's place.
THEOREM SavedFilesLoad == Spec => []SavedCanBeLoaded
<1>1. IInv => SavedCanBeLoaded
  <2> SUFFICES ASSUME IInv, origin.author = "save", AreSolid(foreign), HasSystem(file)
               PROVE  IsReadable(file) /\ ~Terminates(file)
    BY DEF SavedCanBeLoaded
  <2>1. PICK c \in origin.means : SavedAs(c)
    BY DEF IInv, FileInv
  <2> QED BY <2>1, SavedFile
<1> QED BY <1>1, Invariant, PTL

\* What a project's file has beside the watering system, of the values that
\* have a text the reader keeps, outlives every load, upgrade, save and start;
\* and nothing is added to it.
THEOREM OthersSurvive == Spec => []OthersAreKept
<1>1. IInv => OthersAreKept
  BY DEF IInv, FileInv, WrittenBy, SavedAs, OthersInv, OthersAreKept
<1> QED BY <1>1, Invariant, PTL

\* A start after a save does the job that was saved, and the devices have their
\* outputs unless it puts one on a default pin of the other.
THEOREM SavedJobIsRestored == Spec => SavedIsRestored
<1>1. ASSUME IInv, Next, ~up, up', origin.author = "save", AreSolid(foreign), HasSystem(file)
      PROVE  \E c \in origin.means :
               (\A t \in Duration : c.time[t] >= 0) => DoesTheJob(c, Default, AllOutputs)
  <2>1. PICK c \in origin.means : SavedAs(c)
    BY <1>1 DEF IInv, FileInv
  <2> SUFFICES ASSUME \A t \in Duration : c.time[t] >= 0
               PROVE  DoesTheJob(c, Default, AllOutputs)
    BY <2>1
  <2>2. IsReadable(file) /\ file # None
    BY <1>1, <2>1, SavedFile, NoProjectIsNone DEF SavedAs
  <2>3. StartWith
    BY <1>1, <2>2 DEF Next, Configure, Save, Create, Exit, NullUsed, StartWithout, Load, LoadRefused,
                      LoadTerminates, Edit
  <2> DEFINE node == Fixed(ReadFile(file)).node
             r == AfterLoad(node, Default)
  <2>4. aws' = r /\ live' = OutputsAfter(node, Default, AllOutputs)
    BY <2>3 DEF StartWith
  <2>5. /\ Moves(node) /\ SameJob(r, c) /\ \A d \in Device : r.device[d] = DeviceAfter(c, Default, d)
        /\ IsConfiguration(c) /\ IsConfiguration(Default)
    BY <1>1, <2>1, SavedFile, InputAssumption DEF SavedAs
  <2> HIDE DEF node
  <2>6. ASSUME PinsAreFree(c, Default) PROVE HasOutputs(live')
    <3>1. HasOutputs(Moved(Default, r, AllOutputs))
      <4> HIDE DEF r
      <4> QED BY <2>5, <2>6, MovedServes
    <3> QED BY <2>4, <2>5, <3>1 DEF OutputsAfter
  <2> QED BY <2>4, <2>5, <2>6 DEF DoesTheJob
<1>2. IInv /\ [Next]_vars =>
        [~up /\ up' /\ origin.author = "save" /\ AreSolid(foreign) /\ HasSystem(file) =>
           \E c \in origin.means :
             (\A t \in Duration : c.time[t] >= 0) => DoesTheJob(c, Default, AllOutputs)]_vars
  BY <1>1
<1> QED BY <1>2, Invariant, PTL DEF Spec, SavedIsRestored

=============================================================================
