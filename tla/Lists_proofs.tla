---------------------------- MODULE Lists_proofs ----------------------------
(***************************************************************************)
(* Induction over the natural numbers in the form that the provers can     *)
(* use, about a set rather than a predicate; and what the loop of Lists    *)
(* collects.                                                               *)
(***************************************************************************)
EXTENDS Lists, WellFoundedInduction, TLAPS

\* The provers get more time than by default; a step that is left to Zenon says so.
USE SMTT(20), ZenonT(20)

\* A non-empty set of natural numbers has a least element.
LEMMA LeastNatural ==
    ASSUME NEW T \in SUBSET Nat, T # {}
    PROVE  \E x \in T : \A y \in T : x <= y
<1> DEFINE R == OpToRel(<, Nat)
<1>1. IsWellFoundedOn(R, Nat)
  BY Zenon, NatLessThanWellFounded
<1>2. R = {p \in Nat \X Nat : p[1] < p[2]}
  BY DEF OpToRel
<1> HIDE DEF R
<1>3. PICK x \in T : \A y \in T : ~(<<y, x>> \in R)
  BY Zenon, <1>1, WFMin
<1>4. ASSUME NEW y \in T PROVE x <= y
  <2>1. x \in Nat /\ y \in Nat
    OBVIOUS
  <2>2. ~(y < x)
    BY Zenon, <1>2, <1>3, <2>1
  <2> QED
    BY <2>1, <2>2
<1> QED
  BY <1>4

\* A set with 0 and with the successor of each of its numbers has all of them.
LEMMA NaturalInduction ==
    ASSUME NEW S, 0 \in S, \A n \in Nat : n \in S => n + 1 \in S
    PROVE  Nat \subseteq S
<1> DEFINE T == Nat \ S
<1>1. CASE T # {}
  <2>1. PICK x \in T : \A y \in T : x <= y
    BY Zenon, <1>1, LeastNatural
  <2>2. x # 0 /\ x - 1 \in Nat /\ x - 1 \notin T
    BY <2>1
  <2> QED
    BY <2>1, <2>2
<1> QED
  BY <1>1

----------------------------------------------------------------------------
(* What Only collects *)

\* The walk along a list ends, with one result for each round.
LEMMA OnlyRounds ==
    ASSUME NEW X, NEW l \in Seq(X), NEW T
    PROVE  \E f : /\ f[0] = <<>>
                  /\ \A i \in 1..Len(l) : f[i] = Collect(f[i - 1], l[i], T)
                  /\ Only(l, T) = f[Len(l)]
<1> DEFINE start == <<>>
           Is(f, k) == f = [i \in 0..k |-> IF i = 0 THEN start ELSE Collect(f[i - 1], l[i], T)]
           S == {k \in Nat : \E f : Is(f, k)}
<1> HIDE DEF start
<1>1. 0 \in S
  <2>1. Is([i \in 0..0 |-> start], 0)
    OBVIOUS
  <2> QED
    BY Zenon, <2>1
<1>2. ASSUME NEW k \in Nat, k \in S PROVE k + 1 \in S
  <2>1. PICK f : Is(f, k)
    BY <1>2
  <2> DEFINE g == [i \in 0..(k + 1) |-> IF i = k + 1 THEN Collect(f[k], l[k + 1], T) ELSE f[i]]
  <2>2. Is(g, k + 1)
    <3> DEFINE h == [i \in 0..(k + 1) |-> IF i = 0 THEN start ELSE Collect(g[i - 1], l[i], T)]
    <3>1. ASSUME NEW i \in 0..(k + 1) PROVE g[i] = h[i]
      <4>1. CASE i = 0
        BY <2>1, <4>1
      <4>2. CASE i \in 1..k
        <5>1. g[i] = f[i] /\ g[i - 1] = f[i - 1]
          BY <4>2
        <5>2. f[i] = Collect(f[i - 1], l[i], T)
          BY <2>1, <4>2
        <5> QED
          BY <4>2, <5>1, <5>2
      <4>3. CASE i = k + 1
        BY <4>3
      <4> QED
        BY <4>1, <4>2, <4>3
    <3> QED
      BY Zenon, <3>1
  <2> HIDE DEF g
  <2>3. \E x : Is(x, k + 1)
    BY <2>2
  <2> HIDE DEF Is
  <2> QED
    BY <2>3
<1>3. Len(l) \in S
  <2> HIDE DEF S
  <2>1. Nat \subseteq S
    BY <1>1, <1>2, NaturalInduction
  <2> QED
    BY <2>1
<1>4. PICK f : f = CHOOSE g : Is(g, Len(l))
  OBVIOUS
<1>5. Is(f, Len(l))
  BY Zenon, <1>3, <1>4
<1>6. Only(l, T) = f[Len(l)]
  BY <1>4 DEF Only, start
<1>7. f[0] = start /\ \A i \in 1..Len(l) : f[i] = Collect(f[i - 1], l[i], T)
  <2>1. PICK n \in Nat : n = Len(l)
    OBVIOUS
  <2>2. f = [i \in 0..n |-> IF i = 0 THEN start ELSE Collect(f[i - 1], l[i], T)]
    BY Zenon, <1>5, <2>1
  <2>3. f[0] = start
    BY <2>2
  <2>4. ASSUME NEW i \in 1..n PROVE f[i] = Collect(f[i - 1], l[i], T)
    <3>1. i \in 0..n /\ i # 0
      OBVIOUS
    <3> QED
      BY <2>2, <3>1
  <2> QED
    BY <2>1, <2>3, <2>4
<1> QED
  BY <1>6, <1>7 DEF start

\* The elements of a list in T are those after place o, up to place p; and a list that
\* is this part of it.
Window(l, T, o, p) == \A i \in 1..Len(l) : l[i] \in T <=> o < i /\ i <= p
Part(r, l, o, p) == Len(r) = p - o /\ \A j \in 1..(p - o) : r[j] = l[o + j]

\* If the elements to collect lie next to each other, what is collected is that part.
LEMMA OnlyWindow ==
    ASSUME NEW X, NEW l \in Seq(X), NEW T, NEW o \in Nat, NEW p \in Nat, o <= p, p <= Len(l),
           Window(l, T, o, p)
    PROVE  Only(l, T) \in Seq(X) /\ Part(Only(l, T), l, o, p)
<1>1. PICK f : /\ f[0] = <<>>
               /\ \A i \in 1..Len(l) : f[i] = Collect(f[i - 1], l[i], T)
               /\ Only(l, T) = f[Len(l)]
  BY OnlyRounds
<1> DEFINE Size(k) == IF k <= o THEN 0 ELSE IF k <= p THEN k - o ELSE p - o
           Holds(s, k) == /\ s \in Seq(X) /\ Len(s) = Size(k)
                          /\ \A j \in 1..Size(k) : s[j] = l[o + j]
           S == {k \in Nat : k <= Len(l) => Holds(f[k], k)}
<1>2. 0 \in S
  <2>1. f[0] \in Seq(X) /\ Len(f[0]) = 0
    BY <1>1
  <2>2. Size(0) = 0
    OBVIOUS
  <2> QED
    BY <2>1, <2>2
<1>3. ASSUME NEW k \in Nat, k \in S PROVE k + 1 \in S
  <2> SUFFICES ASSUME k + 1 <= Len(l) PROVE Holds(f[k + 1], k + 1)
    OBVIOUS
  <2>1. PICK s : s = f[k]
    OBVIOUS
  <2>2. Holds(s, k)
    BY <1>3, <2>1
  <2>3. PICK x \in X : x = l[k + 1]
    OBVIOUS
  <2>4. f[k + 1] = Collect(s, x, T)
    <3>1. k + 1 \in 1..Len(l) /\ (k + 1) - 1 = k
      OBVIOUS
    <3> QED
      BY <1>1, <2>1, <2>3, <3>1
  <2>5. x \in T <=> o < k + 1 /\ k + 1 <= p
    BY <2>3 DEF Window
  <2>6. CASE o < k + 1 /\ k + 1 <= p
    <3>1. f[k + 1] = Append(s, x)
      BY <2>4, <2>5, <2>6 DEF Collect
    <3>2. Size(k) = k - o /\ Size(k + 1) = k - o + 1 /\ k - o \in Nat
      BY <2>6
    <3>3. PICK n \in Nat : n = k - o
      BY <3>2
    <3>4. PICK r : r = Append(s, x)
      BY Zenon
    <3>5. s \in Seq(X) /\ Len(s) = n /\ \A j \in 1..n : s[j] = l[o + j]
      BY <2>2, <3>2, <3>3
    <3>6. /\ r \in Seq(X) /\ Len(r) = n + 1 /\ r[n + 1] = x
          /\ \A j \in 1..n : r[j] = s[j]
      BY <3>4, <3>5
    <3>7. l[o + (n + 1)] = x
      BY <2>3, <3>3
    <3>8. \A j \in 1..(n + 1) : r[j] = l[o + j]
      <4> SUFFICES ASSUME NEW j \in 1..(n + 1) PROVE r[j] = l[o + j]
        OBVIOUS
      <4>1. CASE j = n + 1
        BY <3>6, <3>7, <4>1
      <4>2. CASE j \in 1..n
        BY <3>5, <3>6, <4>2
      <4> QED
        BY <4>1, <4>2
    <3>9. Size(k + 1) = n + 1
      BY <3>2, <3>3
    <3> HIDE DEF Size
    <3> QED
      BY <3>1, <3>4, <3>6, <3>8, <3>9
  <2>7. CASE ~(o < k + 1 /\ k + 1 <= p)
    <3>1. f[k + 1] = s
      BY <2>4, <2>5, <2>7 DEF Collect
    <3>2. Size(k + 1) = Size(k)
      BY <2>7
    <3> HIDE DEF Size
    <3> QED
      BY <2>2, <3>1, <3>2
  <2> QED
    BY <2>6, <2>7
<1>4. Len(l) \in S
  <2> HIDE DEF S
  <2>1. Nat \subseteq S
    BY <1>2, <1>3, NaturalInduction
  <2> QED
    BY <2>1
<1>5. Size(Len(l)) = p - o
  OBVIOUS
<1> HIDE DEF Size
<1>6. Holds(Only(l, T), Len(l))
  BY <1>1, <1>4
<1> QED
  BY <1>5, <1>6 DEF Part

\* A list has elements of another only, and all of those that are in T.
Gathers(r, l, T) ==
    /\ \A j \in 1..Len(r) : \E i \in 1..Len(l) : r[j] = l[i]
    /\ \A i \in 1..Len(l) : l[i] \in T => \E j \in 1..Len(r) : r[j] = l[i]

\* What is collected is in the list, and nothing is forgotten.
LEMMA OnlyMembers ==
    ASSUME NEW X, NEW l \in Seq(X), NEW T
    PROVE  Only(l, T) \in Seq(X) /\ Gathers(Only(l, T), l, T)
<1>1. PICK f : /\ f[0] = <<>>
               /\ \A i \in 1..Len(l) : f[i] = Collect(f[i - 1], l[i], T)
               /\ Only(l, T) = f[Len(l)]
  BY OnlyRounds
<1> DEFINE Holds(s, k) == /\ s \in Seq(X)
                          /\ \A j \in 1..Len(s) : \E i \in 1..Len(l) : s[j] = l[i]
                          /\ \A i \in 1..k : l[i] \in T => \E j \in 1..Len(s) : s[j] = l[i]
           S == {k \in Nat : k <= Len(l) => Holds(f[k], k)}
<1>2. 0 \in S
  <2>1. f[0] \in Seq(X) /\ Len(f[0]) = 0
    BY <1>1
  <2> QED
    BY <2>1
<1>3. ASSUME NEW k \in Nat, k \in S PROVE k + 1 \in S
  <2> SUFFICES ASSUME k + 1 <= Len(l) PROVE Holds(f[k + 1], k + 1)
    OBVIOUS
  <2>1. PICK s : s = f[k]
    OBVIOUS
  <2>2. Holds(s, k)
    BY <1>3, <2>1
  <2>3. PICK x \in X : x = l[k + 1]
    OBVIOUS
  <2>4. f[k + 1] = Collect(s, x, T)
    <3>1. k + 1 \in 1..Len(l) /\ (k + 1) - 1 = k
      OBVIOUS
    <3> QED
      BY <1>1, <2>1, <2>3, <3>1
  <2>5. CASE x \in T
    <3>1. PICK r : r = Append(s, x)
      BY Zenon
    <3>2. f[k + 1] = r
      BY <2>4, <2>5, <3>1 DEF Collect
    <3>3. PICK n \in Nat : n = Len(s)
      BY <2>2
    <3>4. r \in Seq(X) /\ Len(r) = n + 1 /\ r[n + 1] = x /\ \A j \in 1..n : r[j] = s[j]
      BY <2>2, <3>1, <3>3
    <3>5. \A j \in 1..(n + 1) : \E i \in 1..Len(l) : r[j] = l[i]
      <4> SUFFICES ASSUME NEW j \in 1..(n + 1) PROVE \E i \in 1..Len(l) : r[j] = l[i]
        OBVIOUS
      <4>1. CASE j = n + 1
        BY <2>3, <3>4, <4>1
      <4>2. CASE j \in 1..n
        BY <2>2, <3>3, <3>4, <4>2
      <4> QED
        BY <4>1, <4>2
    <3>6. \A i \in 1..(k + 1) : l[i] \in T => \E j \in 1..(n + 1) : r[j] = l[i]
      <4> SUFFICES ASSUME NEW i \in 1..(k + 1), l[i] \in T PROVE \E j \in 1..(n + 1) : r[j] = l[i]
        OBVIOUS
      <4>1. CASE i = k + 1
        BY <2>3, <3>4, <4>1
      <4>2. CASE i \in 1..k
        <5>1. PICK j \in 1..n : s[j] = l[i]
          BY <2>2, <3>3, <4>2
        <5> QED
          BY <3>4, <5>1
      <4> QED
        BY <4>1, <4>2
    <3> QED
      BY <3>2, <3>4, <3>5, <3>6
  <2>6. CASE x \notin T
    <3>1. f[k + 1] = s
      BY <2>4, <2>6 DEF Collect
    <3> QED
      BY <2>2, <2>3, <2>6, <3>1
  <2> QED
    BY <2>5, <2>6
<1>4. Len(l) \in S
  <2> HIDE DEF S
  <2>1. Nat \subseteq S
    BY <1>2, <1>3, NaturalInduction
  <2> QED
    BY <2>1
<1> QED
  BY <1>1, <1>4 DEF Gathers

\* What is collected is in T and in the order of the list: two elements of T are related
\* as they are there.
LEMMA OnlyOrder ==
    ASSUME NEW X, NEW l \in Seq(X), NEW T, NEW R,
           \A i, j \in 1..Len(l) : i < j /\ l[i] \in T /\ l[j] \in T => <<l[i], l[j]>> \in R
    PROVE  /\ \A j \in 1..Len(Only(l, T)) : Only(l, T)[j] \in T
           /\ \A i, j \in 1..Len(Only(l, T)) : i < j => <<Only(l, T)[i], Only(l, T)[j]>> \in R
<1>1. PICK f : /\ f[0] = <<>>
               /\ \A i \in 1..Len(l) : f[i] = Collect(f[i - 1], l[i], T)
               /\ Only(l, T) = f[Len(l)]
  BY OnlyRounds
<1> DEFINE From(s, k) == \A j \in 1..Len(s) : s[j] \in T /\ \E i \in 1..k : s[j] = l[i]
           Sorted(s) == \A i, j \in 1..Len(s) : i < j => <<s[i], s[j]>> \in R
           Holds(s, k) == s \in Seq(X) /\ From(s, k) /\ Sorted(s)
           S == {k \in Nat : k <= Len(l) => Holds(f[k], k)}
<1>2. 0 \in S
  <2>1. f[0] \in Seq(X) /\ Len(f[0]) = 0
    BY <1>1
  <2> QED
    BY <2>1
<1>3. ASSUME NEW k \in Nat, k \in S PROVE k + 1 \in S
  <2> SUFFICES ASSUME k + 1 <= Len(l) PROVE Holds(f[k + 1], k + 1)
    OBVIOUS
  <2>1. PICK s : s = f[k]
    OBVIOUS
  <2>2. Holds(s, k)
    BY <1>3, <2>1
  <2>3. PICK x \in X : x = l[k + 1]
    OBVIOUS
  <2>4. f[k + 1] = Collect(s, x, T)
    <3>1. k + 1 \in 1..Len(l) /\ (k + 1) - 1 = k
      OBVIOUS
    <3> QED
      BY <1>1, <2>1, <2>3, <3>1
  <2>5. CASE x \in T
    <3>1. PICK r : r = Append(s, x)
      BY Zenon
    <3>2. f[k + 1] = r
      BY <2>4, <2>5, <3>1 DEF Collect
    <3>3. PICK n \in Nat : n = Len(s)
      BY <2>2
    <3>4. r \in Seq(X) /\ Len(r) = n + 1 /\ r[n + 1] = x /\ \A j \in 1..n : r[j] = s[j]
      BY <2>2, <3>1, <3>3
    <3>5. ASSUME NEW j \in 1..n PROVE r[j] \in T /\ <<r[j], x>> \in R /\ \E i \in 1..(k + 1) : r[j] = l[i]
      <4>1. s[j] \in T /\ \E i \in 1..k : s[j] = l[i]
        BY Zenon, <2>2, <3>3
      <4>2. PICK i \in 1..k : s[j] = l[i]
        BY Zenon, <4>1
      <4>3. i \in 1..(k + 1) /\ i \in 1..Len(l) /\ k + 1 \in 1..Len(l) /\ i < k + 1
        OBVIOUS
      <4>4. r[j] = s[j]
        BY Zenon, <3>4
      <4>5. <<l[i], l[k + 1]>> \in R
        BY Zenon, <2>3, <2>5, <4>1, <4>2, <4>3
      <4> QED
        BY Zenon, <2>3, <4>1, <4>2, <4>3, <4>4, <4>5
    <3>6. \A j \in 1..(n + 1) : j \in 1..n \/ j = n + 1
      OBVIOUS
    <3>7. From(r, k + 1)
      <4>1. k + 1 \in 1..(k + 1)
        OBVIOUS
      <4>2. ASSUME NEW j \in 1..(n + 1) PROVE r[j] \in T /\ \E i \in 1..(k + 1) : r[j] = l[i]
        BY Zenon, <2>3, <2>5, <3>4, <3>5, <3>6, <4>1
      <4> QED
        BY Zenon, <3>4, <4>2
    <3>8. Sorted(r)
      <4>1. ASSUME NEW i \in 1..(n + 1), NEW j \in 1..(n + 1), i < j PROVE <<r[i], r[j]>> \in R
        <5>1. i \in 1..n
          BY <4>1
        <5>2. CASE j = n + 1
          BY Zenon, <3>4, <3>5, <5>1, <5>2
        <5>3. CASE j \in 1..n
          BY Zenon, <2>2, <3>3, <3>4, <4>1, <5>1, <5>3
        <5> QED
          BY Zenon, <3>6, <5>2, <5>3
      <4> QED
        BY Zenon, <3>4, <4>1
    <3> QED
      BY Zenon, <3>2, <3>4, <3>7, <3>8
  <2>6. CASE x \notin T
    <3>1. f[k + 1] = s
      BY <2>4, <2>6 DEF Collect
    <3>2. From(s, k + 1)
      BY <2>2
    <3> QED
      BY Zenon, <2>2, <3>1, <3>2
  <2> QED
    BY <2>5, <2>6
<1>4. Len(l) \in S
  <2> HIDE DEF S
  <2>1. Nat \subseteq S
    BY <1>2, <1>3, NaturalInduction
  <2> QED
    BY <2>1
<1>5. Holds(Only(l, T), Len(l))
  BY <1>1, <1>4
<1> QED
  BY Zenon, <1>5

\* The elements of a list, and a list that has each once.
Elements(l) == {l[i] : i \in 1..Len(l)}
Distinct(l) == \A i, j \in 1..Len(l) : l[i] = l[j] => i = j

\* An element that is not in the list may be put at its end.
LEMMA CollectListed ==
    ASSUME NEW X, NEW s \in Seq(X), Distinct(s), NEW q \in X, q \notin Elements(s), NEW T
    PROVE  /\ Collect(s, q, T) \in Seq(X)
           /\ Distinct(Collect(s, q, T))
           /\ Elements(Collect(s, q, T)) = Elements(s) \cup ({q} \cap T)
<1>1. CASE q \notin T
  BY <1>1 DEF Collect
<1>2. CASE q \in T
  <2>1. PICK l : l = Append(s, q)
    BY Zenon
  <2>2. /\ l \in Seq(X) /\ Len(l) = Len(s) + 1 /\ Len(s) \in Nat /\ l[Len(s) + 1] = q
        /\ \A i \in 1..Len(s) : l[i] = s[i]
    BY <2>1
  <2>3. Elements(l) = Elements(s) \cup {q}
    BY <2>2 DEF Elements
  <2>4. Distinct(l)
    BY <2>2 DEF Distinct, Elements
  <2>5. Collect(s, q, T) = l
    BY <1>2, <2>1 DEF Collect
  <2> QED
    BY <1>2, <2>2, <2>3, <2>4, <2>5
<1> QED
  BY <1>1, <1>2

\* What is collected from a list without repetitions: its members in the set, each once.
LEMMA OnlyListed ==
    ASSUME NEW X, NEW l \in Seq(X), Distinct(l), NEW T
    PROVE  /\ Only(l, T) \in Seq(X)
           /\ Distinct(Only(l, T))
           /\ Elements(Only(l, T)) = Elements(l) \cap T
<1>1. PICK f : /\ f[0] = <<>>
               /\ \A i \in 1..Len(l) : f[i] = Collect(f[i - 1], l[i], T)
               /\ Only(l, T) = f[Len(l)]
  BY OnlyRounds
<1> DEFINE Before(i) == {l[j] : j \in 1..i}
           Good(i) == /\ f[i] \in Seq(X) /\ Distinct(f[i])
                      /\ Elements(f[i]) = Before(i) \cap T
           S == {k \in Nat : k <= Len(l) => Good(k)}
<1>2. 0 \in S
  <2>1. f[0] \in Seq(X) /\ Len(f[0]) = 0
    BY <1>1
  <2>2. Before(0) = {} /\ Elements(f[0]) = {} /\ Distinct(f[0])
    BY <2>1 DEF Elements, Distinct
  <2> QED
    BY <2>1, <2>2
<1>3. ASSUME NEW k \in Nat, k \in S PROVE k + 1 \in S
  <2> SUFFICES ASSUME k + 1 <= Len(l) PROVE Good(k + 1)
    OBVIOUS
  <2>1. PICK n \in 1..Len(l) : n = k + 1
    OBVIOUS
  <2>2. PICK s \in Seq(X) : s = f[k] /\ Distinct(s) /\ Elements(s) = Before(k) \cap T
    BY <1>3
  <2>3. PICK q \in X : q = l[n]
    OBVIOUS
  <2>4. f[n] = Collect(s, q, T)
    BY <1>1, <2>1, <2>2, <2>3
  <2>5. q \notin Before(k)
    BY <2>1, <2>3 DEF Distinct
  <2>6. Before(n) = Before(k) \cup {q}
    BY <2>1, <2>3
  <2>7. q \notin Elements(s)
    BY <2>2, <2>5
  <2> HIDE DEF Before
  <2>8. /\ f[n] \in Seq(X) /\ Distinct(f[n])
        /\ Elements(f[n]) = Elements(s) \cup ({q} \cap T)
    BY <2>2, <2>4, <2>7, CollectListed
  <2>9. Elements(f[n]) = Before(n) \cap T
    BY <2>2, <2>6, <2>8
  <2> QED
    BY <2>1, <2>8, <2>9
<1>4. Good(Len(l))
  <2>1. Len(l) \in Nat
    OBVIOUS
  <2>2. Len(l) \in S
    <3> HIDE DEF S
    <3> QED
      BY <1>2, <1>3, <2>1, NaturalInduction
  <2> QED
    BY <2>1, <2>2
<1> QED
  BY <1>1, <1>4 DEF Elements
=============================================================================
