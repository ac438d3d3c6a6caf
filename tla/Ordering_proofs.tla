---------------------------- MODULE Ordering_proofs ----------------------------
(***************************************************************************)
(* What the operators of Ordering compute, for lists of any length.        *)
(*                                                                         *)
(* Induction is by way of sets, so that no operator stands for the         *)
(* hypothesis: a family of subsets of a finite set S that holds {} and,    *)
(* with a set, the sets with one element more, holds S, because what it    *)
(* lacks would have a minimum.                                             *)
(***************************************************************************)
EXTENDS Ordering, FiniteSetTheorems, FunctionTheorems, SequenceTheorems, TLAPS

LEMMA FiniteInduct ==
  ASSUME NEW S, IsFiniteSet(S), NEW F, {} \in F,
         \A A \in SUBSET S, x \in S : A \in F /\ x \notin A => A \cup {x} \in F
  PROVE  S \in F
<1>0. FiniteSubsetsOf(S) = SUBSET S
  BY FS_FiniteSubsetsOfFinite
<1>1. SUFFICES ASSUME S \notin F PROVE FALSE
  OBVIOUS
<1> DEFINE Lacking == {A \in SUBSET S : A \notin F}
<1>2. PICK A \in Lacking : \A B \in Lacking : ~(<<B, A>> \in StrictSubsetOrdering(S))
  <2>1. Lacking \subseteq FiniteSubsetsOf(S) /\ Lacking # {}
    BY <1>0, <1>1
  <2> QED
    BY <2>1, FS_StrictSubsetOrderingWellFounded, WFMin
<1>3. PICK x \in A : TRUE
  OBVIOUS
<1>4. A \ {x} \in F
  <2>1. A \ {x} \subseteq A /\ A \ {x} # A /\ A \ {x} \in SUBSET S /\ A \in SUBSET S
    OBVIOUS
  <2>2. <<A \ {x}, A>> \in StrictSubsetOrdering(S)
    BY <2>1 DEF StrictSubsetOrdering
  <2> QED
    BY <1>2, <2>1, <2>2
<1>5. (A \ {x}) \cup {x} \in F
  BY <1>4
<1> QED
  BY <1>5

(***************************************************************************)
(* Induction over the natural numbers, and over a beginning of them.       *)
(***************************************************************************)
LEMMA NatInduct ==
  ASSUME NEW T, 0 \in T, \A n \in Nat : n \in T => n + 1 \in T
  PROVE  Nat \subseteq T
<1> SUFFICES ASSUME NEW m \in Nat PROVE m \in T
  OBVIOUS
<1> DEFINE F == {A \in SUBSET (1..m) : Cardinality(A) \in T}
<1>1. IsFiniteSet(1..m) /\ Cardinality(1..m) = m
  BY FS_Interval
<1>2. {} \in F
  BY FS_EmptySet
<1>3. ASSUME NEW A \in SUBSET (1..m), NEW x \in 1..m, A \in F, x \notin A
      PROVE  A \cup {x} \in F
  <2>1. IsFiniteSet(A) /\ Cardinality(A) \in Nat
    BY <1>1, FS_Subset, FS_CardinalityType
  <2>2. Cardinality(A \cup {x}) = Cardinality(A) + 1
    BY <1>3, <2>1, FS_AddElement
  <2> QED
    BY <1>3, <2>1, <2>2
<1> HIDE DEF F
<1>4. 1..m \in F
  BY <1>1, <1>2, <1>3, FiniteInduct
<1> QED
  BY <1>1, <1>4 DEF F

LEMMA UptoInduct ==
  ASSUME NEW n \in Nat, NEW T, 0 \in T,
         \A i \in 1..n : i - 1 \in T => i \in T
  PROVE  0..n \subseteq T
<1> DEFINE U == {i \in Nat : i <= n => i \in T}
<1>1. 0 \in U
  OBVIOUS
<1>2. \A i \in Nat : i \in U => i + 1 \in U
  <2> SUFFICES ASSUME NEW i \in Nat, i \in U, i + 1 <= n PROVE i + 1 \in T
    OBVIOUS
  <2>1. i \in T /\ i + 1 \in 1..n /\ (i + 1) - 1 = i
    OBVIOUS
  <2> QED
    BY <2>1
<1> HIDE DEF U
<1>3. Nat \subseteq U
  BY <1>1, <1>2, NatInduct
<1> QED
  BY <1>3 DEF U

LEMMA Least ==
  ASSUME NEW T \in SUBSET Nat, T # {}
  PROVE  \E n \in T : \A m \in T : n <= m
<1> SUFFICES ASSUME \A n \in T : \E m \in T : m < n PROVE FALSE
  OBVIOUS
<1> DEFINE U == {n \in Nat : \A m \in T : n <= m}
<1>1. 0 \in U
  OBVIOUS
<1>2. \A n \in Nat : n \in U => n + 1 \in U
  OBVIOUS
<1> HIDE DEF U
<1>3. Nat \subseteq U
  BY <1>1, <1>2, NatInduct
<1>4. PICK m \in T : TRUE
  OBVIOUS
<1>5. m + 1 \in Nat
  OBVIOUS
<1> QED
  BY <1>3, <1>4, <1>5 DEF U

------------------------------------------------------------------------------
(***************************************************************************)
(* o lists the m members of J, each once.                                  *)
(***************************************************************************)
Enumerates(o, m, J) ==
  /\ m \in Nat
  /\ o \in [1..m -> J]
  /\ \A a, b \in 1..m : o[a] = o[b] => a = b
  /\ \A j \in J : \E k \in 1..m : o[k] = j

Increasing(o, m) == \A k, l \in 1..m : k < l => o[k] < o[l]

(***************************************************************************)
(* The items of s at the places that o lists, and a list with one more.    *)
(***************************************************************************)
Along(s, o, m) == [k \in 1..m |-> s[o[k]]]

Extended(o, m, x) == [k \in 1..m + 1 |-> IF k <= m THEN o[k] ELSE x]

Image(f, J) == {f[j] : j \in J}

(***************************************************************************)
(* r holds the items of s at the indices J, in the order of o.             *)
(***************************************************************************)
Lists(r, s, o, m, J) ==
  /\ Enumerates(o, m, J)
  /\ r = Along(s, o, m)

LEMMA EnumerationIsBijection ==
  ASSUME NEW m \in Nat, NEW J, NEW o
  PROVE  Enumerates(o, m, J) <=> o \in Bijection(1..m, J)
<1>1. ASSUME Enumerates(o, m, J) PROVE o \in Bijection(1..m, J)
  BY <1>1, Fun_IsBij DEF Enumerates
<1>2. ASSUME o \in Bijection(1..m, J) PROVE Enumerates(o, m, J)
  BY <1>2, Fun_BijectionProperties DEF Enumerates
<1> QED
  BY <1>1, <1>2

LEMMA EnumerationCounts ==
  ASSUME NEW m, NEW J, NEW o, Enumerates(o, m, J)
  PROVE  m \in Nat /\ IsFiniteSet(J) /\ Cardinality(J) = m
<1>1. m \in Nat /\ o \in Bijection(1..m, J)
  BY EnumerationIsBijection DEF Enumerates
<1>2. ExistsBijection(1..m, J) /\ IsFiniteSet(1..m) /\ Cardinality(1..m) = m
  BY <1>1, Fun_ExistsBij, FS_Interval
<1> QED
  BY <1>1, <1>2, FS_Bijection

LEMMA EnumerationExtended ==
  ASSUME NEW m, NEW J, NEW o, NEW x, Enumerates(o, m, J), x \notin J
  PROVE  Enumerates(Extended(o, m, x), m + 1, J \cup {x})
<1> DEFINE p == Extended(o, m, x)
<1>1. m \in Nat /\ m + 1 \in Nat /\ p \in [1..m + 1 -> J \cup {x}]
  BY DEF Enumerates, Extended
<1>2. /\ \A k \in 1..m : k \in 1..m + 1 /\ p[k] = o[k] /\ p[k] \in J
      /\ m + 1 \in 1..m + 1 /\ p[m + 1] = x
      /\ 1..m + 1 = 1..m \cup {m + 1}
  BY <1>1 DEF Enumerates, Extended
<1> HIDE DEF p
<1>3. \A a, b \in 1..m + 1 : p[a] = p[b] => a = b
  BY <1>2 DEF Enumerates
<1>4. \A j \in J \cup {x} : \E k \in 1..m + 1 : p[k] = j
  BY <1>2 DEF Enumerates
<1>5. Enumerates(p, m + 1, J \cup {x})
  BY <1>1, <1>3, <1>4 DEF Enumerates
<1> QED
  BY <1>5 DEF p

(***************************************************************************)
(* Two lists of the members of one set differ by a rearrangement.          *)
(***************************************************************************)
LEMMA EnumerationRearranged ==
  ASSUME NEW n, NEW m, NEW J, NEW p, NEW o, Enumerates(p, n, J), Enumerates(o, m, J)
  PROVE  /\ m = n
         /\ \E q : /\ Enumerates(q, n, 1..n)
                   /\ \A k \in 1..n : p[k] = o[q[k]]
<1> DEFINE q == [k \in 1..n |-> CHOOSE i \in 1..n : o[i] = p[k]]
<1>0. m = n
  BY EnumerationCounts
<1>1. \A k \in 1..n : q[k] \in 1..n /\ o[q[k]] = p[k]
  BY <1>0 DEF Enumerates
<1>2. n \in Nat /\ q \in [1..n -> 1..n]
  BY <1>1 DEF Enumerates
<1> HIDE DEF q
<1>3. \A a, b \in 1..n : q[a] = q[b] => a = b
  BY <1>1 DEF Enumerates
<1>4. ASSUME NEW i \in 1..n PROVE \E k \in 1..n : q[k] = i
  <2>1. PICK k \in 1..n : p[k] = o[i]
    BY <1>0 DEF Enumerates
  <2>2. q[k] = i
    BY <1>0, <1>1, <2>1 DEF Enumerates
  <2> QED
    BY <2>2
<1>5. Enumerates(q, n, 1..n)
  BY <1>2, <1>3, <1>4 DEF Enumerates
<1> QED
  BY <1>0, <1>1, <1>5

LEMMA EnumerationOfAll ==
  ASSUME NEW m \in Nat
  PROVE  \E o : Enumerates(o, m, 1..m) /\ \A k \in 1..m : o[k] = k
<1>1. Enumerates([k \in 1..m |-> k], m, 1..m)
  BY DEF Enumerates
<1> QED
  BY <1>1

LEMMA EnumerationInverted ==
  ASSUME NEW n, NEW p, Enumerates(p, n, 1..n)
  PROVE  \E q : Enumerates(q, n, 1..n) /\ \A k \in 1..n : p[q[k]] = k
<1>1. n \in Nat
  BY DEF Enumerates
<1>2. PICK all : Enumerates(all, n, 1..n) /\ \A k \in 1..n : all[k] = k
  BY <1>1, EnumerationOfAll
<1>3. PICK q : Enumerates(q, n, 1..n) /\ \A k \in 1..n : all[k] = p[q[k]]
  BY <1>2, EnumerationRearranged
<1> QED
  BY <1>2, <1>3

(***************************************************************************)
(* Lists that are picked and selected.                                     *)
(***************************************************************************)
LEMMA PickIs ==
  ASSUME NEW s, NEW n \in Nat, NEW D, NEW o \in [1..n -> D]
  PROVE  Pick(s, o) = Along(s, o, n)
<1>1. Len(o) = n
  OBVIOUS
<1> QED
  BY <1>1 DEF Pick, Along

LEMMA SelectedUnrolled ==
  ASSUME NEW S, NEW s \in Seq(S), NEW C
  PROVE  \E u : /\ u[0] = <<>>
                /\ \A i \in 1..Len(s) :
                     u[i] = IF s[i] \in C THEN Append(u[i - 1], s[i]) ELSE u[i - 1]
                /\ Selected(s, C) = u[Len(s)]
<1> DEFINE n == Len(s)
           Rule(u, h) == u = [i \in 0..h |->
                                IF i = 0 THEN <<>>
                                ELSE IF s[i] \in C THEN Append(u[i - 1], s[i]) ELSE u[i - 1]]
           T == {h \in Nat : \E u : Rule(u, h)}
<1>1. n \in Nat
  OBVIOUS
<1>2. 0 \in T
  <2>1. Rule([i \in 0..0 |-> <<>>], 0)
    OBVIOUS
  <2> QED
    BY <2>1
<1>3. ASSUME NEW h \in Nat, h \in T PROVE h + 1 \in T
  <2>1. PICK u : Rule(u, h)
    BY <1>3
  <2> DEFINE next == IF s[h + 1] \in C THEN Append(u[h], s[h + 1]) ELSE u[h]
             w == [i \in 0..h + 1 |-> IF i <= h THEN u[i] ELSE next]
  <2>2. /\ \A i \in 0..h : i \in 0..h + 1 /\ w[i] = u[i]
        /\ h + 1 \in 0..h + 1 /\ w[h + 1] = next
        /\ 0..h + 1 = 0..h \cup {h + 1}
    BY <1>3
  <2>3. \A i \in 0..h : u[i] = IF i = 0 THEN <<>>
                               ELSE IF s[i] \in C THEN Append(u[i - 1], s[i]) ELSE u[i - 1]
    BY <2>1
  <2>4. \A i \in 0..h : i # 0 => i - 1 \in 0..h
    OBVIOUS
  <2>5. h + 1 # 0 /\ (h + 1) - 1 = h /\ h \in 0..h
    BY <1>3
  <2>6. ASSUME NEW i \in 0..h + 1
        PROVE  w[i] = IF i = 0 THEN <<>>
                      ELSE IF s[i] \in C THEN Append(w[i - 1], s[i]) ELSE w[i - 1]
    <3> HIDE DEF w
    <3>1. CASE i \in 0..h
      BY <2>2, <2>3, <2>4, <3>1
    <3>2. CASE i = h + 1
      BY <2>2, <2>5, <3>2
    <3> QED
      BY <2>2, <3>1, <3>2
  <2>7. Rule(w, h + 1)
    BY <2>6
  <2> HIDE DEF Rule, w
  <2>8. \E v : Rule(v, h + 1)
    BY <2>7
  <2> QED
    BY <1>3, <2>8
<1> HIDE DEF T
<1>4. n \in T
  BY <1>1, <1>2, <1>3, NatInduct
<1>5. \E u : Rule(u, n)
  BY <1>4 DEF T
<1> DEFINE u == CHOOSE u : Rule(u, n)
<1>6. Rule(u, n)
  BY <1>5
<1>7. Selected(s, C) = u[n]
  BY DEF Selected
<1> HIDE DEF u
<1>8. 0 \in 0..n /\ \A i \in 1..n : i \in 0..n /\ i # 0
  BY <1>1
<1>9. /\ u[0] = <<>>
      /\ \A i \in 1..n : u[i] = IF s[i] \in C THEN Append(u[i - 1], s[i]) ELSE u[i - 1]
  BY <1>6, <1>8
<1> QED
  BY <1>7, <1>9

(***************************************************************************)
(* What is selected is listed by the indices of the items chosen, each     *)
(* once and in their order.                                                *)
(***************************************************************************)
LEMMA SelectedIs ==
  ASSUME NEW S, NEW s \in Seq(S), NEW C
  PROVE  \E m, o : /\ Lists(Selected(s, C), s, o, m, {i \in 1..Len(s) : s[i] \in C})
                   /\ Increasing(o, m)
<1> DEFINE n == Len(s)
           J(i) == {j \in 1..i : s[j] \in C}
<1>1. n \in Nat
  OBVIOUS
<1>2. PICK u : /\ u[0] = <<>>
               /\ \A i \in 1..n : u[i] = IF s[i] \in C THEN Append(u[i - 1], s[i]) ELSE u[i - 1]
               /\ Selected(s, C) = u[n]
  BY SelectedUnrolled
<1> DEFINE T == {i \in 0..n : \E m, o : Lists(u[i], s, o, m, J(i)) /\ Increasing(o, m)}
<1>3. 0 \in T
  <2>1. J(0) = {} /\ 1..0 = {}
    OBVIOUS
  <2>2. Enumerates([k \in 1..0 |-> 0], 0, J(0))
    BY <2>1 DEF Enumerates
  <2>3. Lists(u[0], s, [k \in 1..0 |-> 0], 0, J(0)) /\ Increasing([k \in 1..0 |-> 0], 0)
    BY <1>2, <2>1, <2>2 DEF Lists, Along, Increasing
  <2> QED
    BY <1>1, <2>3
<1>4. ASSUME NEW i \in 1..n, i - 1 \in T PROVE i \in T
  <2>1. PICK m, o : Lists(u[i - 1], s, o, m, J(i - 1)) /\ Increasing(o, m)
    BY <1>4
  <2>2. u[i] = IF s[i] \in C THEN Append(u[i - 1], s[i]) ELSE u[i - 1]
    BY <1>2
  <2>3. CASE s[i] \notin C
    <3>1. J(i) = J(i - 1)
      BY <2>3
    <3>2. Lists(u[i], s, o, m, J(i)) /\ Increasing(o, m)
      BY <2>1, <2>2, <2>3, <3>1
    <3> HIDE DEF J
    <3> QED
      BY <1>1, <3>2
  <2>4. CASE s[i] \in C
    <3> DEFINE p == Extended(o, m, i)
    <3>1. J(i) = J(i - 1) \cup {i} /\ i \notin J(i - 1) /\ \A j \in J(i - 1) : j < i /\ j \in 1..n
      BY <2>4
    <3>2. Enumerates(p, m + 1, J(i))
      <4> HIDE DEF J
      <4> QED
        BY <2>1, <3>1, EnumerationExtended DEF Lists
    <3>3. m \in Nat /\ o \in [1..m -> J(i - 1)]
      BY <2>1 DEF Lists, Enumerates
    <3>4. /\ \A k \in 1..m : k \in 1..m + 1 /\ p[k] = o[k] /\ o[k] < i /\ o[k] \in 1..n
          /\ p[m + 1] = i /\ 1..m + 1 = 1..m \cup {m + 1}
      <4> HIDE DEF J
      <4> QED
        BY <3>1, <3>3 DEF Extended
    <3>5. Increasing(p, m + 1)
      <4> SUFFICES ASSUME NEW k \in 1..m + 1, NEW l \in 1..m + 1, k < l PROVE p[k] < p[l]
        BY DEF Increasing
      <4>1. k \in 1..m /\ l \in 1..m + 1
        BY <3>3
      <4> HIDE DEF J, p
      <4>2. CASE l \in 1..m
        BY <2>1, <3>4, <4>1, <4>2 DEF Increasing
      <4>3. CASE l = m + 1
        BY <3>4, <4>1, <4>3
      <4> QED
        BY <3>4, <4>2, <4>3
    <3>6. u[i] = Along(s, p, m + 1)
      <4> USE DEF Along
      <4> HIDE DEF J, p
      <4>1. [k \in 1..m |-> s[o[k]]] \in Seq(S) /\ s[i] \in S
        BY <3>3, <3>4
      <4>2. Append([k \in 1..m |-> s[o[k]]], s[i])
              = [k \in 1..m + 1 |-> IF k <= m THEN s[o[k]] ELSE s[i]]
        BY <3>3, <4>1
      <4>3. \A k \in 1..m + 1 : s[p[k]] = IF k <= m THEN s[o[k]] ELSE s[i]
        BY <3>3, <3>4
      <4>4. u[i] = Append([k \in 1..m |-> s[o[k]]], s[i])
        BY <2>1, <2>2, <2>4 DEF Lists
      <4> QED
        BY <4>2, <4>3, <4>4
    <3>7. Lists(u[i], s, p, m + 1, J(i)) /\ Increasing(p, m + 1)
      BY <3>2, <3>5, <3>6 DEF Lists
    <3> HIDE DEF J, p
    <3> QED
      BY <1>1, <3>7
  <2> QED
    BY <2>3, <2>4
<1> HIDE DEF T
<1>5. n \in T
  <2>1. 0..n \subseteq T
    BY <1>1, <1>3, <1>4, UptoInduct
  <2> QED
    BY <1>1, <2>1
<1>6. PICK m, o : Lists(u[n], s, o, m, J(n)) /\ Increasing(o, m)
  BY <1>5 DEF T
<1> QED
  BY <1>2, <1>6

LEMMA EnumerationComposed ==
  ASSUME NEW m, NEW J, NEW o, NEW n, NEW K, NEW p,
         Enumerates(o, m, J), Enumerates(p, n, K), J \subseteq 1..n
  PROVE  Enumerates(Along(p, o, m), m, Image(p, J))
<1> USE DEF Along, Image
<1> DEFINE q == Along(p, o, m)
           Q == Image(p, J)
<1>1. m \in Nat /\ q \in [1..m -> Q]
  BY DEF Enumerates
<1>2. \A a, b \in 1..m : q[a] = q[b] => a = b
  <2> SUFFICES ASSUME NEW a \in 1..m, NEW b \in 1..m, p[o[a]] = p[o[b]] PROVE a = b
    OBVIOUS
  <2>1. o[a] \in 1..n /\ o[b] \in 1..n
    BY DEF Enumerates
  <2>2. o[a] = o[b]
    BY <2>1 DEF Enumerates
  <2> QED
    BY <2>2 DEF Enumerates
<1>3. \A x \in Q : \E k \in 1..m : q[k] = x
  BY DEF Enumerates
<1> HIDE DEF q, Q
<1>4. Enumerates(q, m, Q)
  BY <1>1, <1>2, <1>3 DEF Enumerates
<1> QED
  BY <1>4 DEF q, Q

------------------------------------------------------------------------------
(***************************************************************************)
(* Lists that are sorted.  i comes before j.                               *)
(***************************************************************************)
Before(i, j, key) == key[i] > key[j] \/ (key[i] = key[j] /\ i < j)

LEMMA PlaceIs ==
  ASSUME NEW D \in SUBSET Int, IsFiniteSet(D), NEW key \in [D -> Int]
  PROVE  /\ \A i \in D : Place(i, D, key) \in 1..Cardinality(D)
         /\ \A i, j \in D : Before(i, j, key) => Place(i, D, key) < Place(j, D, key)
<1> DEFINE Ahead(i) == {j \in D : key[j] > key[i] \/ (key[j] = key[i] /\ j <= i)}
<1>1. ASSUME NEW i \in D
      PROVE  /\ Ahead(i) \in SUBSET D /\ i \in Ahead(i) /\ IsFiniteSet(Ahead(i))
             /\ Place(i, D, key) = Cardinality(Ahead(i))
             /\ Place(i, D, key) \in 1..Cardinality(D)
  <2>1. Ahead(i) \in SUBSET D /\ i \in Ahead(i)
    OBVIOUS
  <2>2. Place(i, D, key) = Cardinality(Ahead(i))
    BY DEF Place
  <2> HIDE DEF Ahead
  <2>3. IsFiniteSet(Ahead(i)) /\ Cardinality(Ahead(i)) <= Cardinality(D)
    BY <2>1, FS_Subset
  <2>4. Cardinality(Ahead(i)) \in Nat /\ Cardinality(D) \in Nat
    BY <2>3, FS_CardinalityType
  <2>5. Cardinality(Ahead(i)) # 0
    BY <2>1, <2>3, FS_EmptySet
  <2> QED
    BY <2>1, <2>2, <2>3, <2>4, <2>5
<1>2. ASSUME NEW i \in D, NEW j \in D, Before(i, j, key)
      PROVE  Place(i, D, key) < Place(j, D, key)
  <2>1. key[i] \in Int /\ key[j] \in Int /\ i \in Int /\ j \in Int
    OBVIOUS
  <2>2. Ahead(i) \subseteq Ahead(j) /\ j \notin Ahead(i) /\ j \in Ahead(j)
    <3>1. j \in Ahead(j)
      BY <2>1
    <3>2. ASSUME NEW k \in Ahead(i) PROVE k \in Ahead(j) /\ k # j
      <4>1. key[k] \in Int /\ k \in Int
        OBVIOUS
      <4> QED
        BY <1>2, <2>1, <4>1 DEF Before
    <3> QED
      BY <3>1, <3>2
  <2> HIDE DEF Ahead
  <2>3. Ahead(i) \in SUBSET Ahead(j) /\ IsFiniteSet(Ahead(j)) /\ IsFiniteSet(Ahead(i))
    BY <1>1, <2>2
  <2>4. /\ Cardinality(Ahead(i)) <= Cardinality(Ahead(j))
        /\ Cardinality(Ahead(j)) = Cardinality(Ahead(i)) => Ahead(i) = Ahead(j)
    BY <2>3, FS_Subset
  <2>5. Cardinality(Ahead(i)) \in Nat /\ Cardinality(Ahead(j)) \in Nat
    BY <2>3, FS_CardinalityType
  <2>6. Cardinality(Ahead(j)) # Cardinality(Ahead(i))
    BY <2>2, <2>4
  <2> QED
    BY <1>1, <2>4, <2>5, <2>6
<1> QED
  BY <1>1, <1>2

LEMMA InOrderIs ==
  ASSUME NEW D \in SUBSET Int, IsFiniteSet(D), NEW key \in [D -> Int]
  PROVE  /\ Enumerates(InOrder(D, key), Cardinality(D), D)
         /\ \A k, l \in 1..Cardinality(D) :
              k < l => Before(InOrder(D, key)[k], InOrder(D, key)[l], key)
<1> DEFINE n == Cardinality(D)
           o == InOrder(D, key)
           place == [i \in D |-> Place(i, D, key)]
<1>1. n \in Nat /\ IsFiniteSet(1..n) /\ Cardinality(1..n) = n
  BY FS_CardinalityType, FS_Interval
<1>2. place \in [D -> 1..n]
  BY PlaceIs
<1>3. \A i, j \in D : i = j \/ Before(i, j, key) \/ Before(j, i, key)
  <2> SUFFICES ASSUME NEW i \in D, NEW j \in D
               PROVE  i = j \/ Before(i, j, key) \/ Before(j, i, key)
    OBVIOUS
  <2>1. key[i] \in Int /\ key[j] \in Int /\ i \in Int /\ j \in Int
    OBVIOUS
  <2> QED
    BY <2>1 DEF Before
<1>4. \A i, j \in D : place[i] = place[j] => i = j
  <2> SUFFICES ASSUME NEW i \in D, NEW j \in D, place[i] = place[j], i # j PROVE FALSE
    OBVIOUS
  <2>1. place[i] < place[j] \/ place[j] < place[i]
    BY <1>3, PlaceIs
  <2>2. place[i] \in Int /\ place[j] \in Int
    BY <1>1, <1>2
  <2> QED
    BY <2>1, <2>2
<1>5. \A k \in 1..n : \E i \in D : place[i] = k
  <2> HIDE DEF place
  <2>1. place \in Injection(D, 1..n)
    BY <1>2, <1>4, Fun_IsInj
  <2>2. place \in Surjection(D, 1..n)
    BY <1>1, <2>1, FS_Injection
  <2> QED
    BY <2>2, Fun_SurjectionProperties
<1>6. \A k \in 1..n : o[k] \in D /\ place[o[k]] = k
  <2> SUFFICES ASSUME NEW k \in 1..n PROVE o[k] \in D /\ place[o[k]] = k
    OBVIOUS
  <2>1. o[k] = CHOOSE i \in D : Place(i, D, key) = k
    BY DEF InOrder
  <2>2. \E i \in D : Place(i, D, key) = k
    BY <1>5
  <2> HIDE DEF o
  <2>3. o[k] \in D /\ Place(o[k], D, key) = k
    BY <2>1, <2>2
  <2> QED
    BY <2>3
<1>7. o \in [1..n -> D]
  BY <1>6 DEF InOrder
<1> HIDE DEF o
<1>8. Enumerates(o, n, D)
  <2>1. \A a, b \in 1..n : o[a] = o[b] => a = b
    BY <1>6
  <2>2. \A i \in D : \E k \in 1..n : o[k] = i
    <3> SUFFICES ASSUME NEW i \in D PROVE \E k \in 1..n : o[k] = i
      OBVIOUS
    <3>1. place[i] \in 1..n
      BY <1>2
    <3>2. o[place[i]] \in D /\ place[o[place[i]]] = place[i]
      BY <1>6, <3>1
    <3>3. o[place[i]] = i
      BY <1>4, <3>2
    <3> QED
      BY <3>1, <3>3
  <2> QED
    BY <1>1, <1>7, <2>1, <2>2 DEF Enumerates
<1>9. ASSUME NEW k \in 1..n, NEW l \in 1..n, k < l PROVE Before(o[k], o[l], key)
  <2>1. o[k] \in D /\ o[l] \in D /\ place[o[k]] = k /\ place[o[l]] = l
    BY <1>6
  <2>2. o[k] # o[l]
    BY <1>1, <1>9, <2>1
  <2>3. ~Before(o[l], o[k], key)
    <3> SUFFICES ASSUME Before(o[l], o[k], key) PROVE FALSE
      OBVIOUS
    <3>1. place[o[l]] < place[o[k]]
      BY <2>1, PlaceIs
    <3> QED
      BY <1>1, <1>9, <2>1, <3>1
  <2> QED
    BY <1>3, <2>1, <2>2, <2>3
<1> QED
  BY <1>8, <1>9 DEF o

(***************************************************************************)
(* Only one list holds given numbers in ascending order.                   *)
(***************************************************************************)
Ascending(s, n) == \A i, j \in 1..n : i <= j => s[i] <= s[j]

\* a and b are two ascending orders of the same n numbers.
BothAscend(a, b, p, n) ==
  /\ a \in [1..n -> Int] /\ b \in [1..n -> Int]
  /\ Ascending(a, n) /\ Ascending(b, n)
  /\ Enumerates(p, n, 1..n) /\ \A i \in 1..n : a[i] = b[p[i]]

LEMMA NotBelow ==
  ASSUME NEW n, NEW a, NEW b, NEW p, NEW k,
         n \in Nat, k \in 1..n, BothAscend(a, b, p, n)
  PROVE  ~(a[k] < b[k])
<1> SUFFICES ASSUME a[k] < b[k] PROVE FALSE
  OBVIOUS
<1> USE DEF BothAscend
<1> DEFINE q == [i \in 1..k |-> p[i]]
<1>1. ASSUME NEW i \in 1..k PROVE p[i] \in 1..k - 1
  <2>1. i \in 1..n /\ p[i] \in 1..n /\ a[i] <= a[k] /\ a[i] = b[p[i]]
    <3>1. i \in 1..n /\ i <= k
      OBVIOUS
    <3> QED
      BY <3>1 DEF Enumerates, Ascending
  <2>2. ~(k <= p[i])
    <3> SUFFICES ASSUME k <= p[i] PROVE FALSE
      OBVIOUS
    <3>1. b[k] <= b[p[i]]
      BY <2>1 DEF Ascending
    <3> QED
      BY <2>1, <3>1
  <2> QED
    BY <2>1, <2>2
<1>2. q \in [1..k -> 1..k - 1]
  BY <1>1
<1>3. /\ IsFiniteSet(1..k) /\ IsFiniteSet(1..k - 1)
      /\ Cardinality(1..k) = k /\ Cardinality(1..k - 1) = k - 1
  <2>1. k \in Int /\ k - 1 \in Int /\ 1 \in Int /\ 1 <= k
    OBVIOUS
  <2>2. /\ IsFiniteSet(1..k) /\ IsFiniteSet(1..k - 1)
        /\ Cardinality(1..k) = IF 1 > k THEN 0 ELSE k - 1 + 1
        /\ Cardinality(1..k - 1) = IF 1 > k - 1 THEN 0 ELSE k - 1 - 1 + 1
    BY <2>1, FS_Interval
  <2> QED
    BY <2>1, <2>2
<1>4. k - 1 < k
  OBVIOUS
<1>5. \E i, j \in 1..k : i # j /\ q[i] = q[j]
  <2> DEFINE S == 1..k
             R == 1..k - 1
  <2>1. IsFiniteSet(R) /\ q \in [S -> R] /\ ~(Cardinality(S) <= Cardinality(R))
    BY <1>2, <1>3, <1>4
  <2> HIDE DEF q, S, R
  <2>2. q \notin Injection(S, R)
    BY <2>1, FS_Injection
  <2>3. \E i, j \in S : q[i] = q[j] /\ i # j
    BY <2>1, <2>2, Fun_IsInj
  <2> QED
    BY <2>3 DEF S
<1>6. PICK i \in 1..k, j \in 1..k : i # j /\ p[i] = p[j]
  BY <1>5
<1>7. i \in 1..n /\ j \in 1..n
  OBVIOUS
<1> QED
  BY <1>6, <1>7 DEF Enumerates

LEMMA AscendingIsUnique ==
  ASSUME NEW n, NEW a, NEW b, NEW p,
         n \in Nat, a \in [1..n -> Int], b \in [1..n -> Int],
         Ascending(a, n), Ascending(b, n),
         Enumerates(p, n, 1..n), \A k \in 1..n : a[k] = b[p[k]]
  PROVE  a = b
<1>1. PICK q : Enumerates(q, n, 1..n) /\ \A k \in 1..n : p[q[k]] = k
  BY EnumerationInverted
<1>2. \A k \in 1..n : q[k] \in 1..n /\ b[k] = a[q[k]]
  BY <1>1 DEF Enumerates
<1>3. ASSUME NEW k \in 1..n PROVE a[k] = b[k]
  <2>1. BothAscend(a, b, p, n) /\ BothAscend(b, a, q, n)
    BY <1>1, <1>2 DEF BothAscend
  <2>2. ~(a[k] < b[k]) /\ ~(b[k] < a[k])
    BY <2>1, NotBelow
  <2> QED
    BY <2>1, <2>2
<1> QED
  BY <1>3

(***************************************************************************)
(* list.sort: the items by their keys, the largest first.                  *)
(***************************************************************************)
LEMMA DescendingIs ==
  ASSUME NEW S, NEW s \in Seq(S), NEW key \in [1..Len(s) -> Int]
  PROVE  \E o : /\ Lists(Descending(s, key), s, o, Len(s), 1..Len(s))
                /\ \A k, l \in 1..Len(s) : k < l => Before(o[k], o[l], key)
<1> DEFINE n == Len(s)
           D == 1..n
           o == InOrder(D, key)
<1>1. n \in Nat /\ D \in SUBSET Int /\ IsFiniteSet(D) /\ Cardinality(D) = n
  <2>1. n \in Nat /\ D \in SUBSET Int
    OBVIOUS
  <2> HIDE DEF n
  <2>2. IsFiniteSet(1..n) /\ Cardinality(1..n) = n
    BY <2>1, FS_Interval
  <2> QED
    BY <2>1, <2>2
<1>2. Enumerates(o, n, D) /\ \A k, l \in 1..n : k < l => Before(o[k], o[l], key)
  <2> HIDE DEF D
  <2>1. key \in [D -> Int]
    BY DEF D
  <2> QED
    BY <1>1, <2>1, InOrderIs
<1>3. o \in [1..n -> D]
  BY <1>2 DEF Enumerates
<1>4. Descending(s, key) = Pick(s, o)
  BY DEF Descending
<1> HIDE DEF o, D
<1>5. Descending(s, key) = Along(s, o, n)
  BY <1>1, <1>3, <1>4, PickIs
<1>6. Lists(Descending(s, key), s, o, n, D)
  BY <1>2, <1>5 DEF Lists
<1> QED
  BY <1>2, <1>6 DEF D

(***************************************************************************)
(* As many places list members of K as K has.                              *)
(***************************************************************************)
Listing(o, m, K) == {k \in 1..m : o[k] \in K}

LEMMA CountOfListed ==
  ASSUME NEW m, NEW J, NEW o, NEW K, Enumerates(o, m, J), K \in SUBSET J
  PROVE  IsFiniteSet(K) /\ Cardinality(Listing(o, m, K)) = Cardinality(K)
<1> DEFINE A == {k \in 1..m : o[k] \in K}
           f == [k \in A |-> o[k]]
<1>1. f \in [A -> K] /\ \A a, b \in A : f[a] = f[b] => a = b
  BY DEF Enumerates
<1>2. \A j \in K : \E a \in A : f[a] = j
  <2> SUFFICES ASSUME NEW j \in K PROVE \E a \in A : f[a] = j
    OBVIOUS
  <2>1. PICK k \in 1..m : o[k] = j
    BY DEF Enumerates
  <2> QED
    BY <2>1
<1>3. IsFiniteSet(A)
  <2>1. A \in SUBSET (1..m) /\ m \in Int /\ IsFiniteSet(1..m)
    BY FS_Interval DEF Enumerates
  <2> HIDE DEF A
  <2> QED
    BY <2>1, FS_Subset
<1> HIDE DEF A, f
<1>4. f \in Bijection(A, K)
  BY <1>1, <1>2, Fun_IsBij
<1>5. ExistsBijection(A, K)
  BY <1>4, Fun_ExistsBij
<1>6. IsFiniteSet(K) /\ Cardinality(K) = Cardinality(A)
  BY <1>3, <1>5, FS_Bijection
<1> QED
  BY <1>6 DEF A, Listing

------------------------------------------------------------------------------
(***************************************************************************)
(* Sums.                                                                   *)
(***************************************************************************)
LEMMA TotalUnrolled ==
  ASSUME NEW n \in Nat, NEW s \in [1..n -> Int]
  PROVE  \E u : /\ u[0] = 0
                /\ \A i \in 1..n : u[i] = u[i - 1] + s[i]
                /\ \A i \in 0..n : u[i] \in Int
                /\ Total(s) = u[n]
<1> DEFINE Rule(u, h) == u = [i \in 0..h |-> IF i = 0 THEN 0 ELSE u[i - 1] + s[i]]
           T == {h \in Nat : \E u : Rule(u, h)}
<1>0. Len(s) = n
  OBVIOUS
<1>1. 0 \in T
  <2>1. Rule([i \in 0..0 |-> 0], 0)
    OBVIOUS
  <2> QED
    BY <2>1
<1>2. ASSUME NEW h \in Nat, h \in T PROVE h + 1 \in T
  <2>1. PICK u : Rule(u, h)
    BY <1>2
  <2> DEFINE w == [i \in 0..h + 1 |-> IF i <= h THEN u[i] ELSE u[h] + s[h + 1]]
  <2>2. /\ \A i \in 0..h : i \in 0..h + 1 /\ w[i] = u[i]
        /\ h + 1 \in 0..h + 1 /\ w[h + 1] = u[h] + s[h + 1]
        /\ 0..h + 1 = 0..h \cup {h + 1}
    BY <1>2
  <2>3. \A i \in 0..h : u[i] = IF i = 0 THEN 0 ELSE u[i - 1] + s[i]
    BY <2>1
  <2>4. \A i \in 0..h : i # 0 => i - 1 \in 0..h
    OBVIOUS
  <2>5. h + 1 # 0 /\ (h + 1) - 1 = h /\ h \in 0..h
    BY <1>2
  <2>6. ASSUME NEW i \in 0..h + 1
        PROVE  w[i] = IF i = 0 THEN 0 ELSE w[i - 1] + s[i]
    <3> HIDE DEF w
    <3>1. CASE i \in 0..h
      BY <2>2, <2>3, <2>4, <3>1
    <3>2. CASE i = h + 1
      BY <2>2, <2>5, <3>2
    <3> QED
      BY <2>2, <3>1, <3>2
  <2>7. Rule(w, h + 1)
    BY <2>6
  <2> HIDE DEF Rule, w
  <2>8. \E v : Rule(v, h + 1)
    BY <2>7
  <2> QED
    BY <1>2, <2>8
<1> HIDE DEF T
<1>3. n \in T
  BY <1>1, <1>2, NatInduct
<1>4. \E u : Rule(u, n)
  BY <1>3 DEF T
<1> DEFINE u == CHOOSE u : Rule(u, n)
<1>5. Rule(u, n)
  BY <1>4
<1>6. Total(s) = u[n]
  BY <1>0 DEF Total
<1> HIDE DEF u
<1>7. 0 \in 0..n /\ \A i \in 1..n : i \in 0..n /\ i # 0
  OBVIOUS
<1>8. u[0] = 0 /\ \A i \in 1..n : u[i] = u[i - 1] + s[i]
  BY <1>5, <1>7
<1> DEFINE U == {i \in 0..n : u[i] \in Int}
<1>9. 0 \in U /\ \A i \in 1..n : i - 1 \in U => i \in U
  BY <1>8
<1> HIDE DEF U
<1>10. 0..n \subseteq U
  BY <1>9, UptoInduct
<1> QED
  BY <1>6, <1>8, <1>10 DEF U

LEMMA TotalOfZeroes ==
  ASSUME NEW n \in Nat, NEW s \in [1..n -> Int], \A i \in 1..n : s[i] = 0
  PROVE  Total(s) = 0
<1>1. PICK u : /\ u[0] = 0
               /\ \A i \in 1..n : u[i] = u[i - 1] + s[i]
               /\ Total(s) = u[n]
  BY TotalUnrolled
<1> DEFINE T == {i \in 0..n : u[i] = 0}
<1>2. 0 \in T /\ \A i \in 1..n : i - 1 \in T => i \in T
  BY <1>1
<1> HIDE DEF T
<1>3. n \in T
  BY <1>2, UptoInduct
<1> QED
  BY <1>1, <1>3 DEF T

(***************************************************************************)
(* A list that differs at one place has a total that differs by as much.   *)
(***************************************************************************)
LEMMA TotalOfAChange ==
  ASSUME NEW n \in Nat, NEW s \in [1..n -> Int], NEW t \in [1..n -> Int],
         NEW j \in 1..n, \A i \in 1..n : i # j => t[i] = s[i]
  PROVE  /\ Total(s) \in Int
         /\ Total(t) = Total(s) + (t[j] - s[j])
<1>1. PICK u : /\ u[0] = 0
               /\ \A i \in 1..n : u[i] = u[i - 1] + s[i]
               /\ \A i \in 0..n : u[i] \in Int
               /\ Total(s) = u[n]
  BY TotalUnrolled
<1>2. PICK v : /\ v[0] = 0
               /\ \A i \in 1..n : v[i] = v[i - 1] + t[i]
               /\ \A i \in 0..n : v[i] \in Int
               /\ Total(t) = v[n]
  BY TotalUnrolled
<1> DEFINE Gap(i) == IF i < j THEN 0 ELSE t[j] - s[j]
           T == {i \in 0..n : v[i] = u[i] + Gap(i)}
<1>3. 0 \in T
  BY <1>1, <1>2
<1>4. ASSUME NEW i \in 1..n, i - 1 \in T PROVE i \in T
  <2>1. /\ v[i] = v[i - 1] + t[i] /\ u[i] = u[i - 1] + s[i]
        /\ i - 1 \in 0..n /\ i \in 0..n
    BY <1>1, <1>2
  <2>2. v[i - 1] \in Int /\ u[i - 1] \in Int /\ s[i] \in Int /\ t[i] \in Int
        /\ s[j] \in Int /\ t[j] \in Int
    BY <1>1, <1>2, <2>1
  <2>3. CASE i = j
    BY <1>4, <2>1, <2>2, <2>3
  <2>4. CASE i # j
    <3>1. Gap(i) = Gap(i - 1) /\ t[i] = s[i] /\ Gap(i) \in Int
      BY <2>2, <2>4
    <3>2. v[i - 1] = u[i - 1] + Gap(i - 1)
      BY <1>4
    <3> HIDE DEF Gap
    <3>3. v[i] = u[i] + Gap(i)
      BY <2>1, <2>2, <3>1, <3>2
    <3> QED
      BY <2>1, <3>3
  <2> QED
    BY <2>3, <2>4
<1> HIDE DEF T
<1>5. 0..n \subseteq T
  BY <1>3, <1>4, UptoInduct
<1>6. v[n] = u[n] + (t[j] - s[j]) /\ n \in 0..n
  BY <1>5 DEF T
<1> QED
  BY <1>1, <1>2, <1>6

(***************************************************************************)
(* The items listed sum up to what their indices do.                       *)
(***************************************************************************)
Masked(v, n, J) == [i \in 1..n |-> IF i \in J THEN v[i] ELSE 0]

LEMMA TotalOfListed ==
  ASSUME NEW n \in Nat, NEW v \in [1..n -> Int], NEW J \in SUBSET (1..n),
         NEW m, NEW o, Enumerates(o, m, J)
  PROVE  Total(Along(v, o, m)) = Total(Masked(v, n, J))
<1> DEFINE Over(A)  == Masked(v, n, A)
           Kept(A) == [k \in 1..m |-> IF o[k] \in A THEN v[o[k]] ELSE 0]
           F == {A \in SUBSET J : Total(Kept(A)) = Total(Over(A))}
<1> USE DEF Masked
<1>1. m \in Nat /\ IsFiniteSet(J) /\ o \in [1..m -> J]
  BY EnumerationCounts DEF Enumerates
<1>2. ASSUME NEW A PROVE Over(A) \in [1..n -> Int] /\ Kept(A) \in [1..m -> Int]
  <2>1. \A k \in 1..m : o[k] \in 1..n /\ v[o[k]] \in Int
    BY <1>1
  <2> QED
    BY <2>1
<1>3. {} \in F
  <2>1. /\ \A i \in 1..n : Over({})[i] = 0
        /\ \A k \in 1..m : Kept({})[k] = 0
    OBVIOUS
  <2> DEFINE u == Over({})
             w == Kept({})
  <2>2. /\ u \in [1..n -> Int] /\ \A i \in 1..n : u[i] = 0
        /\ w \in [1..m -> Int] /\ \A k \in 1..m : w[k] = 0
    BY <1>2, <2>1
  <2> HIDE DEF u, w
  <2>3. Total(u) = 0 /\ Total(w) = 0
    BY <1>1, <2>2, TotalOfZeroes
  <2>4. Total(Over({})) = 0 /\ Total(Kept({})) = 0
    BY <2>3 DEF u, w
  <2> QED
    BY <2>4
<1>4. ASSUME NEW A \in SUBSET J, NEW x \in J, A \in F, x \notin A
      PROVE  A \cup {x} \in F
  <2> DEFINE B == A \cup {x}
  <2>1. PICK k \in 1..m : o[k] = x
    BY DEF Enumerates
  <2>2. /\ x \in 1..n /\ v[x] \in Int /\ Over(A)[x] = 0 /\ Over(B)[x] = v[x]
        /\ \A i \in 1..n : i # x => Over(B)[i] = Over(A)[i]
    BY <1>4
  <2>3. Total(Over(A)) \in Int /\ Total(Over(B)) = Total(Over(A)) + (v[x] - 0)
    <3> DEFINE a == Over(A)
               b == Over(B)
    <3>1. /\ a \in [1..n -> Int] /\ b \in [1..n -> Int] /\ x \in 1..n
          /\ \A i \in 1..n : i # x => b[i] = a[i]
      BY <1>2, <2>2
    <3>2. Total(a) \in Int /\ Total(b) = Total(a) + (b[x] - a[x])
      <4> HIDE DEF a, b
      <4> QED
        BY <3>1, TotalOfAChange
    <3> QED
      BY <2>2, <3>2
  <2>4. /\ Kept(A)[k] = 0 /\ Kept(B)[k] = v[x]
        /\ \A l \in 1..m : l # k => Kept(B)[l] = Kept(A)[l]
    <3>1. \A l \in 1..m : o[l] = x => l = k
      BY <2>1 DEF Enumerates
    <3> QED
      BY <1>4, <2>1, <3>1
  <2>5. Total(Kept(A)) \in Int /\ Total(Kept(B)) = Total(Kept(A)) + (v[x] - 0)
    <3> DEFINE a == Kept(A)
               b == Kept(B)
    <3>1. /\ a \in [1..m -> Int] /\ b \in [1..m -> Int] /\ m \in Nat
          /\ \A l \in 1..m : l # k => b[l] = a[l]
      BY <1>1, <1>2, <2>4
    <3>2. Total(a) \in Int /\ Total(b) = Total(a) + (b[k] - a[k])
      <4> HIDE DEF a, b
      <4> QED
        BY <3>1, TotalOfAChange
    <3> QED
      BY <2>4, <3>2
  <2> QED
    BY <1>4, <2>3, <2>5
<1> HIDE DEF F
<1>5. J \in F
  BY <1>1, <1>3, <1>4, FiniteInduct
<1>6. Total(Kept(J)) = Total(Over(J))
  BY <1>5 DEF F
<1>7. Kept(J) = Along(v, o, m)
  BY <1>1 DEF Along
<1> QED
  BY <1>6, <1>7

================================================================================
