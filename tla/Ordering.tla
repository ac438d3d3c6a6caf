------------------------------- MODULE Ordering -------------------------------
(***************************************************************************)
(* Selecting from a list and sorting it, as the programs do with a loop    *)
(* that appends and with list.sort: by the place that each item takes.     *)
(* Python sorts by numbers, and keeps items of equal number in the order   *)
(* they had.                                                               *)
(*                                                                         *)
(* Both say the same as SelectSeq and SortSeq, which take an operator, and *)
(* are written without one so that they can be reasoned about.             *)
(***************************************************************************)
EXTENDS Integers, Sequences, FiniteSets

\* How many of the indices idx come up to i: the largest key first, and the
\* smaller index first where keys are equal.
Place(i, idx, key) ==
  Cardinality({j \in idx : key[j] > key[i] \/ (key[j] = key[i] /\ j <= i)})

InOrder(idx, key) ==
  [k \in 1..Cardinality(idx) |-> CHOOSE i \in idx : Place(i, idx, key) = k]

\* The items of s at the indices that o lists.
Pick(s, o) == [k \in 1..Len(o) |-> s[o[k]]]

Elements(s) == {s[i] : i \in DOMAIN s}

\* [x for x in s if x in chosen]
Selected(s, chosen) ==
  LET upto[i \in 0..Len(s)] ==
        IF i = 0 THEN <<>>
        ELSE IF s[i] \in chosen THEN Append(upto[i - 1], s[i]) ELSE upto[i - 1]
  IN  upto[Len(s)]

\* s.sort(key=..., reverse=True), key giving the number of each index.
Descending(s, key) == Pick(s, InOrder(1..Len(s), key))

\* The sum of a list of numbers.
Total(s) ==
  LET upto[i \in 0..Len(s)] == IF i = 0 THEN 0 ELSE upto[i - 1] + s[i]
  IN  upto[Len(s)]

===============================================================================
