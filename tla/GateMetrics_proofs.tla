-------------------------- MODULE GateMetrics_proofs --------------------------
(***************************************************************************)
(* Proofs about GateMetrics, for tables of any length and any latencies.   *)
(***************************************************************************)
EXTENDS GateMetrics, Ordering_proofs

(***************************************************************************)
(* The rows of a name; a mirrored row has a negative latency.              *)
(***************************************************************************)
IntRow == [metric_name : MetricNames, metric_ms : Int]

RowsOf(rows, name) == {i \in 1..Len(rows) : rows[i].metric_name = name}

\* vals holds the latencies of the rows that p lists.
ValuesAlong(vals, rows, p, n) ==
  /\ n \in Nat
  /\ vals \in [1..n -> Int]
  /\ \A k \in 1..n : vals[k] = rows[p[k]].metric_ms

LEMMA ValuesAre ==
  ASSUME NEW rows \in Seq(IntRow), NEW name
  PROVE  \E n, p : /\ Enumerates(p, n, RowsOf(rows, name))
                   /\ ValuesAlong(Values(rows, name), rows, p, n)
<1> DEFINE own == Selected(rows, {r \in Elements(rows) : r.metric_name = name})
           J == {i \in 1..Len(rows) : rows[i] \in {r \in Elements(rows) : r.metric_name = name}}
<1>1. PICK n, p : Lists(own, rows, p, n, J)
  BY SelectedIs
<1>2. J = RowsOf(rows, name)
  BY DEF RowsOf, Elements
<1>3. Enumerates(p, n, RowsOf(rows, name)) /\ own = Along(rows, p, n)
  BY <1>1, <1>2 DEF Lists
<1>4. \A k \in 1..n : p[k] \in 1..Len(rows) /\ rows[p[k]] \in IntRow
  BY <1>3 DEF Enumerates, RowsOf
<1>5. n \in Nat /\ own \in Seq(IntRow) /\ Len(own) = n /\ \A k \in 1..n : own[k] = rows[p[k]]
  <2> HIDE DEF own
  <2>1. n \in Nat
    BY <1>3 DEF Enumerates
  <2>2. own \in [1..n -> IntRow] /\ \A k \in 1..n : own[k] = rows[p[k]]
    BY <1>3, <1>4 DEF Along
  <2> QED
    BY <2>1, <2>2
<1>6. Values(rows, name) = [k \in 1..Len(own) |-> own[k].metric_ms]
  BY DEF Values
<1> HIDE DEF own
<1>7. ValuesAlong(Values(rows, name), rows, p, n)
  <2>1. \A k \in 1..n : own[k].metric_ms = rows[p[k]].metric_ms /\ own[k].metric_ms \in Int
    BY <1>4, <1>5 DEF IntRow
  <2>2. Values(rows, name) = [k \in 1..n |-> own[k].metric_ms]
    BY <1>5, <1>6
  <2> QED
    BY <1>5, <2>1, <2>2 DEF ValuesAlong
<1> QED
  BY <1>3, <1>7

LEMMA SortedValuesAre ==
  ASSUME NEW rows \in Seq(IntRow), NEW name
  PROVE  \E n, p : /\ Enumerates(p, n, RowsOf(rows, name))
                   /\ ValuesAlong(SortedValues(rows, name), rows, p, n)
                   /\ Ascending(SortedValues(rows, name), n)
<1> DEFINE vals == Values(rows, name)
           key == [i \in 1..Len(vals) |-> -vals[i]]
           sorted == SortedValues(rows, name)
<1>1. PICK n, p : Enumerates(p, n, RowsOf(rows, name)) /\ ValuesAlong(vals, rows, p, n)
  BY ValuesAre
<1> HIDE DEF vals
<1>2. n \in Nat /\ vals \in Seq(Int) /\ Len(vals) = n /\ key \in [1..Len(vals) -> Int]
  BY <1>1 DEF ValuesAlong
<1>3. sorted = Descending(vals, key)
  BY DEF SortedValues, vals
<1> HIDE DEF sorted
<1>4. PICK o : /\ Lists(sorted, vals, o, n, 1..n)
               /\ \A k, l \in 1..n : k < l => Before(o[k], o[l], key)
  <2> HIDE DEF key
  <2> QED
    BY <1>2, <1>3, DescendingIs
<1>5. Enumerates(o, n, 1..n) /\ sorted = Along(vals, o, n)
  BY <1>4 DEF Lists
<1>6. \A k \in 1..n : o[k] \in 1..n /\ sorted[k] = vals[o[k]] /\ vals[o[k]] \in Int
  BY <1>1, <1>5 DEF Along, Enumerates, ValuesAlong
<1> DEFINE q == Along(p, o, n)
<1>7. Enumerates(q, n, RowsOf(rows, name))
  <2>1. Enumerates(q, n, Image(p, 1..n))
    BY <1>1, <1>5, EnumerationComposed
  <2>2. Image(p, 1..n) = RowsOf(rows, name)
    BY <1>1 DEF Image, Enumerates
  <2> QED
    BY <2>1, <2>2
<1>8. ValuesAlong(sorted, rows, q, n)
  BY <1>1, <1>2, <1>5, <1>6 DEF ValuesAlong, Along
<1>9. Ascending(sorted, n)
  <2> SUFFICES ASSUME NEW i \in 1..n, NEW j \in 1..n, i <= j PROVE sorted[i] <= sorted[j]
    BY DEF Ascending
  <2>1. CASE i = j
    BY <1>6, <2>1
  <2>2. CASE i < j
    <3>1. Before(o[i], o[j], key) /\ o[i] \in 1..n /\ o[j] \in 1..n
      BY <1>4, <1>6, <2>2
    <3>2. key[o[i]] = -vals[o[i]] /\ key[o[j]] = -vals[o[j]]
      BY <1>2, <3>1
    <3>3. vals[o[i]] \in Int /\ vals[o[j]] \in Int
      BY <1>6
    <3>4. -vals[o[i]] >= -vals[o[j]]
      <4> HIDE DEF key
      <4> QED
        BY <3>1, <3>2, <3>3 DEF Before
    <3> QED
      BY <1>6, <3>3, <3>4
  <2> QED
    BY <1>2, <2>1, <2>2
<1> QED
  BY <1>7, <1>8, <1>9 DEF sorted

(***************************************************************************)
(* What is ascending and holds the latencies of the rows of a name, each   *)
(* once, is what the sort returns.                                         *)
(***************************************************************************)
LEMMA SortedValuesUnique ==
  ASSUME NEW rows \in Seq(IntRow), NEW name, NEW n, NEW a, NEW p,
         Enumerates(p, n, RowsOf(rows, name)), ValuesAlong(a, rows, p, n), Ascending(a, n)
  PROVE  SortedValues(rows, name) = a
<1> DEFINE sorted == SortedValues(rows, name)
<1>1. PICK m, o : /\ Enumerates(o, m, RowsOf(rows, name))
                  /\ ValuesAlong(sorted, rows, o, m)
                  /\ Ascending(sorted, m)
  BY SortedValuesAre
<1> HIDE DEF sorted
<1>2. m = n /\ \E q : Enumerates(q, n, 1..n) /\ \A k \in 1..n : p[k] = o[q[k]]
  BY <1>1, EnumerationRearranged
<1>3. PICK q : Enumerates(q, n, 1..n) /\ \A k \in 1..n : p[k] = o[q[k]]
  BY <1>2
<1>4. ASSUME NEW k \in 1..n PROVE a[k] = sorted[q[k]]
  <2>1. q[k] \in 1..n /\ p[k] = o[q[k]]
    BY <1>3 DEF Enumerates
  <2>2. a[k] = rows[p[k]].metric_ms
    BY DEF ValuesAlong
  <2>3. sorted[q[k]] = rows[o[q[k]]].metric_ms
    BY <1>1, <1>2, <2>1 DEF ValuesAlong
  <2> QED
    BY <2>1, <2>2, <2>3
<1>5. n \in Nat /\ a \in [1..n -> Int] /\ sorted \in [1..n -> Int]
  BY <1>1, <1>2 DEF ValuesAlong
<1>6. a = sorted
  BY <1>1, <1>2, <1>3, <1>4, <1>5, AscendingIsUnique
<1> QED
  BY <1>6 DEF sorted

------------------------------------------------------------------------------
(***************************************************************************)
(* Interpolation at the rank r, in hundredths of a position.               *)
(***************************************************************************)
At(v, r) ==
  100 * v[r \div 100 + 1] + (v[(r + 99) \div 100 + 1] - v[r \div 100 + 1]) * (r % 100)

\* Of n values; r lies f hundredths after the position q, before the position c.
IsRank(r, n) == r \in Nat /\ n \in Nat /\ r <= 100 * (n - 1)

Splits(r, q, f, c) ==
  /\ q \in Nat /\ f \in 0..99
  /\ r = 100 * q + f
  /\ c = IF f = 0 THEN q ELSE q + 1

LEMMA RankSplits ==
  ASSUME NEW r \in Nat
  PROVE  Splits(r, r \div 100, r % 100, (r + 99) \div 100)
<1> DEFINE q == r \div 100
           f == r % 100
           c == (r + 99) \div 100
<1>1. q \in Nat /\ f \in 0..99 /\ r = 100 * q + f
  OBVIOUS
<1>2. c = IF f = 0 THEN q ELSE q + 1
  <2> HIDE DEF q, f
  <2>1. c = (100 * q + f + 99) \div 100
    BY <1>1
  <2>2. CASE f = 0
    BY <1>1, <2>1, <2>2
  <2>3. CASE f \in 1..99
    <3>1. 100 * q + f + 99 = 100 * (q + 1) + (f - 1)
      BY <1>1
    <3> QED
      BY <1>1, <2>1, <2>3, <3>1
  <2> QED
    BY <1>1, <2>2, <2>3
<1> QED
  BY <1>1, <1>2 DEF Splits

LEMMA Products ==
  ASSUME NEW d \in Nat, NEW f \in Nat, NEW g \in Nat, f <= g
  PROVE  d * f \in Nat /\ d * f <= d * g
  OBVIOUS

\* v, sorted, interpolated between its values at q + 1 and c + 1.
Interpolates(x, v, n, q, f, c) ==
  /\ q + 1 \in 1..n /\ c + 1 \in 1..n
  /\ v[q + 1] \in Int /\ v[c + 1] \in Int /\ v[c + 1] - v[q + 1] \in Nat
  /\ x = 100 * v[q + 1] + (v[c + 1] - v[q + 1]) * f
  /\ x \in Int
  /\ 100 * v[q + 1] <= x /\ x <= 100 * v[c + 1]

LEMMA AtIs ==
  ASSUME NEW n, NEW v, NEW r, NEW q, NEW f, NEW c,
         v \in [1..n -> Int], Ascending(v, n), IsRank(r, n), Splits(r, q, f, c)
  PROVE  Interpolates(At(v, r), v, n, q, f, c)
<1>1. /\ r \in Nat /\ q \in Nat /\ f \in 0..99 /\ r = 100 * q + f
      /\ c \in Nat /\ q <= c /\ c <= q + 1 /\ n \in Nat
  BY DEF IsRank, Splits
<1>2. q + 1 \in 1..n /\ c + 1 \in 1..n
  BY <1>1 DEF IsRank, Splits
<1>3. v[q + 1] \in Int /\ v[c + 1] \in Int /\ v[q + 1] <= v[c + 1]
  BY <1>1, <1>2 DEF Ascending
<1>4. At(v, r) = 100 * v[q + 1] + (v[c + 1] - v[q + 1]) * f
  <2>1. r \div 100 = q /\ r % 100 = f
    BY <1>1
  <2>2. (r + 99) \div 100 = c
    <3>1. Splits(r, r \div 100, r % 100, (r + 99) \div 100)
      BY <1>1, RankSplits
    <3> QED
      BY <2>1, <3>1 DEF Splits
  <2> QED
    BY <2>1, <2>2 DEF At
<1> DEFINE lo == v[q + 1]
           d == v[c + 1] - v[q + 1]
<1>5. lo \in Int /\ d \in Nat /\ v[c + 1] = lo + d
  BY <1>3
<1> HIDE DEF lo, d
<1>6. d * 0 <= d * f /\ d * f <= d * 100 /\ d * f \in Nat
  BY <1>1, <1>5, Products
<1>7. 100 * lo + d * f \in Int /\ 100 * lo <= 100 * lo + d * f /\ 100 * lo + d * f <= 100 * (lo + d)
  BY <1>5, <1>6
<1>8. At(v, r) = 100 * lo + d * f
  BY <1>4 DEF lo, d
<1> QED
  BY <1>2, <1>3, <1>4, <1>5, <1>7, <1>8 DEF lo, d, Interpolates

(***************************************************************************)
(* A higher rank has no lower value.                                       *)
(***************************************************************************)
LEMMA AtMonotone ==
  ASSUME NEW n, NEW v, NEW r, NEW s,
         v \in [1..n -> Int], Ascending(v, n), IsRank(r, n), IsRank(s, n), r <= s
  PROVE  At(v, r) \in Int /\ At(v, s) \in Int /\ At(v, r) <= At(v, s)
<1>1. PICK q, f, c : Splits(r, q, f, c)
  BY RankSplits DEF IsRank
<1>2. PICK p, g, b : Splits(s, p, g, b)
  BY RankSplits DEF IsRank
<1>3. Interpolates(At(v, r), v, n, q, f, c) /\ Interpolates(At(v, s), v, n, p, g, b)
  BY <1>1, <1>2, AtIs
<1>4. CASE c <= p
  <2>1. c \in Nat /\ p \in Nat
    BY <1>1, <1>2 DEF Splits
  <2>2. /\ c + 1 \in 1..n /\ v[c + 1] \in Int
        /\ At(v, r) \in Int /\ At(v, r) <= 100 * v[c + 1]
    BY <1>3 DEF Interpolates
  <2>3. /\ p + 1 \in 1..n /\ v[p + 1] \in Int
        /\ At(v, s) \in Int /\ 100 * v[p + 1] <= At(v, s)
    BY <1>3 DEF Interpolates
  <2>4. v[c + 1] <= v[p + 1]
    BY <1>4, <2>1, <2>2, <2>3 DEF Ascending
  <2> QED
    BY <2>2, <2>3, <2>4
<1>5. CASE ~(c <= p)
  <2>1. q = p /\ c = b /\ f <= g /\ f \in Nat /\ g \in Nat
    BY <1>1, <1>2, <1>5 DEF Splits, IsRank
  <2> DEFINE d == v[c + 1] - v[q + 1]
             lo == v[q + 1]
  <2>2. d \in Nat /\ lo \in Int /\ At(v, r) = 100 * lo + d * f /\ At(v, s) = 100 * lo + d * g
    BY <1>3, <2>1 DEF Interpolates
  <2> HIDE DEF d, lo
  <2>3. d * f <= d * g /\ d * f \in Nat /\ d * g \in Nat
    BY <2>1, <2>2, Products
  <2> QED
    BY <2>2, <2>3
<1> QED
  BY <1>4, <1>5

(***************************************************************************)
(* _percentile is interpolation at pct hundredths of the way.              *)
(***************************************************************************)
LEMMA PercentileIs ==
  ASSUME NEW n, NEW v, NEW pct, n \in Nat \ {0}, v \in [1..n -> Int], pct \in {5, 50, 95}
  PROVE  /\ _percentile(v, pct) = At(v, pct * (n - 1))
         /\ IsRank(pct * (n - 1), n)
<1>1. Len(v) = n /\ v # <<>>
  OBVIOUS
<1>2. _percentile(v, pct) = At(v, pct * (n - 1))
  BY <1>1 DEF _percentile, At
<1>3. IsRank(pct * (n - 1), n)
  BY DEF IsRank
<1> QED
  BY <1>2, <1>3

------------------------------------------------------------------------------
(***************************************************************************)
(* The sorted values are the values rearranged.                            *)
(***************************************************************************)
Rearranges(sorted, vals, n, q) ==
  /\ Enumerates(q, n, 1..n)
  /\ vals \in [1..n -> Int] /\ sorted \in [1..n -> Int]
  /\ Ascending(sorted, n)
  /\ \A k \in 1..n : sorted[k] = vals[q[k]]

LEMMA SortedRearranges ==
  ASSUME NEW rows \in Seq(IntRow), NEW name \in NamesOf(rows)
  PROVE  \E n, q : /\ Rearranges(SortedValues(rows, name), Values(rows, name), n, q)
                   /\ n \in Nat \ {0}
<1> DEFINE vals == Values(rows, name)
           sorted == SortedValues(rows, name)
<1>1. PICK n, p : Enumerates(p, n, RowsOf(rows, name)) /\ ValuesAlong(vals, rows, p, n)
  BY ValuesAre
<1>2. PICK m, o : /\ Enumerates(o, m, RowsOf(rows, name))
                  /\ ValuesAlong(sorted, rows, o, m)
                  /\ Ascending(sorted, m)
  BY SortedValuesAre
<1> HIDE DEF vals, sorted
<1>3. n = m /\ \E q : Enumerates(q, m, 1..m) /\ \A k \in 1..m : o[k] = p[q[k]]
  BY <1>1, <1>2, EnumerationRearranged
<1>4. PICK q : Enumerates(q, n, 1..n) /\ \A k \in 1..n : o[k] = p[q[k]]
  BY <1>3
<1>5. ASSUME NEW k \in 1..n PROVE sorted[k] = vals[q[k]]
  <2>1. q[k] \in 1..n /\ o[k] = p[q[k]]
    BY <1>4 DEF Enumerates
  <2>2. sorted[k] = rows[o[k]].metric_ms
    BY <1>2, <1>3 DEF ValuesAlong
  <2>3. vals[q[k]] = rows[p[q[k]]].metric_ms
    BY <1>1, <2>1 DEF ValuesAlong
  <2> QED
    BY <2>1, <2>2, <2>3
<1>6. Rearranges(sorted, vals, n, q)
  BY <1>1, <1>2, <1>3, <1>4, <1>5 DEF Rearranges, ValuesAlong
<1>7. n \in Nat \ {0}
  <2>1. PICK i \in DOMAIN rows : rows[i].metric_name = name
    BY DEF NamesOf
  <2>2. i \in RowsOf(rows, name)
    BY <2>1 DEF RowsOf
  <2> QED
    BY <1>1, <2>2 DEF Enumerates
<1> QED
  BY <1>6, <1>7 DEF vals, sorted

UpTo(vals, n, x) == {i \in 1..n : 100 * vals[i] <= x}

From(vals, n, x) == {i \in 1..n : 100 * vals[i] >= x}

LEMMA RankSplitsTheValues ==
  ASSUME NEW n, NEW v, NEW vals, NEW q, NEW r,
         n \in Nat \ {0}, Rearranges(v, vals, n, q), IsRank(r, n)
  PROVE  /\ 100 * Cardinality(UpTo(vals, n, At(v, r))) > r
         /\ 100 * Cardinality(From(vals, n, At(v, r))) > 100 * (n - 1) - r
<1> DEFINE P == At(v, r)
           Below == {i \in 1..n : 100 * vals[i] <= P}
           Above == {i \in 1..n : 100 * vals[i] >= P}
<1>1. PICK p, f, c : Splits(r, p, f, c)
  BY RankSplits DEF IsRank
<1>2. /\ p \in Nat /\ c \in Nat /\ f \in 0..99 /\ r = 100 * p + f /\ n \in Nat
      /\ 100 * c < r + 100
  BY <1>1 DEF Splits
<1>3. Interpolates(P, v, n, p, f, c)
  BY <1>1, AtIs DEF Rearranges
<1>4. /\ p + 1 \in 1..n /\ c + 1 \in 1..n
      /\ v[p + 1] \in Int /\ v[c + 1] \in Int /\ P \in Int
      /\ 100 * v[p + 1] <= P /\ P <= 100 * v[c + 1]
  BY <1>3 DEF Interpolates
<1>5. /\ Enumerates(q, n, 1..n)
      /\ \A k \in 1..n : q[k] \in 1..n /\ v[k] = vals[q[k]] /\ v[k] \in Int
  BY DEF Rearranges, Enumerates
<1> HIDE DEF P
<1>6. 1..p + 1 \subseteq Listing(q, n, Below)
  <2> SUFFICES ASSUME NEW k \in 1..p + 1 PROVE k \in 1..n /\ q[k] \in Below
    BY DEF Listing
  <2>1. k \in 1..n /\ k <= p + 1
    BY <1>2, <1>4
  <2>2. v[k] <= v[p + 1]
    BY <1>4, <2>1 DEF Rearranges, Ascending
  <2> QED
    BY <1>4, <1>5, <2>1, <2>2
<1>7. c + 1..n \subseteq Listing(q, n, Above)
  <2> SUFFICES ASSUME NEW k \in c + 1..n PROVE k \in 1..n /\ q[k] \in Above
    BY DEF Listing
  <2>1. k \in 1..n /\ c + 1 <= k
    BY <1>2, <1>4
  <2>2. v[c + 1] <= v[k]
    BY <1>4, <2>1 DEF Rearranges, Ascending
  <2> QED
    BY <1>4, <1>5, <2>1, <2>2
<1>8. Below \in SUBSET (1..n) /\ Above \in SUBSET (1..n)
  OBVIOUS
<1> HIDE DEF Below, Above
<1>9. ASSUME NEW K, NEW a \in 1..n, NEW b \in 1..n, K \in SUBSET (1..n), a <= b,
             a..b \subseteq Listing(q, n, K)
      PROVE  Cardinality(K) \in Nat /\ b - a + 1 <= Cardinality(K)
  <2> DEFINE L == Listing(q, n, K)
  <2>1. IsFiniteSet(K) /\ Cardinality(L) = Cardinality(K)
    <3> DEFINE D == 1..n
    <3>1. Enumerates(q, n, D) /\ K \in SUBSET D
      BY <1>5, <1>9
    <3> HIDE DEF D, L
    <3>2. IsFiniteSet(K) /\ Cardinality(Listing(q, n, K)) = Cardinality(K)
      BY <3>1, CountOfListed
    <3> QED
      BY <3>2 DEF L
  <2>2. IsFiniteSet(1..n) /\ L \in SUBSET (1..n)
    BY <1>2, FS_Interval DEF Listing
  <2>3. a..b \in SUBSET L
    BY <1>9
  <2> HIDE DEF L
  <2>4. Cardinality(a..b) <= Cardinality(L)
    BY <2>2, <2>3, FS_Subset
  <2>5. Cardinality(a..b) = b - a + 1
    BY <1>9, FS_Interval
  <2>6. Cardinality(K) \in Nat
    BY <2>1, FS_CardinalityType
  <2> QED
    BY <2>1, <2>4, <2>5, <2>6
<1>10. Cardinality(Below) \in Nat /\ p + 1 <= Cardinality(Below)
  <2>1. 1 \in 1..n /\ 1 <= p + 1 /\ (p + 1) - 1 + 1 = p + 1
    BY <1>2, <1>4
  <2> QED
    BY <1>4, <1>6, <1>8, <1>9, <2>1
<1>11. Cardinality(Above) \in Nat /\ n - c <= Cardinality(Above)
  <2>1. n \in 1..n /\ c + 1 <= n /\ n - (c + 1) + 1 = n - c
    BY <1>2, <1>4
  <2> QED
    BY <1>4, <1>7, <1>8, <1>9, <2>1
<1>12. 100 * Cardinality(Below) > r
  BY <1>2, <1>10
<1>13. 100 * Cardinality(Above) > 100 * (n - 1) - r
  BY <1>2, <1>11
<1> QED
  BY <1>12, <1>13 DEF Below, Above, P, UpTo, From

------------------------------------------------------------------------------
(***************************************************************************)
(* The sample seen from above.                                             *)
(***************************************************************************)
Reversed(v, n) == [k \in 1..n |-> -v[n + 1 - k]]

LEMMA MirroredSorted ==
  ASSUME NEW rows \in Seq(IntRow), NEW name, NEW n, NEW p,
         Enumerates(p, n, RowsOf(rows, name)),
         ValuesAlong(SortedValues(rows, name), rows, p, n),
         Ascending(SortedValues(rows, name), n)
  PROVE  SortedValues(Mirrored(rows), name) = Reversed(SortedValues(rows, name), n)
<1> DEFINE sorted == SortedValues(rows, name)
           mirrored == Mirrored(rows)
           a == Reversed(sorted, n)
           q == [k \in 1..n |-> p[n + 1 - k]]
<1> HIDE DEF sorted
<1>1. /\ mirrored \in Seq(IntRow) /\ Len(mirrored) = Len(rows)
      /\ \A i \in 1..Len(rows) : /\ mirrored[i].metric_name = rows[i].metric_name
                                 /\ mirrored[i].metric_ms = -rows[i].metric_ms
  <2>1. \A i \in 1..Len(rows) : rows[i] \in IntRow
    OBVIOUS
  <2>2. mirrored = [i \in 1..Len(rows) |-> [rows[i] EXCEPT !.metric_ms = -@]]
    BY DEF Mirrored
  <2>3. \A i \in 1..Len(rows) : /\ [rows[i] EXCEPT !.metric_ms = -@] \in IntRow
                                /\ [rows[i] EXCEPT !.metric_ms = -@].metric_name = rows[i].metric_name
                                /\ [rows[i] EXCEPT !.metric_ms = -@].metric_ms = -rows[i].metric_ms
    BY <2>1 DEF IntRow
  <2>4. Len(rows) \in Nat
    OBVIOUS
  <2>5. /\ DOMAIN mirrored = 1..Len(rows)
        /\ mirrored = [i \in 1..Len(rows) |-> mirrored[i]]
        /\ \A i \in 1..Len(rows) : mirrored[i] = [rows[i] EXCEPT !.metric_ms = -@]
    BY <2>2
  <2> HIDE DEF mirrored
  <2>6. \A i \in 1..Len(rows) : /\ mirrored[i] \in IntRow
                                /\ mirrored[i].metric_name = rows[i].metric_name
                                /\ mirrored[i].metric_ms = -rows[i].metric_ms
    BY <2>3, <2>5
  <2>7. mirrored \in [1..Len(rows) -> IntRow]
    BY <2>5, <2>6
  <2> QED
    BY <2>4, <2>6, <2>7
<1> HIDE DEF mirrored
<1>2. RowsOf(mirrored, name) = RowsOf(rows, name)
  BY <1>1 DEF RowsOf
<1>3. n \in Nat /\ \A k \in 1..n : n + 1 - k \in 1..n /\ n + 1 - (n + 1 - k) = k
  BY DEF Enumerates
<1>4. Enumerates(q, n, RowsOf(rows, name))
  <2>1. q \in [1..n -> RowsOf(rows, name)] /\ \A k \in 1..n : q[k] = p[n + 1 - k]
    BY <1>3 DEF Enumerates
  <2> HIDE DEF q
  <2>2. ASSUME NEW k \in 1..n, NEW l \in 1..n, q[k] = q[l] PROVE k = l
    <3>1. p[n + 1 - k] = p[n + 1 - l] /\ n + 1 - k \in 1..n /\ n + 1 - l \in 1..n
      BY <1>3, <2>1, <2>2
    <3>2. n + 1 - k = n + 1 - l
      BY <3>1 DEF Enumerates
    <3> QED
      BY <1>3, <3>2
  <2>3. ASSUME NEW j \in RowsOf(rows, name) PROVE \E k \in 1..n : q[k] = j
    <3>1. PICK k \in 1..n : p[k] = j
      BY DEF Enumerates
    <3>2. n + 1 - k \in 1..n /\ q[n + 1 - k] = p[n + 1 - (n + 1 - k)]
      BY <1>3, <2>1
    <3>3. n + 1 - (n + 1 - k) = k
      BY <1>3
    <3> QED
      BY <3>1, <3>2, <3>3
  <2> QED
    BY <1>3, <2>1, <2>2, <2>3 DEF Enumerates
<1>5. \A k \in 1..n : /\ sorted[k] \in Int /\ sorted[k] = rows[p[k]].metric_ms
                      /\ p[k] \in 1..Len(rows)
  BY DEF ValuesAlong, Enumerates, RowsOf, sorted
<1>6. ValuesAlong(a, mirrored, q, n)
  <2>1. a \in [1..n -> Int] /\ \A k \in 1..n : a[k] = -sorted[n + 1 - k]
    BY <1>3, <1>5 DEF Reversed
  <2>2. ASSUME NEW k \in 1..n PROVE a[k] = mirrored[q[k]].metric_ms
    <3>1. n + 1 - k \in 1..n /\ q[k] = p[n + 1 - k]
      BY <1>3
    <3>2. p[n + 1 - k] \in 1..Len(rows) /\ sorted[n + 1 - k] = rows[p[n + 1 - k]].metric_ms
      BY <1>5, <3>1
    <3>3. mirrored[p[n + 1 - k]].metric_ms = -rows[p[n + 1 - k]].metric_ms
      BY <1>1, <3>2
    <3> HIDE DEF a, q
    <3> QED
      BY <2>1, <3>1, <3>2, <3>3
  <2> HIDE DEF a, q
  <2> QED
    BY <1>3, <2>1, <2>2 DEF ValuesAlong
<1>7. Ascending(a, n)
  <2> SUFFICES ASSUME NEW i \in 1..n, NEW j \in 1..n, i <= j PROVE a[i] <= a[j]
    BY DEF Ascending
  <2>1. n + 1 - j \in 1..n /\ n + 1 - i \in 1..n /\ n + 1 - j <= n + 1 - i
    BY <1>3
  <2>2. sorted[n + 1 - j] <= sorted[n + 1 - i]
    BY <2>1 DEF Ascending, sorted
  <2> QED
    BY <1>5, <2>1, <2>2 DEF Reversed
<1> HIDE DEF a, q
<1>8. SortedValues(mirrored, name) = a
  BY <1>1, <1>2, <1>4, <1>6, <1>7, SortedValuesUnique
<1> QED
  BY <1>8 DEF mirrored, a, sorted

FromAbove(r, n) == 100 * (n - 1) - r

Opposite(x, y) == x = -y

LEMMA AtReversed ==
  ASSUME NEW n, NEW v, NEW r,
         v \in [1..n -> Int], Ascending(v, n), IsRank(r, n), Ascending(Reversed(v, n), n)
  PROVE  Opposite(At(Reversed(v, n), FromAbove(r, n)), At(v, r))
<1> DEFINE w == Reversed(v, n)
           s == 100 * (n - 1) - r
<1>1. PICK q, f, c : Splits(r, q, f, c)
  BY RankSplits DEF IsRank
<1>2. Interpolates(At(v, r), v, n, q, f, c)
  BY <1>1, AtIs
<1>3. /\ n \in Nat /\ q \in Nat /\ f \in 0..99 /\ r = 100 * q + f /\ r \in Nat
      /\ c = (IF f = 0 THEN q ELSE q + 1) /\ q + 1 \in 1..n /\ c + 1 \in 1..n /\ c \in Nat
  BY <1>1, <1>2 DEF Splits, IsRank, Interpolates
<1>4. w \in [1..n -> Int] /\ \A k \in 1..n : n + 1 - k \in 1..n /\ w[k] = -v[n + 1 - k]
  BY <1>3 DEF Reversed
<1>5. IsRank(s, n)
  BY <1>3 DEF IsRank
<1> DEFINE qs == n - 1 - c
           cs == n - 1 - q
           fs == IF f = 0 THEN 0 ELSE 100 - f
<1>6. Splits(s, qs, fs, cs)
  BY <1>3 DEF Splits
<1>7. n + 1 - (qs + 1) = c + 1 /\ n + 1 - (cs + 1) = q + 1 /\ fs \in 0..100 /\ s \in Int
  BY <1>3
<1> HIDE DEF w, s, qs, cs, fs
<1>8. Interpolates(At(w, s), w, n, qs, fs, cs)
  <2>1. Ascending(w, n)
    BY DEF w
  <2> QED
    BY <1>4, <1>5, <1>6, <2>1, AtIs
<1>9. /\ qs + 1 \in 1..n /\ cs + 1 \in 1..n
      /\ At(w, s) = 100 * w[qs + 1] + (w[cs + 1] - w[qs + 1]) * fs
  BY <1>8 DEF Interpolates
<1> DEFINE lo == v[q + 1]
           hi == v[c + 1]
<1>10. w[qs + 1] = -hi /\ w[cs + 1] = -lo
  BY <1>4, <1>7, <1>9
<1>11. lo \in Int /\ hi \in Int /\ At(v, r) = 100 * lo + (hi - lo) * f
  BY <1>2 DEF Interpolates
<1>12. f = 0 => lo = hi
  BY <1>3
<1> HIDE DEF lo, hi
<1>13. At(w, s) = 100 * (-hi) + ((-lo) - (-hi)) * fs
  BY <1>9, <1>10
<1>14. (-lo) - (-hi) = hi - lo /\ 100 * (-hi) = -(100 * hi)
  BY <1>11
<1>15. CASE f = 0
  <2>1. fs = 0
    BY <1>15 DEF fs
  <2> QED
    BY <1>11, <1>12, <1>13, <1>14, <1>15, <2>1 DEF s, w, FromAbove, Opposite
<1>16. CASE f # 0
  <2>1. fs = 100 - f /\ f \in Int
    BY <1>3, <1>16 DEF fs
  <2>2. (hi - lo) * (100 - f) = 100 * (hi - lo) - (hi - lo) * f
    BY <1>11, <2>1
  <2>3. At(w, s) = -(100 * hi) + (100 * (hi - lo) - (hi - lo) * f)
    BY <1>13, <1>14, <2>1, <2>2
  <2>4. (hi - lo) * f \in Int
    BY <1>11, <2>1
  <2> QED
    BY <1>11, <2>3, <2>4 DEF s, w, FromAbove, Opposite
<1> QED
  BY <1>15, <1>16

(***************************************************************************)
(* The table holds rows, whatever was called; rows have natural latencies. *)
(***************************************************************************)
LEMMA MetricsType == MetricsSpec => [](agent_metrics \in Seq(MetricRow))
<1>1. MetricsInit => agent_metrics \in Seq(MetricRow)
  BY MetricsAssumption DEF MetricsInit
<1>2. agent_metrics \in Seq(MetricRow) /\ [MetricsNext]_agent_metrics
        => (agent_metrics \in Seq(MetricRow))'
  <2> SUFFICES ASSUME agent_metrics \in Seq(MetricRow), MetricsNext
               PROVE  agent_metrics' \in Seq(MetricRow)
    OBVIOUS
  <2>1. PICK name \in MetricNames, ms \in Latencies : RecordInvokeLatency(name, ms)
    BY DEF MetricsNext
  <2>2. [metric_name |-> name, metric_ms |-> ms] \in MetricRow
    BY DEF MetricRow
  <2> QED
    BY <2>1, <2>2 DEF RecordInvokeLatency
<1> QED
  BY <1>1, <1>2, PTL DEF MetricsSpec

LEMMA RowsAreIntRows ==
  ASSUME NEW rows \in Seq(MetricRow)
  PROVE  rows \in Seq(IntRow)
<1>1. MetricRow \subseteq IntRow
  <2>1. Latencies \subseteq Int
    BY MetricsAssumption
  <2> QED
    BY <2>1 DEF MetricRow, IntRow
<1>2. Len(rows) \in Nat /\ rows \in [1..Len(rows) -> IntRow]
  BY <1>1
<1> QED
  BY <1>2

LEMMA MirroredPercentile ==
  ASSUME NEW rows \in Seq(IntRow), NEW name \in NamesOf(rows), NEW pct \in Reported
  PROVE  Percentile(Mirrored(rows), name, 100 - pct) = -Percentile(rows, name, pct)
<1> DEFINE sorted == SortedValues(rows, name)
           w == SortedValues(Mirrored(rows), name)
<1>1. PICK n, p : /\ Enumerates(p, n, RowsOf(rows, name))
                  /\ ValuesAlong(sorted, rows, p, n)
                  /\ Ascending(sorted, n)
  BY SortedValuesAre
<1>2. w = Reversed(sorted, n)
  BY <1>1, MirroredSorted
<1>3. n \in Nat \ {0} /\ sorted \in [1..n -> Int]
  <2>1. PICK i \in DOMAIN rows : rows[i].metric_name = name
    BY DEF NamesOf
  <2>2. i \in RowsOf(rows, name)
    BY <2>1 DEF RowsOf
  <2> QED
    BY <1>1, <2>2 DEF Enumerates, ValuesAlong
<1> HIDE DEF sorted, w
<1>4. w \in [1..n -> Int] /\ Ascending(w, n)
  <2>1. /\ w \in [1..n -> Int]
        /\ \A k \in 1..n : n + 1 - k \in 1..n /\ w[k] = -sorted[n + 1 - k]
    BY <1>2, <1>3 DEF Reversed
  <2> SUFFICES ASSUME NEW i \in 1..n, NEW j \in 1..n, i <= j PROVE w[i] <= w[j]
    BY <2>1 DEF Ascending
  <2>2. n + 1 - j \in 1..n /\ n + 1 - i \in 1..n /\ n + 1 - j <= n + 1 - i
    BY <1>3
  <2>3. sorted[n + 1 - j] <= sorted[n + 1 - i]
    BY <1>1, <2>2 DEF Ascending
  <2>4. sorted[n + 1 - j] \in Int /\ sorted[n + 1 - i] \in Int
    BY <1>3, <2>2
  <2>5. w[i] = -sorted[n + 1 - i] /\ w[j] = -sorted[n + 1 - j]
    BY <2>1
  <2> QED
    BY <2>3, <2>4, <2>5
<1>5. /\ _percentile(sorted, pct) = At(sorted, pct * (n - 1)) /\ IsRank(pct * (n - 1), n)
      /\ _percentile(w, 100 - pct) = At(w, (100 - pct) * (n - 1))
  <2> DEFINE rest == 100 - pct
  <2>1. pct \in {5, 50, 95} /\ rest \in {5, 50, 95}
    BY DEF Reported
  <2> HIDE DEF rest
  <2>2. _percentile(w, rest) = At(w, rest * (n - 1))
    BY <1>3, <1>4, <2>1, PercentileIs
  <2>3. _percentile(sorted, pct) = At(sorted, pct * (n - 1)) /\ IsRank(pct * (n - 1), n)
    BY <1>3, <2>1, PercentileIs
  <2> QED
    BY <2>2, <2>3 DEF rest
<1>6. (100 - pct) * (n - 1) = 100 * (n - 1) - pct * (n - 1)
  BY <1>3 DEF Reported
<1>7. At(w, 100 * (n - 1) - pct * (n - 1)) = -At(sorted, pct * (n - 1))
  <2> DEFINE r == pct * (n - 1)
  <2>1. IsRank(r, n)
    BY <1>5
  <2> HIDE DEF r
  <2>2. Ascending(Reversed(sorted, n), n)
    BY <1>2, <1>4
  <2>3. Opposite(At(Reversed(sorted, n), FromAbove(r, n)), At(sorted, r))
    BY <1>1, <1>3, <2>1, <2>2, AtReversed
  <2> QED
    BY <1>2, <2>3 DEF r, FromAbove, Opposite
<1> QED
  BY <1>5, <1>6, <1>7 DEF Percentile, sorted, w

(***************************************************************************)
(* The reported percentiles split the sample, whatever its length, and     *)
(* favour neither end (PercentilesSplitTheSample).                         *)
(***************************************************************************)
THEOREM PercentilesSplit == MetricsSpec => []PercentilesSplitTheSample
<1>1. ASSUME agent_metrics \in Seq(MetricRow) PROVE PercentilesSplitTheSample
  <2> SUFFICES ASSUME NEW name \in NamesOf(agent_metrics), NEW pct \in Reported
               PROVE
    LET vals == Values(agent_metrics, name)
        P    == Percentile(agent_metrics, name, pct)
        n    == Len(vals)
    IN  /\ 100 * Cardinality({i \in 1..n : 100 * vals[i] <= P}) > pct * (n - 1)
        /\ 100 * Cardinality({i \in 1..n : 100 * vals[i] >= P}) > (100 - pct) * (n - 1)
        /\ Percentile(Mirrored(agent_metrics), name, 100 - pct) = -P
    BY DEF PercentilesSplitTheSample
  <2> DEFINE vals == Values(agent_metrics, name)
             sorted == SortedValues(agent_metrics, name)
             P == Percentile(agent_metrics, name, pct)
  <2>1. agent_metrics \in Seq(IntRow)
    BY <1>1, RowsAreIntRows
  <2>2. PICK n, q : Rearranges(sorted, vals, n, q) /\ n \in Nat \ {0}
    BY <2>1, SortedRearranges
  <2> HIDE DEF vals
  <2>3. Len(vals) = n /\ sorted \in [1..n -> Int]
    BY <2>2 DEF Rearranges
  <2>4. P = At(sorted, pct * (n - 1)) /\ IsRank(pct * (n - 1), n)
    BY <2>2, <2>3, PercentileIs DEF Percentile, Reported
  <2> HIDE DEF sorted
  <2>5. /\ 100 * Cardinality(UpTo(vals, n, P)) > pct * (n - 1)
        /\ 100 * Cardinality(From(vals, n, P)) > 100 * (n - 1) - pct * (n - 1)
    <3> DEFINE r == pct * (n - 1)
    <3>1. IsRank(r, n)
      BY <2>4
    <3> HIDE DEF r
    <3>2. /\ 100 * Cardinality(UpTo(vals, n, At(sorted, r))) > r
          /\ 100 * Cardinality(From(vals, n, At(sorted, r))) > 100 * (n - 1) - r
      BY <2>2, <3>1, RankSplitsTheValues
    <3>3. P = At(sorted, r)
      BY <2>4 DEF r
    <3> HIDE DEF P
    <3> QED
      BY <3>2, <3>3 DEF r
  <2>6. (100 - pct) * (n - 1) = 100 * (n - 1) - pct * (n - 1)
    BY <2>2 DEF Reported
  <2>7. Percentile(Mirrored(agent_metrics), name, 100 - pct) = -P
    BY <2>1, MirroredPercentile
  <2> HIDE DEF P
  <2> QED
    BY <2>3, <2>5, <2>6, <2>7 DEF vals, P, UpTo, From
<1> QED
  BY <1>1, MetricsType, PTL

------------------------------------------------------------------------------
(***************************************************************************)
(* The summary.  Rounding keeps the order.                                 *)
(***************************************************************************)
LEMMA RoundedMonotone ==
  ASSUME NEW x, NEW y, x \in Int, y \in Int, x <= y
  PROVE  Rounded(x) <= Rounded(y)
<1> DEFINE p == x \div 1000
           q == y \div 1000
           r == x % 1000
           s == y % 1000
<1>1. /\ p \in Int /\ r \in 0..999 /\ x = 1000 * p + r
      /\ q \in Int /\ s \in 0..999 /\ y = 1000 * q + s
  OBVIOUS
<1> HIDE DEF p, q, r, s
<1>2. /\ Rounded(x) = IF r > 500 \/ (r = 500 /\ p % 2 = 1) THEN p + 1 ELSE p
      /\ Rounded(y) = IF s > 500 \/ (s = 500 /\ q % 2 = 1) THEN q + 1 ELSE q
  BY DEF Rounded, p, q, r, s
<1>3. p <= q /\ (p = q => r <= s)
  BY <1>1
<1>4. CASE p = q
  BY <1>1, <1>2, <1>3, <1>4
<1>5. CASE p + 1 <= q
  BY <1>1, <1>2, <1>5
<1> QED
  BY <1>1, <1>3, <1>4, <1>5

(***************************************************************************)
(* What the summary says of a name: from the n ascending values v.         *)
(***************************************************************************)
FiguresOf(s, v, n) ==
  /\ s.count = n
  /\ s.min_ms = Rounded(100 * v[1])
  /\ s.p50_ms = Rounded(At(v, 50 * (n - 1)))
  /\ s.p95_ms = Rounded(At(v, 95 * (n - 1)))
  /\ s.max_ms = Rounded(100 * v[n])

LEMMA SummaryIs ==
  ASSUME NEW rows \in Seq(IntRow), NEW name \in NamesOf(rows)
  PROVE  \E n, p : /\ n \in Nat \ {0}
                   /\ Enumerates(p, n, RowsOf(rows, name))
                   /\ ValuesAlong(SortedValues(rows, name), rows, p, n)
                   /\ Ascending(SortedValues(rows, name), n)
                   /\ FiguresOf(gate_latency_summary(rows)[name], SortedValues(rows, name), n)
<1> DEFINE sorted == SortedValues(rows, name)
<1>1. PICK n, p : /\ Enumerates(p, n, RowsOf(rows, name))
                  /\ ValuesAlong(sorted, rows, p, n)
                  /\ Ascending(sorted, n)
  BY SortedValuesAre
<1>2. n \in Nat \ {0}
  <2>1. PICK i \in DOMAIN rows : rows[i].metric_name = name
    BY DEF NamesOf
  <2>2. i \in RowsOf(rows, name)
    BY <2>1 DEF RowsOf
  <2> QED
    BY <1>1, <2>2 DEF Enumerates
<1>3. gate_latency_summary(rows)[name] =
        [count  |-> Len(sorted),
         p50_ms |-> Rounded(_percentile(sorted, 50)),
         p95_ms |-> Rounded(_percentile(sorted, 95)),
         min_ms |-> Rounded(100 * sorted[1]),
         max_ms |-> Rounded(100 * sorted[Len(sorted)])]
  BY DEF gate_latency_summary
<1> HIDE DEF sorted
<1>4. sorted \in [1..n -> Int] /\ Len(sorted) = n
  BY <1>1, <1>2 DEF ValuesAlong
<1>5. /\ _percentile(sorted, 50) = At(sorted, 50 * (n - 1))
      /\ _percentile(sorted, 95) = At(sorted, 95 * (n - 1))
  <2>1. ASSUME NEW pct \in {5, 50, 95} PROVE _percentile(sorted, pct) = At(sorted, pct * (n - 1))
    BY <1>2, <1>4, PercentileIs
  <2> QED
    BY <2>1
<1>6. FiguresOf(gate_latency_summary(rows)[name], sorted, n)
  BY <1>3, <1>4, <1>5 DEF FiguresOf
<1> QED
  BY <1>1, <1>2, <1>6 DEF sorted

LEMMA FiguresInOrder ==
  ASSUME NEW n, NEW v, NEW s,
         n \in Nat \ {0}, v \in [1..n -> Int], Ascending(v, n), FiguresOf(s, v, n)
  PROVE  s.min_ms <= s.p50_ms /\ s.p50_ms <= s.p95_ms /\ s.p95_ms <= s.max_ms
<1> DEFINE r0 == 0
           r1 == 50 * (n - 1)
           r2 == 95 * (n - 1)
           r3 == 100 * (n - 1)
<1>1. /\ IsRank(r0, n) /\ IsRank(r1, n) /\ IsRank(r2, n) /\ IsRank(r3, n)
      /\ r0 <= r1 /\ r1 <= r2 /\ r2 <= r3
  BY DEF IsRank
<1>2. At(v, r0) = 100 * v[1] /\ At(v, r3) = 100 * v[n]
  <2>1. Splits(r0, 0, 0, 0) /\ Splits(r3, n - 1, 0, n - 1) /\ 0 + 1 = 1 /\ n - 1 + 1 = n
    BY DEF Splits
  <2> HIDE DEF r0, r3
  <2>2. Interpolates(At(v, r0), v, n, 0, 0, 0) /\ Interpolates(At(v, r3), v, n, n - 1, 0, n - 1)
    BY <1>1, <2>1, AtIs
  <2>3. At(v, r0) = 100 * v[1] + (v[1] - v[1]) * 0 /\ v[1] \in Int
    BY <2>1, <2>2 DEF Interpolates
  <2>4. At(v, r3) = 100 * v[n] + (v[n] - v[n]) * 0 /\ v[n] \in Int
    BY <2>1, <2>2 DEF Interpolates
  <2> QED
    BY <2>3, <2>4
<1>3. /\ s.min_ms = Rounded(At(v, r0)) /\ s.p50_ms = Rounded(At(v, r1))
      /\ s.p95_ms = Rounded(At(v, r2)) /\ s.max_ms = Rounded(At(v, r3))
  BY <1>2 DEF FiguresOf
<1> HIDE DEF r0, r1, r2, r3
<1>4. /\ At(v, r0) \in Int /\ At(v, r1) \in Int /\ At(v, r2) \in Int /\ At(v, r3) \in Int
      /\ At(v, r0) <= At(v, r1) /\ At(v, r1) <= At(v, r2) /\ At(v, r2) <= At(v, r3)
  BY <1>1, AtMonotone
<1> QED
  BY <1>3, <1>4, RoundedMonotone

(***************************************************************************)
(* Every row is counted under one name.                                    *)
(***************************************************************************)
LEMMA CountsCoverTheRows ==
  ASSUME NEW rows \in Seq(IntRow), NEW count,
         \A name \in NamesOf(rows) :
           /\ count[name] \in Nat
           /\ \E p : Enumerates(p, count[name], RowsOf(rows, name))
  PROVE  Len(rows) = Cardinality({x \in NamesOf(rows) \X (1..Len(rows)) : x[2] <= count[x[1]]})
<1> DEFINE N == Len(rows)
           X == {x \in NamesOf(rows) \X (1..N) : x[2] <= count[x[1]]}
           list == [name \in NamesOf(rows) |->
                      CHOOSE p : Enumerates(p, count[name], RowsOf(rows, name))]
           f == [x \in X |-> list[x[1]][x[2]]]
<1>1. N \in Nat /\ IsFiniteSet(1..N) /\ Cardinality(1..N) = N /\ DOMAIN rows = 1..N
  <2>1. N \in Nat /\ DOMAIN rows = 1..N
    OBVIOUS
  <2> HIDE DEF N
  <2> QED
    BY <2>1, FS_Interval
<1>2. \A name \in NamesOf(rows) : Enumerates(list[name], count[name], RowsOf(rows, name))
  OBVIOUS
<1> HIDE DEF list
<1>3. ASSUME NEW name \in NamesOf(rows) PROVE count[name] <= N
  <2>1. RowsOf(rows, name) \in SUBSET (1..N) /\ count[name] = Cardinality(RowsOf(rows, name))
    BY <1>2, EnumerationCounts DEF RowsOf
  <2> QED
    BY <1>1, <2>1, FS_Subset
<1> HIDE DEF N
<1>4. ASSUME NEW x \in X
      PROVE  /\ x[1] \in NamesOf(rows) /\ x[2] \in 1..count[x[1]]
             /\ x = <<x[1], x[2]>>
             /\ f[x] = list[x[1]][x[2]]
             /\ f[x] \in 1..N /\ rows[f[x]].metric_name = x[1]
  <2>1. /\ x[1] \in NamesOf(rows) /\ x[2] \in 1..N /\ x[2] <= count[x[1]]
        /\ x = <<x[1], x[2]>> /\ f[x] = list[x[1]][x[2]]
    OBVIOUS
  <2>2. x[2] \in 1..count[x[1]]
    BY <2>1
  <2>3. list[x[1]][x[2]] \in RowsOf(rows, x[1])
    BY <1>2, <2>1, <2>2 DEF Enumerates
  <2> QED
    BY <2>1, <2>2, <2>3 DEF RowsOf, N
<1>5. ASSUME NEW x \in X, NEW y \in X, f[x] = f[y] PROVE x = y
  <2>1. x[1] = y[1] /\ list[x[1]][x[2]] = list[x[1]][y[2]]
    BY <1>4, <1>5
  <2>2. x[2] \in 1..count[x[1]] /\ y[2] \in 1..count[x[1]] /\ x[1] \in NamesOf(rows)
    BY <1>4, <2>1
  <2>3. x[2] = y[2]
    <3>1. \A a, b \in 1..count[x[1]] : list[x[1]][a] = list[x[1]][b] => a = b
      BY <1>2, <2>2 DEF Enumerates
    <3> QED
      BY <2>1, <2>2, <3>1
  <2> QED
    BY <1>4, <2>1, <2>3
<1>6. ASSUME NEW i \in 1..N PROVE \E x \in X : f[x] = i
  <2> DEFINE name == rows[i].metric_name
  <2>1. name \in NamesOf(rows) /\ i \in RowsOf(rows, name)
    BY <1>1 DEF NamesOf, RowsOf, N
  <2> HIDE DEF name
  <2>2. PICK k \in 1..count[name] : list[name][k] = i
    BY <1>2, <2>1 DEF Enumerates
  <2>3. k \in 1..N /\ k <= count[name]
    BY <1>1, <1>3, <2>1
  <2>4. <<name, k>> \in X
    BY <2>1, <2>3
  <2>5. f[<<name, k>>] = i
    BY <2>2, <2>4
  <2> QED
    BY <2>4, <2>5
<1>7. f \in [X -> 1..N]
  BY <1>4
<1> HIDE DEF f, X
<1>8. f \in Bijection(X, 1..N)
  BY <1>5, <1>6, <1>7, Fun_IsBij
<1>9. ExistsBijection(X, 1..N)
  BY <1>8, Fun_ExistsBij
<1>10. ExistsBijection(1..N, X)
  BY <1>9, Fun_ExistsBijSymmetric
<1>11. Cardinality(X) = N
  BY <1>1, <1>10, FS_Bijection
<1> QED
  BY <1>11 DEF X, N

(***************************************************************************)
(* What /metrics/gates answers is consistent after its rounding, however   *)
(* many calls were recorded (SummaryIsConsistent).                         *)
(***************************************************************************)
THEOREM SummaryConsistent == MetricsSpec => []SummaryIsConsistent
<1>1. ASSUME agent_metrics \in Seq(MetricRow) PROVE SummaryIsConsistent
  <2> DEFINE rows == agent_metrics
             summary == gate_latency_summary(rows)
             count == [name \in NamesOf(rows) |-> summary[name].count]
  <2>1. rows \in Seq(IntRow)
    BY <1>1, RowsAreIntRows
  <2>2. DOMAIN summary = NamesOf(rows)
    BY DEF gate_latency_summary
  <2> HIDE DEF summary
  <2>3. ASSUME NEW name \in NamesOf(rows)
        PROVE  /\ summary[name].min_ms <= summary[name].p50_ms
               /\ summary[name].p50_ms <= summary[name].p95_ms
               /\ summary[name].p95_ms <= summary[name].max_ms
               /\ summary[name].count = 1 => summary[name].min_ms = summary[name].max_ms
               /\ \E i \in DOMAIN rows : summary[name].max_ms = Rounded(100 * rows[i].metric_ms)
               /\ summary[name].count \in Nat
               /\ \E p : Enumerates(p, summary[name].count, RowsOf(rows, name))
    <3> DEFINE sorted == SortedValues(rows, name)
               s == summary[name]
    <3>1. PICK n, p : /\ n \in Nat \ {0}
                      /\ Enumerates(p, n, RowsOf(rows, name))
                      /\ ValuesAlong(sorted, rows, p, n)
                      /\ Ascending(sorted, n)
                      /\ FiguresOf(s, sorted, n)
      BY <2>1, SummaryIs DEF summary
    <3> HIDE DEF sorted, s
    <3>2. sorted \in [1..n -> Int]
      BY <3>1 DEF ValuesAlong
    <3>3. s.min_ms <= s.p50_ms /\ s.p50_ms <= s.p95_ms /\ s.p95_ms <= s.max_ms
      BY <3>1, <3>2, FiguresInOrder
    <3>4. s.count = 1 => s.min_ms = s.max_ms
      BY <3>1 DEF FiguresOf
    <3>5. \E i \in DOMAIN rows : s.max_ms = Rounded(100 * rows[i].metric_ms)
      <4>1. n \in 1..n
        BY <3>1
      <4>2. p[n] \in DOMAIN rows
        BY <2>1, <3>1, <4>1 DEF Enumerates, RowsOf
      <4>3. sorted[n] = rows[p[n]].metric_ms
        BY <3>1, <4>1 DEF ValuesAlong
      <4> QED
        BY <3>1, <4>2, <4>3 DEF FiguresOf
    <3>6. s.count \in Nat /\ \E o : Enumerates(o, s.count, RowsOf(rows, name))
      BY <3>1 DEF FiguresOf
    <3> QED
      BY <3>3, <3>4, <3>5, <3>6 DEF s
  <2>4. \A i \in DOMAIN rows : rows[i].metric_name \in NamesOf(rows)
    BY DEF NamesOf
  <2>5. Len(rows) = Cardinality({x \in NamesOf(rows) \X (1..Len(rows)) : x[2] <= count[x[1]]})
    <3>1. \A name \in NamesOf(rows) :
            /\ count[name] \in Nat
            /\ \E p : Enumerates(p, count[name], RowsOf(rows, name))
      BY <2>3
    <3> HIDE DEF count
    <3> QED
      BY <2>1, <3>1, CountsCoverTheRows
  <2>6. {x \in NamesOf(rows) \X (1..Len(rows)) : x[2] <= count[x[1]]}
          = {x \in NamesOf(rows) \X (1..Len(rows)) : x[2] <= summary[x[1]].count}
    OBVIOUS
  <2> HIDE DEF count
  <2> QED
    BY <2>2, <2>3, <2>4, <2>5, <2>6 DEF SummaryIsConsistent, summary
<1> QED
  BY <1>1, MetricsType, PTL

------------------------------------------------------------------------------
(***************************************************************************)
(* One call more.                                                          *)
(***************************************************************************)
LEMMA OneRowMore ==
  ASSUME NEW rows \in Seq(IntRow), NEW new \in IntRow
  PROVE  /\ Append(rows, new) \in Seq(IntRow)
         /\ Len(rows) \in Nat
         /\ Len(Append(rows, new)) = Len(rows) + 1
         /\ Append(rows, new)[Len(rows) + 1] = new
         /\ \A i \in 1..Len(rows) : i # Len(rows) + 1 /\ Append(rows, new)[i] = rows[i]
         /\ 1..Len(rows) + 1 = 1..Len(rows) \cup {Len(rows) + 1}
<1>1. Len(rows) \in Nat
  OBVIOUS
<1> QED
  BY <1>1, AppendProperties

LEMMA OtherNamesStay ==
  ASSUME NEW rows \in Seq(IntRow), NEW new \in IntRow, NEW name, new.metric_name # name
  PROVE  SortedValues(Append(rows, new), name) = SortedValues(rows, name)
<1> DEFINE more == Append(rows, new)
           sorted == SortedValues(rows, name)
<1>1. PICK n, p : /\ Enumerates(p, n, RowsOf(rows, name))
                  /\ ValuesAlong(sorted, rows, p, n)
                  /\ Ascending(sorted, n)
  BY SortedValuesAre
<1>2. /\ more \in Seq(IntRow) /\ Len(rows) \in Nat /\ Len(more) = Len(rows) + 1
      /\ more[Len(rows) + 1] = new /\ \A i \in 1..Len(rows) : more[i] = rows[i]
      /\ 1..Len(rows) + 1 = 1..Len(rows) \cup {Len(rows) + 1}
  BY OneRowMore
<1> HIDE DEF more, sorted
<1>3. RowsOf(more, name) = RowsOf(rows, name)
  BY <1>2 DEF RowsOf
<1>4. ValuesAlong(sorted, more, p, n)
  BY <1>1, <1>2 DEF ValuesAlong, Enumerates, RowsOf
<1>5. SortedValues(more, name) = sorted
  BY <1>1, <1>2, <1>3, <1>4, SortedValuesUnique
<1> QED
  BY <1>5 DEF more, sorted

LEMMA SlowestGoesLast ==
  ASSUME NEW rows \in Seq(IntRow), NEW new \in IntRow, NEW n, NEW p, NEW name,
         name = new.metric_name,
         Enumerates(p, n, RowsOf(rows, name)),
         ValuesAlong(SortedValues(rows, name), rows, p, n),
         Ascending(SortedValues(rows, name), n),
         \A k \in 1..n : SortedValues(rows, name)[k] <= new.metric_ms
  PROVE  SortedValues(Append(rows, new), name)
           = Extended(SortedValues(rows, name), n, new.metric_ms)
<1> DEFINE more == Append(rows, new)
           sorted == SortedValues(rows, name)
           a == Extended(sorted, n, new.metric_ms)
           N == Len(rows)
           o == Extended(p, n, N + 1)
<1>1. /\ more \in Seq(IntRow) /\ N \in Nat /\ Len(more) = N + 1
      /\ more[N + 1] = new /\ \A i \in 1..N : i # N + 1 /\ more[i] = rows[i]
      /\ 1..N + 1 = 1..N \cup {N + 1}
  BY OneRowMore
<1>2. new.metric_ms \in Int
  BY DEF IntRow
<1> HIDE DEF more, sorted, N
<1>3. RowsOf(more, name) = RowsOf(rows, name) \cup {N + 1} /\ N + 1 \notin RowsOf(rows, name)
  BY <1>1 DEF RowsOf, N
<1>4. Enumerates(o, n + 1, RowsOf(more, name))
  BY <1>3, EnumerationExtended
<1>5. n \in Nat /\ sorted \in [1..n -> Int]
  BY DEF ValuesAlong, sorted
<1>6. /\ \A k \in 1..n : k \in 1..n + 1 /\ a[k] = sorted[k] /\ o[k] = p[k]
      /\ n + 1 \in 1..n + 1 /\ a[n + 1] = new.metric_ms /\ o[n + 1] = N + 1
      /\ 1..n + 1 = 1..n \cup {n + 1} /\ a \in [1..n + 1 -> Int]
  BY <1>2, <1>5 DEF Extended
<1> HIDE DEF a, o
<1>7. ValuesAlong(a, more, o, n + 1)
  <2>1. \A k \in 1..n : p[k] \in 1..N /\ sorted[k] = rows[p[k]].metric_ms
    BY DEF ValuesAlong, Enumerates, RowsOf, sorted, N
  <2>2. ASSUME NEW k \in 1..n + 1 PROVE a[k] = more[o[k]].metric_ms
    <3>1. CASE k \in 1..n
      <4>1. a[k] = sorted[k] /\ o[k] = p[k] /\ p[k] \in 1..N
        BY <1>6, <2>1, <3>1
      <4>2. more[p[k]] = rows[p[k]]
        BY <1>1, <4>1
      <4> QED
        BY <2>1, <3>1, <4>1, <4>2
    <3>2. CASE k = n + 1
      BY <1>1, <1>6, <3>2
    <3> QED
      BY <1>6, <3>1, <3>2
  <2>3. n + 1 \in Nat
    BY <1>5
  <2> QED
    BY <1>6, <2>2, <2>3 DEF ValuesAlong
<1>8. Ascending(a, n + 1)
  <2> SUFFICES ASSUME NEW i \in 1..n + 1, NEW j \in 1..n + 1, i <= j PROVE a[i] <= a[j]
    BY DEF Ascending
  <2>1. CASE j \in 1..n
    <3>1. i \in 1..n
      BY <1>5, <2>1
    <3> QED
      BY <1>6, <2>1, <3>1 DEF Ascending, sorted
  <2>2. CASE j = n + 1 /\ i \in 1..n
    BY <1>6, <2>2 DEF sorted
  <2>3. CASE j = n + 1 /\ i = n + 1
    BY <1>2, <1>6, <2>3
  <2> QED
    BY <1>6, <2>1, <2>2, <2>3
<1>9. SortedValues(more, name) = a
  BY <1>1, <1>4, <1>7, <1>8, SortedValuesUnique
<1> QED
  BY <1>9 DEF more, a, sorted

\* The rows of a name are at most, or at least, as slow as x.
NoneAbove(rows, name, x) == \A i \in RowsOf(rows, name) : rows[i].metric_ms <= x

NoneBelow(rows, name, x) == \A i \in RowsOf(rows, name) : rows[i].metric_ms >= x

AtMost(x, y) == x \in Int /\ y \in Int /\ x <= y

LEMMA SlowestLowersNothing ==
  ASSUME NEW rows \in Seq(IntRow), NEW new \in IntRow, NEW name, NEW pct,
         name \in NamesOf(rows), name = new.metric_name, pct \in {5, 50, 95},
         NoneAbove(rows, name, new.metric_ms)
  PROVE  AtMost(Percentile(rows, name, pct), Percentile(Append(rows, new), name, pct))
<1> DEFINE sorted == SortedValues(rows, name)
           longer == SortedValues(Append(rows, new), name)
           x == new.metric_ms
<1>1. PICK n, p : /\ Enumerates(p, n, RowsOf(rows, name))
                  /\ ValuesAlong(sorted, rows, p, n)
                  /\ Ascending(sorted, n)
  BY SortedValuesAre
<1>2. n \in Nat \ {0} /\ sorted \in [1..n -> Int]
  <2>1. PICK i \in DOMAIN rows : rows[i].metric_name = name
    BY DEF NamesOf
  <2>2. i \in RowsOf(rows, name)
    BY <2>1 DEF RowsOf
  <2> QED
    BY <1>1, <2>2 DEF Enumerates, ValuesAlong
<1>3. \A k \in 1..n : sorted[k] <= x
  BY <1>1 DEF NoneAbove, ValuesAlong, Enumerates
<1>4. longer = Extended(sorted, n, x)
  BY <1>1, <1>3, SlowestGoesLast
<1>5. x \in Int
  BY DEF IntRow
<1> HIDE DEF sorted, longer, x
<1>6. /\ longer \in [1..n + 1 -> Int] /\ n + 1 \in Nat \ {0}
      /\ \A k \in 1..n : k \in 1..n + 1 /\ longer[k] = sorted[k]
      /\ longer[n + 1] = x /\ n + 1 \in 1..n + 1 /\ 1..n + 1 = 1..n \cup {n + 1}
  BY <1>2, <1>4, <1>5 DEF Extended
<1>7. Ascending(longer, n + 1)
  <2> SUFFICES ASSUME NEW i \in 1..n + 1, NEW j \in 1..n + 1, i <= j PROVE longer[i] <= longer[j]
    BY DEF Ascending
  <2>1. CASE j \in 1..n
    <3>1. i \in 1..n
      BY <1>2, <2>1
    <3> QED
      BY <1>1, <1>6, <2>1, <3>1 DEF Ascending
  <2>2. CASE j = n + 1 /\ i \in 1..n
    BY <1>3, <1>6, <2>2
  <2>3. CASE j = n + 1 /\ i = n + 1
    BY <1>5, <1>6, <2>3
  <2> QED
    BY <1>6, <2>1, <2>2, <2>3
<1> DEFINE r == pct * (n - 1)
           s == pct * n
           m == n + 1
<1>8. /\ Percentile(rows, name, pct) = At(sorted, r) /\ IsRank(r, n)
      /\ r <= s /\ IsRank(r, m)
  <2>1. _percentile(sorted, pct) = At(sorted, pct * (n - 1)) /\ IsRank(pct * (n - 1), n)
    BY <1>2, PercentileIs
  <2>2. pct * (n - 1) <= pct * n /\ pct * (n - 1) <= 100 * n
    BY <1>2
  <2>3. m - 1 = n /\ m \in Nat
    BY <1>2
  <2> QED
    BY <2>1, <2>2, <2>3 DEF Percentile, sorted, IsRank
<1>9. Percentile(Append(rows, new), name, pct) = At(longer, s) /\ IsRank(s, m)
  <2>1. m \in Nat \ {0} /\ longer \in [1..m -> Int] /\ m - 1 = n
    BY <1>2, <1>6
  <2> HIDE DEF m
  <2>2. _percentile(longer, pct) = At(longer, pct * (m - 1)) /\ IsRank(pct * (m - 1), m)
    BY <2>1, PercentileIs
  <2> QED
    BY <2>1, <2>2 DEF Percentile, longer
<1>10. longer \in [1..m -> Int] /\ Ascending(longer, m) /\ m \in Nat
  BY <1>6, <1>7
<1> HIDE DEF r, s, m
<1>11. At(longer, r) = At(sorted, r)
  <2>1. PICK q, f, c : Splits(r, q, f, c)
    BY <1>8, RankSplits DEF IsRank
  <2>2. Interpolates(At(sorted, r), sorted, n, q, f, c)
    BY <1>1, <1>2, <1>8, <2>1, AtIs
  <2>3. Interpolates(At(longer, r), longer, m, q, f, c)
    BY <1>8, <1>10, <2>1, AtIs
  <2>4. q + 1 \in 1..n /\ c + 1 \in 1..n
    BY <2>2 DEF Interpolates
  <2>5. longer[q + 1] = sorted[q + 1] /\ longer[c + 1] = sorted[c + 1]
    BY <1>6, <2>4
  <2> QED
    BY <2>2, <2>3, <2>5 DEF Interpolates
<1>12. At(longer, r) \in Int /\ At(longer, s) \in Int /\ At(longer, r) <= At(longer, s)
  BY <1>8, <1>9, <1>10, AtMonotone
<1> QED
  BY <1>8, <1>9, <1>11, <1>12 DEF AtMost

(***************************************************************************)
(* The fastest, seen from above, is the slowest.                           *)
(***************************************************************************)
LEMMA FastestRaisesNothing ==
  ASSUME NEW rows \in Seq(IntRow), NEW new \in IntRow, NEW name, NEW pct,
         name \in NamesOf(rows), name = new.metric_name, pct \in Reported,
         NoneBelow(rows, name, new.metric_ms)
  PROVE  AtMost(Percentile(Append(rows, new), name, pct), Percentile(rows, name, pct))
<1> DEFINE mirrored == Mirrored(rows)
           more == Append(rows, new)
           last == [new EXCEPT !.metric_ms = -@]
           rest == 100 - pct
<1>1. last \in IntRow /\ last.metric_name = name /\ last.metric_ms = -new.metric_ms
  BY DEF IntRow
<1>2. \A i \in 1..Len(rows) : rows[i] \in IntRow
  OBVIOUS
<1>3. ASSUME NEW row \in IntRow
      PROVE  /\ [row EXCEPT !.metric_ms = -@] \in IntRow
             /\ [row EXCEPT !.metric_ms = -@].metric_name = row.metric_name
             /\ [row EXCEPT !.metric_ms = -@].metric_ms = -row.metric_ms
  BY DEF IntRow
<1>4. /\ mirrored \in Seq(IntRow) /\ Len(mirrored) = Len(rows)
      /\ \A i \in 1..Len(rows) : /\ mirrored[i].metric_name = rows[i].metric_name
                                 /\ mirrored[i].metric_ms = -rows[i].metric_ms
                                 /\ mirrored[i] = [rows[i] EXCEPT !.metric_ms = -@]
  <2>1. mirrored = [i \in 1..Len(rows) |-> [rows[i] EXCEPT !.metric_ms = -@]] /\ Len(rows) \in Nat
    BY DEF Mirrored
  <2>2. /\ mirrored = [i \in 1..Len(rows) |-> mirrored[i]]
        /\ \A i \in 1..Len(rows) : mirrored[i] = [rows[i] EXCEPT !.metric_ms = -@]
    BY <2>1
  <2> HIDE DEF mirrored
  <2>3. \A i \in 1..Len(rows) : /\ mirrored[i] \in IntRow
                                /\ mirrored[i].metric_name = rows[i].metric_name
                                /\ mirrored[i].metric_ms = -rows[i].metric_ms
    BY <1>2, <1>3, <2>2
  <2>4. mirrored \in [1..Len(rows) -> IntRow]
    BY <2>2, <2>3
  <2> QED
    BY <2>1, <2>2, <2>3, <2>4
<1>5. /\ more \in Seq(IntRow) /\ Len(rows) \in Nat /\ Len(more) = Len(rows) + 1
      /\ more[Len(rows) + 1] = new /\ \A i \in 1..Len(rows) : more[i] = rows[i]
      /\ 1..Len(rows) + 1 = 1..Len(rows) \cup {Len(rows) + 1}
  BY OneRowMore
<1>6. Mirrored(more) = Append(mirrored, last)
  <2>1. Mirrored(more) = [i \in 1..Len(rows) + 1 |-> [more[i] EXCEPT !.metric_ms = -@]]
    <3>1. DOMAIN more = 1..Len(rows) + 1
      BY <1>5
    <3> QED
      BY <3>1 DEF Mirrored
  <2>2. Append(mirrored, last)
          = [i \in 1..Len(rows) + 1 |-> IF i = Len(rows) + 1 THEN last ELSE mirrored[i]]
    <3> HIDE DEF last, mirrored
    <3>1. Append(mirrored, last) \in Seq(IntRow) /\ Len(Append(mirrored, last)) = Len(rows) + 1
      BY <1>1, <1>4, <1>5, OneRowMore
    <3>2. \A i \in 1..Len(rows) + 1 :
            Append(mirrored, last)[i] = IF i = Len(rows) + 1 THEN last ELSE mirrored[i]
      BY <1>1, <1>4, <1>5, OneRowMore
    <3> DEFINE grown == Append(mirrored, last)
    <3> HIDE DEF grown
    <3>3. grown = [i \in 1..Len(rows) + 1 |-> grown[i]]
      <4>1. grown \in Seq(IntRow) /\ Len(grown) = Len(rows) + 1
        BY <3>1 DEF grown
      <4>2. grown \in [1..Len(grown) -> IntRow]
        BY <4>1
      <4>3. grown = [i \in 1..Len(grown) |-> grown[i]]
        BY <4>2
      <4> QED
        BY <4>1, <4>3
    <3>4. \A i \in 1..Len(rows) + 1 : grown[i] = IF i = Len(rows) + 1 THEN last ELSE mirrored[i]
      BY <3>2 DEF grown
    <3>5. grown = [i \in 1..Len(rows) + 1 |-> IF i = Len(rows) + 1 THEN last ELSE mirrored[i]]
      BY <3>3, <3>4
    <3> QED
      BY <3>5 DEF grown
  <2>3. \A i \in 1..Len(rows) + 1 :
          [more[i] EXCEPT !.metric_ms = -@] = IF i = Len(rows) + 1 THEN last ELSE mirrored[i]
    BY <1>4, <1>5
  <2> QED
    BY <2>1, <2>2, <2>3
<1> HIDE DEF mirrored, last
<1>7. name \in NamesOf(mirrored) /\ name \in NamesOf(more)
  <2>1. PICK i \in 1..Len(rows) : rows[i].metric_name = name
    BY DEF NamesOf
  <2>2. i \in 1..Len(more) /\ more[i].metric_name = name /\ mirrored[i].metric_name = name
    BY <1>4, <1>5, <2>1
  <2>3. DOMAIN more = 1..Len(more) /\ DOMAIN mirrored = 1..Len(rows)
    BY <1>4, <1>5
  <2> HIDE DEF more
  <2> QED
    BY <2>2, <2>3 DEF NamesOf
<1>8. NoneAbove(mirrored, name, last.metric_ms)
  <2> SUFFICES ASSUME NEW i \in RowsOf(mirrored, name)
               PROVE  mirrored[i].metric_ms <= last.metric_ms
    BY DEF NoneAbove
  <2>1. i \in 1..Len(rows) /\ rows[i].metric_name = name /\ mirrored[i].metric_ms = -rows[i].metric_ms
    BY <1>4 DEF RowsOf
  <2>2. rows[i].metric_ms >= new.metric_ms
    BY <2>1 DEF NoneBelow, RowsOf
  <2>3. rows[i].metric_ms \in Int /\ new.metric_ms \in Int
    BY <1>2, <2>1 DEF IntRow
  <2> QED
    BY <1>1, <2>1, <2>2, <2>3
<1>9. rest \in {5, 50, 95}
  BY DEF Reported
<1> HIDE DEF rest
<1>10. AtMost(Percentile(mirrored, name, rest), Percentile(Append(mirrored, last), name, rest))
  BY <1>1, <1>4, <1>7, <1>8, <1>9, SlowestLowersNothing
<1>11. /\ Percentile(mirrored, name, rest) = -Percentile(rows, name, pct)
       /\ Percentile(Mirrored(more), name, rest) = -Percentile(more, name, pct)
  <2> HIDE DEF more
  <2> QED
    BY <1>5, <1>7, MirroredPercentile DEF rest, mirrored
<1>12. Percentile(rows, name, pct) \in Int /\ Percentile(more, name, pct) \in Int
  <2>1. ASSUME NEW list \in Seq(IntRow), name \in NamesOf(list)
        PROVE  Percentile(list, name, pct) \in Int
    <3> DEFINE sorted == SortedValues(list, name)
    <3>1. PICK n, q : Rearranges(sorted, Values(list, name), n, q) /\ n \in Nat \ {0}
      BY <2>1, SortedRearranges
    <3>2. sorted \in [1..n -> Int] /\ Ascending(sorted, n)
      BY <3>1 DEF Rearranges
    <3> HIDE DEF sorted
    <3>3. _percentile(sorted, pct) = At(sorted, pct * (n - 1)) /\ IsRank(pct * (n - 1), n)
      BY <3>1, <3>2, PercentileIs DEF Reported
    <3>4. pct * (n - 1) <= pct * (n - 1)
      BY <3>3 DEF IsRank
    <3>5. At(sorted, pct * (n - 1)) \in Int
      <4> DEFINE r == pct * (n - 1)
      <4>1. IsRank(r, n) /\ r <= r
        BY <3>3, <3>4
      <4> HIDE DEF r
      <4>2. At(sorted, r) \in Int
        BY <3>1, <3>2, <4>1, AtMonotone
      <4> QED
        BY <4>2 DEF r
    <3> QED
      BY <3>3, <3>5 DEF Percentile, sorted
  <2> QED
    BY <1>5, <1>7, <2>1
<1> QED
  BY <1>6, <1>10, <1>11, <1>12 DEF AtMost

(***************************************************************************)
(* A call at least as slow as all before it lowers no reported percentile  *)
(* of its gate, one at least as fast raises none, and those of the other   *)
(* gates stay (FiguresFollowTheCalls), however long the table is.          *)
(***************************************************************************)
THEOREM FiguresFollow == MetricsSpec => FiguresFollowTheCalls
<1> DEFINE rows == agent_metrics
           Follow ==
             \A name \in NamesOf(agent_metrics), pct \in Reported :
               LET new    == agent_metrics'[Len(agent_metrics')]
                   before == Values(agent_metrics, name)
                   p      == Percentile(agent_metrics, name, pct)
                   q      == Percentile(agent_metrics', name, pct)
               IN  /\ new.metric_name # name => q = p
                   /\ (\A i \in DOMAIN before : before[i] <= new.metric_ms) /\ new.metric_name = name
                        => q >= p
                   /\ (\A i \in DOMAIN before : before[i] >= new.metric_ms) /\ new.metric_name = name
                        => q <= p
<1>1. ASSUME rows \in Seq(MetricRow), MetricsNext PROVE Follow
  <2>1. rows \in Seq(IntRow)
    BY <1>1, RowsAreIntRows
  <2>2. PICK gate \in MetricNames, ms \in Latencies : RecordInvokeLatency(gate, ms)
    BY <1>1 DEF MetricsNext
  <2> DEFINE new == [metric_name |-> gate, metric_ms |-> ms]
  <2>3. rows' = Append(rows, new) /\ new \in IntRow
    <3>1. ms \in Int
      BY MetricsAssumption
    <3> QED
      BY <2>2, <3>1 DEF RecordInvokeLatency, IntRow
  <2>4. rows'[Len(rows')] = new
    BY <2>1, <2>3, OneRowMore
  <2> HIDE DEF new
  <2>5. ASSUME NEW name \in NamesOf(rows), NEW pct \in Reported
        PROVE  LET before == Values(rows, name)
                   p      == Percentile(rows, name, pct)
                   q      == Percentile(rows', name, pct)
               IN  /\ new.metric_name # name => q = p
                   /\ (\A i \in DOMAIN before : before[i] <= new.metric_ms) /\ new.metric_name = name
                        => q >= p
                   /\ (\A i \in DOMAIN before : before[i] >= new.metric_ms) /\ new.metric_name = name
                        => q <= p
    <3> DEFINE before == Values(rows, name)
               p == Percentile(rows, name, pct)
               q == Percentile(rows', name, pct)
    <3>1. PICK n, o : Enumerates(o, n, RowsOf(rows, name)) /\ ValuesAlong(before, rows, o, n)
      BY <2>1, ValuesAre
    <3>2. \A i \in RowsOf(rows, name) : \E k \in DOMAIN before : before[k] = rows[i].metric_ms
      BY <3>1 DEF Enumerates, ValuesAlong
    <3>3. new.metric_name # name => q = p
      BY <2>1, <2>3, OtherNamesStay DEF Percentile
    <3> HIDE DEF before
    <3>4. ASSUME \A i \in DOMAIN before : before[i] <= new.metric_ms, new.metric_name = name
          PROVE  q >= p
      <4>1. NoneAbove(rows, name, new.metric_ms)
        BY <3>2, <3>4 DEF NoneAbove
      <4>2. pct \in {5, 50, 95}
        BY DEF Reported
      <4>3. name = new.metric_name
        BY <3>4
      <4>4. AtMost(Percentile(rows, name, pct), Percentile(Append(rows, new), name, pct))
        <5>1. rows \in Seq(IntRow) /\ new \in IntRow
          BY <2>1, <2>3
        <5> HIDE DEF p, q
        <5> QED
          BY ONLY <5>1, <4>1, <4>2, <4>3, name \in NamesOf(rows), SlowestLowersNothing
      <4>5. AtMost(p, q)
        BY <2>3, <4>4
      <4> HIDE DEF p, q
      <4> QED
        BY <4>5 DEF AtMost
    <3>5. ASSUME \A i \in DOMAIN before : before[i] >= new.metric_ms, new.metric_name = name
          PROVE  q <= p
      <4>1. NoneBelow(rows, name, new.metric_ms)
        BY <3>2, <3>5 DEF NoneBelow
      <4> QED
        BY <2>1, <2>3, <3>5, <4>1, FastestRaisesNothing DEF AtMost
    <3> HIDE DEF p, q
    <3> QED
      BY <3>3, <3>4, <3>5 DEF before, p, q
  <2> QED
    BY <2>4, <2>5
<1>2. rows \in Seq(MetricRow) /\ [MetricsNext]_rows => [Follow]_rows
  BY <1>1
<1> QED
  BY <1>2, MetricsType, PTL DEF MetricsSpec, FiguresFollowTheCalls

================================================================================
