--------------------------- MODULE Pipeline_proofs ---------------------------
(***************************************************************************)
(* Proofs about Pipeline, for any set of days, any caps and any number of  *)
(* starts, in every interleaving of the three scripts and of their deaths: *)
(* no script works on half a file; what the report, the lists, the         *)
(* summaries and the digest that are made of a day say of it; the alerts   *)
(* and the counts of a run; that what was told and written is true.        *)
(***************************************************************************)
EXTENDS Pipeline, Ordering_proofs

(***************************************************************************)
(* A step is the next statement of one of the scripts.                     *)
(***************************************************************************)
FetchStep == Fetch \/ SavePermits

ProcessStep ==
  \/ Load \/ Unreadable("process", "permits") \/ SaveProcessed
  \/ SendDaily \/ SendBreakdown \/ SendStrategic \/ SkipStrategic \/ SendAlert \/ Report

DigestStep ==
  \/ LoadProcessed \/ Unreadable("digest", "processed") \/ LoadRaw \/ SaveMarkdown \/ Convert

LEMMA StepOfAScript ==
  ASSUME [Next]_vars
  PROVE  \/ FetchStep \/ ProcessStep \/ DigestStep
         \/ \E s \in Scripts : Dies(s)
         \/ UNCHANGED vars
  BY DEF Next, FetchStep, ProcessStep, DigestStep, Terminating

(***************************************************************************)
(* Whole files.  What the digest is about to write is the day's digest.    *)
(***************************************************************************)
Labels == Resting \cup {"save", "alerts", "raw", "convert"} \cup Summaries

FilesInv ==
  /\ portal \in Days
  /\ file \in [Files -> {Absent, Partial, TheReport, TheLists, TheDigest}]
  /\ pc \in [Scripts -> Labels]
  /\ NobodyWorksOnHalfAFile
  /\ pc["digest"] = "save" => draft = TheDigest

LEMMA TheDayStays ==
  ASSUME portal' = portal
  PROVE  TheReport' = TheReport /\ TheLists' = TheLists /\ TheDigest' = TheDigest
  BY DEF TheReport, TheLists, TheDigest

LEMMA FilesStep ==
  ASSUME FilesInv, [Next]_vars
  PROVE  FilesInv'
<1>0. /\ portal' = portal /\ portal \in Days
      /\ TheReport \notin {Absent, Partial} /\ TheLists \notin {Absent, Partial}
  <2>1. portal' = portal
    BY DEF Next, Fetch, SavePermits, Load, Unreadable, SaveProcessed, SendDaily, SendBreakdown,
         SendStrategic, SendSummary, SkipStrategic, SendAlert, Report, LoadProcessed, LoadRaw,
         SaveMarkdown, Convert, Dies, Terminating, vars
  <2> QED
    BY <2>1, PipelineAssumption DEF FilesInv, TheReport, TheLists, ListsOf
<1>1. TheReport' = TheReport /\ TheLists' = TheLists /\ TheDigest' = TheDigest
  BY <1>0, TheDayStays
<1> DEFINE Contents == {Absent, Partial, TheReport, TheLists, TheDigest}
<1> USE DEF Files, Scripts, Resting, Summaries, Labels, Goto, Write, Readable, Start
<1>2. CASE FetchStep
  BY <1>0, <1>1, <1>2
  DEF FetchStep, FilesInv, NobodyWorksOnHalfAFile, Fetch, SavePermits, TheReport, notices, counts
<1>3. CASE ProcessStep
  <2>1. CASE Load \/ Unreadable("process", "permits")
    BY <1>0, <1>1, <2>1
    DEF FilesInv, NobodyWorksOnHalfAFile, Load, Unreadable, notices, counts
  <2>2. CASE SaveProcessed
    <3>1. ProcessedOutput(processed, data) = TheLists
      BY <2>2 DEF FilesInv, NobodyWorksOnHalfAFile, SaveProcessed, TheLists, ListsOf
    <3> QED
      BY <1>0, <1>1, <2>2, <3>1 DEF FilesInv, NobodyWorksOnHalfAFile, SaveProcessed, notices, counts
  <2>3. CASE SendDaily \/ SendBreakdown \/ SendStrategic \/ SkipStrategic \/ SendAlert \/ Report
    <3>1. /\ UNCHANGED <<file, data, processed, lists, draft>>
          /\ \/ pc' = pc
             \/ \E l \in {"breakdown", "strategic", "alerts", "done"} : Goto("process", l)
          /\ pc["process"] # "idle"
      BY <2>3 DEF SendDaily, SendBreakdown, SendStrategic, SendSummary, SkipStrategic, SendAlert, Report
    <3> QED
      BY <1>0, <1>1, <3>1 DEF FilesInv, NobodyWorksOnHalfAFile
  <2> QED
    BY <1>3, <2>1, <2>2, <2>3 DEF ProcessStep
<1>4. CASE DigestStep
  <2>1. CASE LoadProcessed \/ Unreadable("digest", "processed")
    BY <1>0, <1>1, <2>1
    DEF FilesInv, NobodyWorksOnHalfAFile, LoadProcessed, Unreadable, notices, counts
  <2>2. CASE LoadRaw
    <3>1. generate_markdown(lists, file["permits"]) = TheDigest
      BY <2>2 DEF FilesInv, NobodyWorksOnHalfAFile, LoadRaw, TheDigest, TheLists
    <3> QED
      BY <1>0, <1>1, <2>2, <3>1 DEF FilesInv, NobodyWorksOnHalfAFile, LoadRaw, notices, counts
  <2>3. CASE SaveMarkdown
    BY <1>0, <1>1, <2>3 DEF FilesInv, NobodyWorksOnHalfAFile, SaveMarkdown, notices, counts
  <2>4. CASE Convert
    BY <1>0, <1>1, <2>4 DEF FilesInv, NobodyWorksOnHalfAFile, Convert, notices, counts
  <2> QED
    BY <1>4, <2>1, <2>2, <2>3, <2>4 DEF DigestStep
<1>5. CASE \E s \in Scripts : Dies(s)
  BY <1>0, <1>1, <1>5 DEF FilesInv, NobodyWorksOnHalfAFile, Dies
<1>6. CASE UNCHANGED vars
  BY <1>0, <1>1, <1>6 DEF FilesInv, NobodyWorksOnHalfAFile, vars
<1> QED
  BY <1>2, <1>3, <1>4, <1>5, <1>6, StepOfAScript

(***************************************************************************)
(* No script works with a part of a file, or leaves a part of a JSON file  *)
(* that can be read, in whatever order the scripts are run and wherever    *)
(* they die; a digest that is not the day's whole one is a part, and not   *)
(* once its script has written it (NobodyWorksOnHalfAFile).                *)
(***************************************************************************)
THEOREM FilesAreWhole == Spec => []NobodyWorksOnHalfAFile
<1>1. Init => FilesInv
  BY DEF Init, FilesInv, NobodyWorksOnHalfAFile, Readable, Files, Scripts, Labels, Resting
<1>2. FilesInv /\ [Next]_vars => FilesInv'
  BY FilesStep
<1>3. FilesInv => NobodyWorksOnHalfAFile
  BY DEF FilesInv
<1> QED
  BY <1>1, <1>2, <1>3, PTL DEF Spec

------------------------------------------------------------------------------
(***************************************************************************)
(* The permits of the day, and lists of some of them.  s ranks the n       *)
(* permits of S: each once, and none before one that is worth more.        *)
(***************************************************************************)
Ranking(s, n, S) ==
  /\ Enumerates(s, n, S)
  /\ \A i, j \in 1..n : i <= j => s[i].valuation >= s[j].valuation

LEMMA DayIs ==
  ASSUME portal \in Days
  PROVE  /\ Enumerates(portal, Len(portal), AllPermits)
         /\ \A p \in AllPermits : p.valuation \in Nat
         /\ Len(portal) \in Nat
<1>1. /\ portal \in Seq(Elements(portal))
      /\ \A i \in 1..Len(portal) : portal[i].valuation \in Nat
      /\ \A i, j \in 1..Len(portal) : portal[i] = portal[j] => i = j
  BY PipelineAssumption
<1>2. /\ Len(portal) \in Nat /\ DOMAIN portal = 1..Len(portal)
      /\ portal \in [1..Len(portal) -> Elements(portal)]
  BY <1>1
<1>3. \A p \in Elements(portal) : \E i \in 1..Len(portal) : portal[i] = p
  BY <1>2 DEF Elements
<1>4. Enumerates(portal, Len(portal), Elements(portal))
  BY <1>1, <1>2, <1>3 DEF Enumerates
<1>5. \A p \in Elements(portal) : p.valuation \in Nat
  BY <1>1, <1>3
<1> QED
  BY <1>2, <1>4, <1>5 DEF AllPermits

LEMMA ListIsSeq ==
  ASSUME NEW s, NEW n, NEW S, Enumerates(s, n, S)
  PROVE  n \in Nat /\ s \in Seq(S) /\ Len(s) = n /\ DOMAIN s = 1..n /\ Elements(s) = S
<1>1. n \in Nat /\ s \in [1..n -> S] /\ DOMAIN s = 1..n
  BY DEF Enumerates
<1>2. Elements(s) = S
  BY <1>1 DEF Enumerates, Elements
<1> QED
  BY <1>1, <1>2

LEMMA SliceIs ==
  ASSUME NEW s, NEW n, NEW S, NEW a, NEW b,
         n \in Nat, s \in [1..n -> S], a \in Nat, b \in Nat, a + b <= n
  PROVE  SubSeq(s, a + 1, a + b) = [i \in 1..b |-> s[a + i]]
<1>1. s \in Seq(S) /\ Len(s) = n
  OBVIOUS
<1>2. a + b + 1 - (a + 1) = b /\ \A i \in 1..b : a + 1 + i - 1 = a + i
  OBVIOUS
<1> QED
  BY <1>1, <1>2

LEMMA ImageOfAll ==
  ASSUME NEW s, NEW n, NEW S, Enumerates(s, n, S)
  PROVE  Image(s, 1..n) = S
  BY DEF Image, Enumerates

LEMMA ByValuationRanks ==
  ASSUME NEW s, NEW n, NEW S, Enumerates(s, n, S), \A p \in S : p.valuation \in Nat
  PROVE  Ranking(ByValuation(s), n, S)
<1> DEFINE key == Valuations(s)
           r == ByValuation(s)
<1>1. n \in Nat /\ s \in Seq(S) /\ Len(s) = n /\ \A k \in 1..n : s[k] \in S
  BY ListIsSeq DEF Enumerates
<1>2. /\ key \in [1..Len(s) -> Int]
      /\ \A i \in 1..n : key[i] = s[i].valuation
  BY <1>1 DEF Valuations
<1>3. r = Descending(s, key)
  BY DEF ByValuation
<1> HIDE DEF key, r
<1>4. PICK o : /\ Lists(r, s, o, n, 1..n)
               /\ \A k, l \in 1..n : k < l => Before(o[k], o[l], key)
  BY <1>1, <1>2, <1>3, DescendingIs
<1>5. Enumerates(o, n, 1..n) /\ r = Along(s, o, n)
  BY <1>4 DEF Lists
<1>6. Enumerates(r, n, S)
  <2>1. Enumerates(Along(s, o, n), n, Image(s, 1..n))
    BY <1>5, EnumerationComposed
  <2> QED
    BY <1>5, <2>1, ImageOfAll
<1>7. \A k \in 1..n : o[k] \in 1..n /\ r[k] = s[o[k]]
  BY <1>5 DEF Along, Enumerates
<1>8. ASSUME NEW i \in 1..n, NEW j \in 1..n, i <= j PROVE r[i].valuation >= r[j].valuation
  <2>1. /\ r[i].valuation = key[o[i]] /\ r[j].valuation = key[o[j]]
        /\ key[o[i]] \in Int /\ key[o[j]] \in Int
    BY <1>1, <1>2, <1>7
  <2>2. CASE i = j
    BY <2>1, <2>2
  <2>3. CASE i < j
    BY <1>4, <2>1, <2>3 DEF Before
  <2> QED
    BY <1>1, <1>8, <2>2, <2>3
<1>9. Ranking(r, n, S)
  BY <1>6, <1>8 DEF Ranking
<1> QED
  BY <1>9 DEF r

LEMMA SelectedEnumerates ==
  ASSUME NEW s, NEW n, NEW S, NEW C, Enumerates(s, n, S)
  PROVE  \E m, o : /\ Enumerates(Selected(s, C), m, S \cap C)
                   /\ Selected(s, C) = Along(s, o, m)
                   /\ o \in [1..m -> 1..n]
                   /\ Increasing(o, m)
<1> DEFINE J == {i \in 1..Len(s) : s[i] \in C}
<1>1. n \in Nat /\ s \in Seq(S) /\ Len(s) = n /\ \A k \in 1..n : s[k] \in S
  BY ListIsSeq DEF Enumerates
<1>2. PICK m, o : Lists(Selected(s, C), s, o, m, J) /\ Increasing(o, m)
  BY <1>1, SelectedIs
<1>3. Enumerates(o, m, J) /\ Selected(s, C) = Along(s, o, m)
  BY <1>2 DEF Lists
<1>4. J \subseteq 1..n
  BY <1>1
<1>5. Image(s, J) = S \cap C
  BY <1>1 DEF Image, Enumerates
<1> HIDE DEF J
<1>6. Enumerates(Along(s, o, m), m, Image(s, J))
  BY <1>3, <1>4, EnumerationComposed
<1>7. o \in [1..m -> 1..n]
  BY <1>3, <1>4 DEF Enumerates
<1> QED
  BY <1>2, <1>3, <1>5, <1>6, <1>7

LEMMA SelectedRanks ==
  ASSUME NEW s, NEW n, NEW S, NEW C, Ranking(s, n, S)
  PROVE  \E m : Ranking(Selected(s, C), m, S \cap C)
<1>1. PICK m, o : /\ Enumerates(Selected(s, C), m, S \cap C)
                  /\ Selected(s, C) = Along(s, o, m)
                  /\ o \in [1..m -> 1..n]
                  /\ Increasing(o, m)
  BY SelectedEnumerates DEF Ranking
<1>2. n \in Nat /\ m \in Nat
  BY <1>1 DEF Enumerates, Ranking
<1> DEFINE r == Selected(s, C)
<1> HIDE DEF r
<1>3. ASSUME NEW i \in 1..m, NEW j \in 1..m, i <= j PROVE r[i].valuation >= r[j].valuation
  <2>1. r[i] = s[o[i]] /\ r[j] = s[o[j]] /\ o[i] \in 1..n /\ o[j] \in 1..n
    BY <1>1 DEF Along, r
  <2>2. o[i] <= o[j]
    BY <1>1, <1>2, <1>3, <2>1 DEF Increasing
  <2> QED
    BY <2>1, <2>2 DEF Ranking
<1>4. Ranking(r, m, S \cap C)
  BY <1>1, <1>3 DEF Ranking, r
<1> QED
  BY <1>4 DEF r

(***************************************************************************)
(* How many permits of the day are in a set.                               *)
(***************************************************************************)
LEMMA HowManyIs ==
  ASSUME portal \in Days, NEW S, S \in SUBSET AllPermits
  PROVE  IsFiniteSet(S) /\ HowMany(S) = Cardinality(S) /\ HowMany(S) \in Nat
<1> DEFINE U == AllPermits
<1>1. Enumerates(portal, Len(portal), U)
  BY DayIs
<1>2. S \in SUBSET U
  OBVIOUS
<1> HIDE DEF U
<1>3. IsFiniteSet(S) /\ Cardinality(Listing(portal, Len(portal), S)) = Cardinality(S)
  BY <1>1, <1>2, CountOfListed
<1>4. HowMany(S) = Cardinality(Listing(portal, Len(portal), S))
  BY DEF HowMany, Listing
<1>5. Cardinality(S) \in Nat
  BY <1>3, FS_CardinalityType
<1> QED
  BY <1>3, <1>4, <1>5

(***************************************************************************)
(* The beginning of a ranking holds the most valuable.                     *)
(***************************************************************************)
LEMMA TopIs ==
  ASSUME portal \in Days, NEW s, NEW n, NEW S, NEW cap,
         Ranking(s, n, S), S \in SUBSET AllPermits, cap \in Nat
  PROVE  /\ MostValuable(Top(s, cap), cap, S)
         /\ Len(Top(s, cap)) = Smaller(cap, HowMany(S))
         /\ HowMany(S) = n
<1> DEFINE k == Smaller(cap, n)
           t == Top(s, cap)
<1>1. /\ n \in Nat /\ s \in Seq(S) /\ Len(s) = n
      /\ \A i \in 1..n : s[i] \in S
      /\ \A i, j \in 1..n : s[i] = s[j] => i = j
      /\ \A p \in S : \E i \in 1..n : s[i] = p
  BY ListIsSeq DEF Ranking, Enumerates
<1>2. HowMany(S) = n
  <2>1. Enumerates(s, n, S)
    BY DEF Ranking
  <2>2. Cardinality(S) = n
    BY <2>1, EnumerationCounts
  <2> QED
    BY <2>2, HowManyIs
<1>3. k \in Nat /\ k <= n
  BY <1>1 DEF Smaller
<1>4. t = SubSeq(s, 1, k)
  BY <1>1 DEF Top
<1> HIDE DEF t, k
<1>5. t \in [1..k -> S] /\ Len(t) = k /\ DOMAIN t = 1..k /\ \A i \in 1..k : t[i] = s[i] /\ i \in 1..n
  <2>1. s \in [1..n -> S]
    BY DEF Ranking, Enumerates
  <2>2. SubSeq(s, 0 + 1, 0 + k) = [i \in 1..k |-> s[0 + i]]
    BY <1>1, <1>3, <2>1, SliceIs
  <2>3. 0 + 1 = 1 /\ 0 + k = k /\ \A i \in 1..k : 0 + i = i /\ i \in 1..n
    BY <1>1, <1>3
  <2>4. t = [i \in 1..k |-> s[i]]
    BY <1>4, <2>2, <2>3
  <2> QED
    BY <1>1, <1>3, <2>3, <2>4
<1>6. Enumerates(t, k, Elements(t))
  BY <1>1, <1>3, <1>5 DEF Enumerates, Elements
<1>7. Cardinality(Elements(t)) = k
  BY <1>6, EnumerationCounts
<1>8. Elements(t) \subseteq S
  BY <1>5 DEF Elements
<1>9. ASSUME NEW p \in S \ Elements(t), NEW i \in 1..k PROVE t[i].valuation >= p.valuation
  <2>1. PICK j \in 1..n : s[j] = p
    BY <1>1
  <2>2. ~(j \in 1..k)
    BY <1>5, <1>9, <2>1 DEF Elements
  <2>3. i <= j
    BY <1>3, <2>2
  <2> QED
    BY <1>5, <2>1, <2>3 DEF Ranking
<1>10. Len(t) = Smaller(cap, HowMany(S))
  BY <1>2, <1>5 DEF k
<1>11. MostValuable(t, cap, S)
  BY <1>5, <1>7, <1>8, <1>9, <1>10 DEF MostValuable
<1> QED
  BY <1>2, <1>10, <1>11 DEF t

------------------------------------------------------------------------------
(***************************************************************************)
(* What a set of permits is worth, summed up along any list.               *)
(***************************************************************************)
Amounts(s, n, K) == [i \in 1..n |-> IF s[i] \in K THEN s[i].valuation ELSE 0]

LEMMA WorthOfListed ==
  ASSUME portal \in Days, NEW s, NEW n, NEW P, NEW K,
         Enumerates(s, n, P), P \in SUBSET AllPermits, K \in SUBSET P
  PROVE  Total(Amounts(s, n, K)) = Worth(K)
<1> DEFINE N == Len(portal)
           w == Amounts(portal, N, K)
           J == {j \in 1..N : portal[j] \in P}
           o == [k \in 1..n |-> CHOOSE j \in 1..N : portal[j] = s[k]]
<1>1. /\ N \in Nat /\ n \in Nat
      /\ \A p \in AllPermits : p.valuation \in Nat /\ \E j \in 1..N : portal[j] = p
      /\ \A i, j \in 1..N : portal[i] = portal[j] => i = j
      /\ \A i \in 1..N : portal[i] \in AllPermits
  BY DayIs DEF Enumerates
<1>2. \A k \in 1..n : s[k] \in P /\ s[k] \in AllPermits
  BY DEF Enumerates
<1> HIDE DEF N
<1>3. \A k \in 1..n : o[k] \in 1..N /\ portal[o[k]] = s[k]
  BY <1>1, <1>2
<1>4. o \in [1..n -> J]
  <2>1. \A k \in 1..n : o[k] \in J
    BY <1>2, <1>3
  <2> QED
    BY <2>1
<1> HIDE DEF o
<1>5. Enumerates(o, n, J)
  <2>1. ASSUME NEW a \in 1..n, NEW b \in 1..n, o[a] = o[b] PROVE a = b
    <3>1. s[a] = s[b]
      BY <1>3, <2>1
    <3> QED
      BY <3>1 DEF Enumerates
  <2>2. ASSUME NEW j \in J PROVE \E k \in 1..n : o[k] = j
    <3>1. PICK k \in 1..n : s[k] = portal[j]
      BY DEF Enumerates
    <3>2. o[k] = j
      BY <1>1, <1>3, <3>1
    <3> QED
      BY <3>2
  <2> QED
    BY <1>1, <1>4, <2>1, <2>2 DEF Enumerates
<1>6. w \in [1..N -> Int] /\ \A i \in 1..N : w[i] = IF portal[i] \in K THEN portal[i].valuation ELSE 0
  BY <1>1 DEF Amounts
<1>7. J \in SUBSET (1..N)
  OBVIOUS
<1>8. Along(w, o, n) = Amounts(s, n, K)
  <2>1. \A k \in 1..n : w[o[k]] = IF s[k] \in K THEN s[k].valuation ELSE 0
    BY <1>3, <1>6
  <2> QED
    BY <2>1 DEF Along, Amounts
<1>9. Masked(w, N, J) = w
  <2>1. \A i \in 1..N : i \notin J => w[i] = 0
    BY <1>6
  <2> HIDE DEF w, J
  <2>2. w = [i \in 1..N |-> w[i]]
    BY <1>6
  <2> QED
    BY <2>1, <2>2 DEF Masked
<1>10. Worth(K) = Total(w)
  BY DEF Worth, Amounts, N
<1> HIDE DEF w, J
<1>11. Total(Along(w, o, n)) = Total(Masked(w, N, J))
  BY <1>1, <1>5, <1>6, <1>7, TotalOfListed
<1> QED
  BY <1>8, <1>9, <1>10, <1>11

LEMMA WorthIsNumber ==
  ASSUME portal \in Days, NEW K
  PROVE  Worth(K) \in Int
<1> DEFINE N == Len(portal)
           w == Amounts(portal, N, K)
<1>1. N \in Nat /\ \A i \in 1..N : portal[i].valuation \in Int
  BY DayIs DEF Enumerates
<1> HIDE DEF N
<1>2. w \in [1..N -> Int]
  BY <1>1 DEF Amounts
<1>3. Worth(K) = Total(w)
  BY DEF Worth, Amounts, N
<1> HIDE DEF w
<1>4. PICK u : (\A i \in 0..N : u[i] \in Int) /\ Total(w) = u[N]
  BY <1>1, <1>2, TotalUnrolled
<1>5. N \in 0..N
  BY <1>1
<1> QED
  BY <1>3, <1>4, <1>5

(***************************************************************************)
(* A line counts the permits that have its key.                            *)
(***************************************************************************)
Tells(line, P, field, key) ==
  /\ line.key = key
  /\ line.count = HowMany(Having(P, field, key))
  /\ line.val = Worth(Having(P, field, key))
  /\ line.val \in Int
  /\ {"key", "permits", "count", "val"} \subseteq DOMAIN line

LEMMA LineIs ==
  ASSUME portal \in Days, NEW s, NEW n, NEW P, NEW field, NEW key,
         Enumerates(s, n, P), P \in SUBSET AllPermits
  PROVE  /\ Tells(LineOf(s, field, key), P, field, key)
         /\ LineOf(s, field, key).permits = Selected(s, Having(P, field, key))
         /\ ValueOf(s, field, key) = Worth(Having(P, field, key))
<1> DEFINE H == Having(P, field, key)
           line == LineOf(s, field, key)
<1>1. n \in Nat /\ Len(s) = n /\ Elements(s) = P /\ \A i \in 1..n : s[i] \in P
  <2>1. n \in Nat /\ Len(s) = n /\ Elements(s) = P
    BY ListIsSeq
  <2> QED
    BY <2>1 DEF Enumerates
<1>2. H \in SUBSET P /\ H \in SUBSET AllPermits /\ \A i \in 1..n : s[i] \in H <=> s[i][field] = key
  BY <1>1 DEF Having
<1>3. /\ line.key = key /\ line.val = ValueOf(s, field, key)
      /\ line.permits = Selected(s, {p \in Elements(s) : p[field] = key})
      /\ line.count = Cardinality({i \in 1..Len(s) : s[i][field] = key})
      /\ {"key", "permits", "count", "val"} \subseteq DOMAIN line
  BY DEF LineOf
<1>4. {p \in Elements(s) : p[field] = key} = H
  BY <1>1 DEF Having
<1>5. {i \in 1..Len(s) : s[i][field] = key} = Listing(s, n, H)
  BY <1>1, <1>2 DEF Listing
<1>6. ValueOf(s, field, key) = Total(Amounts(s, n, H))
  <2>1. [i \in 1..Len(s) |-> IF s[i][field] = key THEN s[i].valuation ELSE 0] = Amounts(s, n, H)
    BY <1>1, <1>2 DEF Amounts
  <2> QED
    BY <2>1 DEF ValueOf
<1> HIDE DEF H, line
<1>7. Cardinality(Listing(s, n, H)) = Cardinality(H)
  BY <1>2, CountOfListed
<1>8. HowMany(H) = Cardinality(H)
  BY <1>2, HowManyIs
<1>9. Total(Amounts(s, n, H)) = Worth(H) /\ Worth(H) \in Int
  BY <1>2, WorthOfListed, WorthIsNumber
<1> QED
  BY <1>3, <1>4, <1>5, <1>6, <1>7, <1>8, <1>9 DEF Tells, H, line

(***************************************************************************)
(* A table has a line per key, the largest first.                          *)
(***************************************************************************)
Keys(P, field) == {p[field] : p \in P}

KeysOf(lines, m) == [k \in 1..m |-> lines[k].key]

Tabulates(lines, m, P, field) ==
  /\ m \in Nat /\ Len(lines) = m /\ lines = [k \in 1..m |-> lines[k]]
  /\ \A k \in 1..m : Tells(lines[k], P, field, lines[k].key)
  /\ Enumerates(KeysOf(lines, m), m, Keys(P, field))
  /\ \A k, l \in 1..m : k <= l => lines[k].val >= lines[l].val

\* Where the keys are first seen.
LEMMA FirstsAre ==
  ASSUME NEW s, NEW n, NEW P, NEW field, Enumerates(s, n, P)
  PROVE  /\ FirstOf(s, field) \in SUBSET (1..n)
         /\ \A i, j \in FirstOf(s, field) : s[i][field] = s[j][field] => i = j
         /\ \A v \in Keys(P, field) : \E i \in FirstOf(s, field) : s[i][field] = v
         /\ \A i \in FirstOf(s, field) : s[i][field] \in Keys(P, field)
<1> DEFINE firsts == FirstOf(s, field)
<1>1. n \in Nat /\ Len(s) = n
  BY ListIsSeq
<1>2. firsts = {i \in 1..n : \A j \in 1..i - 1 : s[j][field] # s[i][field]}
  BY <1>1 DEF FirstOf
<1> HIDE DEF firsts
<1>3. ASSUME NEW i \in firsts, NEW j \in firsts, s[i][field] = s[j][field] PROVE i = j
  <2>1. i \in Nat /\ j \in Nat /\ i \in 1..n /\ j \in 1..n
    BY <1>2
  <2>2. ~(i \in 1..j - 1) /\ ~(j \in 1..i - 1)
    BY <1>2, <1>3
  <2> QED
    BY <2>1, <2>2
<1>4. ASSUME NEW v \in Keys(P, field) PROVE \E i \in firsts : s[i][field] = v
  <2> DEFINE T == {i \in 1..n : s[i][field] = v}
  <2>1. T \in SUBSET Nat /\ T # {}
    <3>1. PICK p \in P : p[field] = v
      BY DEF Keys
    <3>2. PICK i \in 1..n : s[i] = p
      BY DEF Enumerates
    <3> QED
      BY <3>1, <3>2
  <2>2. PICK i \in T : \A j \in T : i <= j
    <3> HIDE DEF T
    <3> QED
      BY <2>1, Least
  <2>3. ASSUME NEW j \in 1..i - 1 PROVE s[j][field] # s[i][field]
    <3>1. j \in 1..n /\ ~(i <= j)
      BY <1>1
    <3> QED
      BY <2>2, <3>1
  <2> QED
    BY <1>2, <2>3
<1>5. \A i \in firsts : s[i][field] \in Keys(P, field)
  <2> SUFFICES ASSUME NEW i \in firsts PROVE s[i][field] \in Keys(P, field)
    OBVIOUS
  <2>1. s[i] \in P
    BY <1>2 DEF Enumerates
  <2> QED
    BY <2>1 DEF Keys
<1> QED
  BY <1>2, <1>3, <1>4, <1>5 DEF firsts

LEMMA TableIs ==
  ASSUME portal \in Days, NEW s, NEW n, NEW P, NEW field,
         Enumerates(s, n, P), P \in SUBSET AllPermits
  PROVE  \E m : /\ Tabulates(TableBy(s, field), m, P, field)
                /\ m <= n
                /\ \A k \in 1..m : TableBy(s, field)[k].permits =
                                     Selected(s, Having(P, field, TableBy(s, field)[k].key))
<1> DEFINE D == FirstOf(s, field)
           KeyAt(i) == s[i][field]
           L == [i \in D |-> LineOf(s, field, KeyAt(i))]
           key == [i \in D |-> ValueOf(s, field, KeyAt(i))]
           m == Cardinality(D)
           o == InOrder(D, key)
           lines == TableBy(s, field)
<1>1. n \in Nat
  BY ListIsSeq
<1>2. D \in SUBSET (1..n) /\ IsFiniteSet(D) /\ m \in Nat /\ m <= n
  <2>1. D \in SUBSET (1..n)
    BY FirstsAre
  <2> HIDE DEF D
  <2>2. IsFiniteSet(1..n) /\ Cardinality(1..n) = n
    BY <1>1, FS_Interval
  <2> QED
    BY <2>1, <2>2, FS_Subset, FS_CardinalityType
<1>3. \A i \in D : Tells(L[i], P, field, KeyAt(i)) /\ L[i].permits = Selected(s, Having(P, field, KeyAt(i)))
  <2> SUFFICES ASSUME NEW i \in D
               PROVE  /\ Tells(L[i], P, field, KeyAt(i))
                      /\ L[i].permits = Selected(s, Having(P, field, KeyAt(i)))
    OBVIOUS
  <2>1. L[i] = LineOf(s, field, KeyAt(i))
    OBVIOUS
  <2> DEFINE v == KeyAt(i)
  <2> HIDE DEF v
  <2>2. Tells(LineOf(s, field, v), P, field, v) /\ LineOf(s, field, v).permits = Selected(s, Having(P, field, v))
    BY LineIs
  <2> QED
    BY <2>1, <2>2 DEF v
<1>4. \A i \in D : key[i] = L[i].val /\ key[i] \in Int
  <2> SUFFICES ASSUME NEW i \in D PROVE key[i] = L[i].val /\ key[i] \in Int
    OBVIOUS
  <2>1. key[i] = ValueOf(s, field, KeyAt(i))
    OBVIOUS
  <2> DEFINE v == KeyAt(i)
  <2> HIDE DEF v
  <2>2. ValueOf(s, field, v) = Worth(Having(P, field, v))
    BY LineIs
  <2> HIDE DEF L, key
  <2> QED
    BY <1>3, <2>1, <2>2 DEF v, Tells
<1>5. key \in [D -> Int]
  BY <1>4
<1>6. lines = Pick(L, o)
  BY DEF TableBy
<1>7. /\ \A i, j \in D : KeyAt(i) = KeyAt(j) => i = j
      /\ \A v \in Keys(P, field) : \E i \in D : KeyAt(i) = v
      /\ \A i \in D : KeyAt(i) \in Keys(P, field)
  BY FirstsAre
<1> HIDE DEF key, D, L, KeyAt
<1>8. Enumerates(o, m, D) /\ \A k, l \in 1..m : k < l => Before(o[k], o[l], key)
  <2>1. D \in SUBSET Int
    BY <1>2
  <2> QED
    BY <1>2, <1>5, <2>1, InOrderIs
<1> HIDE DEF o, m, lines
<1>9. o \in [1..m -> D]
  BY <1>8 DEF Enumerates
<1>10. lines = Along(L, o, m)
  BY <1>2, <1>6, <1>9, PickIs
<1>11. /\ Len(lines) = m /\ lines = [k \in 1..m |-> lines[k]]
       /\ \A k \in 1..m : lines[k] = L[o[k]] /\ o[k] \in D
  BY <1>2, <1>9, <1>10 DEF Along
<1>12. ASSUME NEW k \in 1..m
       PROVE  /\ lines[k].key = KeyAt(o[k])
              /\ Tells(lines[k], P, field, lines[k].key)
              /\ lines[k].permits = Selected(s, Having(P, field, lines[k].key))
              /\ lines[k].val = key[o[k]] /\ key[o[k]] \in Int
  <2>1. lines[k] = L[o[k]] /\ o[k] \in D
    BY <1>11
  <2>2. lines[k].key = KeyAt(o[k])
    BY <1>3, <2>1 DEF Tells
  <2> QED
    BY <1>3, <1>4, <2>1, <2>2
<1>13. Enumerates(KeysOf(lines, m), m, Keys(P, field))
  <2> DEFINE q == KeysOf(lines, m)
  <2>1. \A k \in 1..m : q[k] = KeyAt(o[k]) /\ o[k] \in D
    BY <1>11, <1>12 DEF KeysOf
  <2>2. q \in [1..m -> Keys(P, field)]
    BY <1>7, <2>1 DEF KeysOf
  <2> HIDE DEF q
  <2>3. ASSUME NEW a \in 1..m, NEW b \in 1..m, q[a] = q[b] PROVE a = b
    <3>1. o[a] = o[b]
      BY <1>7, <2>1, <2>3
    <3> QED
      BY <1>8, <3>1 DEF Enumerates
  <2>4. ASSUME NEW v \in Keys(P, field) PROVE \E k \in 1..m : q[k] = v
    <3>1. PICK i \in D : KeyAt(i) = v
      BY <1>7
    <3>2. PICK k \in 1..m : o[k] = i
      BY <1>8 DEF Enumerates
    <3> QED
      BY <2>1, <3>1, <3>2
  <2>5. Enumerates(q, m, Keys(P, field))
    BY <1>2, <2>2, <2>3, <2>4 DEF Enumerates
  <2> QED
    BY <2>5 DEF q
<1>14. ASSUME NEW k \in 1..m, NEW l \in 1..m, k <= l PROVE lines[k].val >= lines[l].val
  <2>1. CASE k = l
    BY <1>12, <2>1
  <2>2. CASE k < l
    BY <1>8, <1>12, <2>2 DEF Before
  <2> QED
    BY <1>2, <1>14, <2>1, <2>2
<1>15. Tabulates(lines, m, P, field)
  BY <1>2, <1>11, <1>12, <1>13, <1>14 DEF Tabulates
<1> QED
  BY <1>2, <1>12, <1>15 DEF lines

(***************************************************************************)
(* The lines of a table agree with the day, and so does its beginning.     *)
(***************************************************************************)
LEMMA TopLinesAgree ==
  ASSUME NEW lines, NEW m, NEW P, NEW field, NEW cap,
         Tabulates(lines, m, P, field), cap \in Nat
  PROVE  /\ LinesAgree(Top(lines, cap), cap, field, P)
         /\ Len(Top(lines, cap)) = Smaller(cap, m)
         /\ m = Cardinality(Keys(P, field))
<1> DEFINE k == Smaller(cap, m)
           t == Top(lines, cap)
           R == {lines[i] : i \in 1..m}
<1>1. /\ m \in Nat /\ Len(lines) = m /\ lines \in [1..m -> R]
      /\ \A i \in 1..m : Tells(lines[i], P, field, lines[i].key)
      /\ \A i, j \in 1..m : i <= j => lines[i].val >= lines[j].val
  BY DEF Tabulates
<1>2. m = Cardinality(Keys(P, field))
  BY EnumerationCounts DEF Tabulates
<1>3. /\ \A i, j \in 1..m : lines[i].key = lines[j].key => i = j
      /\ \A p \in P : \E i \in 1..m : lines[i].key = p[field]
  <2>1. Enumerates(KeysOf(lines, m), m, Keys(P, field))
    BY DEF Tabulates
  <2>2. \A i \in 1..m : KeysOf(lines, m)[i] = lines[i].key
    BY DEF KeysOf
  <2>3. \A p \in P : p[field] \in Keys(P, field)
    BY DEF Keys
  <2> QED
    BY <2>1, <2>2, <2>3 DEF Enumerates
<1>4. k \in Nat /\ k <= m
  BY <1>1 DEF Smaller
<1>5. t = SubSeq(lines, 1, k)
  BY <1>1 DEF Top
<1> HIDE DEF t, k, R
<1>6. Len(t) = k /\ \A i \in 1..k : t[i] = lines[i] /\ i \in 1..m
  <2>1. SubSeq(lines, 0 + 1, 0 + k) = [i \in 1..k |-> lines[0 + i]]
    BY <1>1, <1>4, SliceIs
  <2>2. 0 + 1 = 1 /\ 0 + k = k /\ \A i \in 1..k : 0 + i = i /\ i \in 1..m
    BY <1>1, <1>4
  <2>3. t = [i \in 1..k |-> lines[i]]
    BY <1>5, <2>1, <2>2
  <2> QED
    BY <1>4, <2>2, <2>3
<1>7. ASSUME NEW i \in 1..k
      PROVE  /\ t[i].count = HowMany(Having(P, field, t[i].key))
             /\ t[i].val = Worth(Having(P, field, t[i].key))
  BY <1>1, <1>6 DEF Tells
<1>8. ASSUME NEW i \in 1..k, NEW j \in 1..k, i < j
      PROVE  t[i].key # t[j].key /\ t[i].val >= t[j].val
  <2>1. t[i] = lines[i] /\ t[j] = lines[j] /\ i \in 1..m /\ j \in 1..m /\ i # j /\ i <= j
    BY <1>4, <1>6, <1>8
  <2> QED
    BY <1>1, <1>3, <2>1
<1>9. Len(t) = Smaller(cap, Cardinality({p[field] : p \in P}))
  BY <1>2, <1>6 DEF k, Keys
<1>10. ASSUME NEW p \in P
       PROVE  \/ \E i \in 1..k : t[i].key = p[field]
              \/ \A i \in 1..k : t[i].val >= Worth(Having(P, field, p[field]))
  <2>1. PICK j \in 1..m : lines[j].key = p[field]
    BY <1>3
  <2>2. lines[j].val = Worth(Having(P, field, p[field]))
    BY <1>1, <2>1 DEF Tells
  <2>3. CASE j \in 1..k
    BY <1>6, <2>1, <2>3
  <2>4. CASE j \notin 1..k
    <3>1. \A i \in 1..k : i <= j
      BY <1>4, <2>4
    <3> QED
      BY <1>1, <1>6, <2>2, <3>1
  <2> QED
    BY <2>3, <2>4
<1>11. LinesAgree(t, cap, field, P)
  BY <1>6, <1>7, <1>8, <1>9, <1>10 DEF LinesAgree
<1> QED
  BY <1>2, <1>6, <1>11 DEF t, k

LEMMA TopOfAll ==
  ASSUME NEW s, NEW n, NEW cap, n \in Nat, Len(s) = n, s = [k \in 1..n |-> s[k]],
         cap \in Nat, n <= cap
  PROVE  Top(s, cap) = s
<1> DEFINE R == {s[k] : k \in 1..n}
<1>1. s \in [1..n -> R]
  OBVIOUS
<1>2. Smaller(cap, n) = n
  BY DEF Smaller
<1>3. Top(s, cap) = SubSeq(s, 0 + 1, 0 + n)
  BY <1>2 DEF Top
<1> HIDE DEF R
<1>4. SubSeq(s, 0 + 1, 0 + n) = [k \in 1..n |-> s[0 + k]]
  BY <1>1, SliceIs
<1>5. \A k \in 1..n : 0 + k = k
  OBVIOUS
<1>6. [k \in 1..n |-> s[0 + k]] = [k \in 1..n |-> s[k]]
  BY <1>5
<1> QED
  BY <1>3, <1>4, <1>6

------------------------------------------------------------------------------
(***************************************************************************)
(* The report of the day, and the lists made of it.                        *)
(***************************************************************************)
LEMMA ReportIs ==
  ASSUME portal \in Days
  PROVE  /\ Ranking(TheReport.permits, Len(portal), AllPermits)
         /\ TheReport.total_permits = Len(portal)
         /\ TheReport.total_valuation = Worth(AllPermits)
         /\ TheReport.active_municipalities = Cardinality({p.municipality : p \in AllPermits})
<1> DEFINE N == Len(portal)
<1>1. /\ TheReport.permits = ByValuation(portal)
      /\ TheReport.total_permits = N
      /\ TheReport.total_valuation = Total(Valuations(portal))
      /\ TheReport.active_municipalities = Cardinality({portal[i].municipality : i \in DOMAIN portal})
  BY DEF TheReport, fetch_all_permits
<1>2. /\ Enumerates(portal, N, AllPermits) /\ N \in Nat /\ DOMAIN portal = 1..N
      /\ \A p \in AllPermits : p.valuation \in Nat
  BY DayIs, ListIsSeq
<1>3. Ranking(ByValuation(portal), N, AllPermits)
  BY <1>2, ByValuationRanks
<1>4. Worth(AllPermits) = Total(Valuations(portal))
  <2>1. \A i \in 1..N : portal[i] \in AllPermits
    BY <1>2 DEF Enumerates
  <2>2. [i \in 1..N |-> IF portal[i] \in AllPermits THEN portal[i].valuation ELSE 0] = Valuations(portal)
    BY <2>1 DEF Valuations
  <2> QED
    BY <2>2 DEF Worth
<1>5. {portal[i].municipality : i \in DOMAIN portal} = {p.municipality : p \in AllPermits}
  BY DEF AllPermits, Elements
<1> QED
  BY <1>1, <1>3, <1>4, <1>5

LEMMA SelectedOfDay ==
  ASSUME portal \in Days, NEW s, NEW n, NEW S, NEW C, NEW T,
         Ranking(s, n, S), S \in SUBSET AllPermits, T = S \cap C
  PROVE  Ranking(Selected(s, C), HowMany(T), T)
<1>1. PICK m : Ranking(Selected(s, C), m, T)
  BY SelectedRanks
<1>2. T \in SUBSET AllPermits
  OBVIOUS
<1>3. Cardinality(T) = m
  BY <1>1, EnumerationCounts DEF Ranking
<1>4. HowMany(T) = m
  BY <1>2, <1>3, HowManyIs
<1> QED
  BY <1>1, <1>4

LEMMA ListsAre ==
  ASSUME portal \in Days
  PROVE  LET permits == TheReport.permits
         IN  /\ Ranking(OfPriority(permits, "CRITICAL"), HowMany(CriticalOnes), CriticalOnes)
             /\ Ranking(OfPriority(permits, "HIGH"), HowMany(HighOnes), HighOnes)
             /\ Ranking(Strategic(permits), HowMany(StrategicOnes), StrategicOnes)
<1> DEFINE s == TheReport.permits
           U == AllPermits
<1>1. Ranking(s, Len(portal), U) /\ U \in SUBSET AllPermits
  BY ReportIs
<1>2. Elements(s) = U
  BY <1>1, ListIsSeq DEF Ranking
<1>3. \A p \in U : p.valuation \in Nat
  BY DayIs
<1>4. /\ CriticalOnes = U \cap {p \in Elements(s) : classify_priority(p) = "CRITICAL"}
      /\ HighOnes = U \cap {p \in Elements(s) : classify_priority(p) = "HIGH"}
      /\ StrategicOnes = U \cap {p \in Elements(s) : is_strategic(p)}
  <2>1. ASSUME NEW p \in U
        PROVE  /\ classify_priority(p) = "CRITICAL" <=> p.valuation >= 1000000
               /\ classify_priority(p) = "HIGH" <=> 500000 <= p.valuation /\ p.valuation < 1000000
    BY <1>3 DEF classify_priority, CRITICAL_THRESHOLD, HIGH_THRESHOLD, MEDIUM_THRESHOLD
  <2> HIDE DEF s
  <2> QED
    BY <1>2, <2>1 DEF CriticalOnes, HighOnes, StrategicOnes
<1> DEFINE A == {p \in Elements(s) : classify_priority(p) = "CRITICAL"}
           B == {p \in Elements(s) : classify_priority(p) = "HIGH"}
           C == {p \in Elements(s) : is_strategic(p)}
<1>5. /\ OfPriority(s, "CRITICAL") = Selected(s, A)
      /\ OfPriority(s, "HIGH") = Selected(s, B)
      /\ Strategic(s) = Selected(s, C)
  BY DEF OfPriority, Strategic
<1> HIDE DEF A, B, C, s, U
<1>6. CriticalOnes = U \cap A /\ HighOnes = U \cap B /\ StrategicOnes = U \cap C
  BY <1>4 DEF A, B, C
<1>7. Ranking(Selected(s, A), HowMany(CriticalOnes), CriticalOnes)
  BY <1>1, <1>6, SelectedOfDay
<1>8. Ranking(Selected(s, B), HowMany(HighOnes), HighOnes)
  BY <1>1, <1>6, SelectedOfDay
<1>9. Ranking(Selected(s, C), HowMany(StrategicOnes), StrategicOnes)
  BY <1>1, <1>6, SelectedOfDay
<1> QED
  BY <1>5, <1>7, <1>8, <1>9 DEF s

LEMMA CriticalRanks ==
  ASSUME portal \in Days
  PROVE  /\ Ranking(Critical, HowMany(CriticalOnes), CriticalOnes)
         /\ Len(Critical) = HowMany(CriticalOnes)
         /\ HowMany(CriticalOnes) \in Nat
<1>1. Ranking(Critical, HowMany(CriticalOnes), CriticalOnes)
  BY ListsAre DEF Critical
<1> QED
  BY <1>1, ListIsSeq DEF Ranking

\* What the scripts hold for the lists of the day.
TheProcessed == process_permits(TheReport.permits)

LEMMA TheProcessedIs ==
  ASSUME portal \in Days
  PROVE  /\ TheProcessed.all = TheReport.permits
         /\ TheProcessed.critical = Critical
         /\ Ranking(TheProcessed.critical, HowMany(CriticalOnes), CriticalOnes)
         /\ Ranking(TheProcessed.high, HowMany(HighOnes), HighOnes)
         /\ Ranking(TheProcessed.strategic, HowMany(StrategicOnes), StrategicOnes)
         /\ Len(TheProcessed.critical) = HowMany(CriticalOnes)
         /\ Len(TheProcessed.high) = HowMany(HighOnes)
         /\ Len(TheProcessed.strategic) = HowMany(StrategicOnes)
<1>1. /\ TheProcessed.all = TheReport.permits
      /\ TheProcessed.critical = OfPriority(TheReport.permits, "CRITICAL")
      /\ TheProcessed.high = OfPriority(TheReport.permits, "HIGH")
      /\ TheProcessed.strategic = Strategic(TheReport.permits)
  BY DEF TheProcessed, process_permits
<1>2. /\ Ranking(TheProcessed.critical, HowMany(CriticalOnes), CriticalOnes)
      /\ Ranking(TheProcessed.high, HowMany(HighOnes), HighOnes)
      /\ Ranking(TheProcessed.strategic, HowMany(StrategicOnes), StrategicOnes)
  BY <1>1, ListsAre
<1>3. /\ Len(TheProcessed.critical) = HowMany(CriticalOnes)
      /\ Len(TheProcessed.high) = HowMany(HighOnes)
      /\ Len(TheProcessed.strategic) = HowMany(StrategicOnes)
  BY <1>2, ListIsSeq DEF Ranking
<1> QED
  BY <1>1, <1>2, <1>3 DEF Critical

------------------------------------------------------------------------------
(***************************************************************************)
(* The three summaries.                                                    *)
(***************************************************************************)
DailyTold(m) ==
  /\ m.total = Len(portal) /\ m.total_valuation = Worth(AllPermits)
  /\ m.critical = HowMany(CriticalOnes) /\ m.high = HowMany(HighOnes)
  /\ m.strategic = HowMany(StrategicOnes)
  /\ m.active = Cardinality({p.municipality : p \in AllPermits})
  /\ MostValuable(m.top, TopPermits, AllPermits)

BreakdownTold(m) ==
  /\ LinesAgree(m.lines, TopTowns, "municipality", AllPermits)
  /\ m.active = Len(m.lines) + m.more
  /\ m.active = Cardinality({p.municipality : p \in AllPermits})

StrategicTold(m) ==
  /\ m.count = HowMany(StrategicOnes)
  /\ LinesAgree(m.lines, m.count, "permit_type", StrategicOnes)
  /\ \A i \in 1..Len(m.lines) :
       MostValuable(m.lines[i].permits, TopOfType, Having(AllPermits, "permit_type", m.lines[i].key))

LEMMA DailyTellsTheDay ==
  ASSUME portal \in Days
  PROVE  DailyTold(DailySummary(TheProcessed, TheReport))
<1> DEFINE m == DailySummary(TheProcessed, TheReport)
<1>1. /\ m.total = TheReport.total_permits
      /\ m.total_valuation = TheReport.total_valuation
      /\ m.active = TheReport.active_municipalities
      /\ m.critical = Len(TheProcessed.critical)
      /\ m.high = Len(TheProcessed.high)
      /\ m.strategic = Len(TheProcessed.strategic)
      /\ m.top = Top(TheProcessed.all, TopPermits)
  BY DEF DailySummary
<1>2. TopPermits \in Nat
  BY PermitsAssumption
<1>3. MostValuable(Top(TheReport.permits, TopPermits), TopPermits, AllPermits)
  <2> DEFINE s == TheReport.permits
             U == AllPermits
  <2>1. Ranking(s, Len(portal), U) /\ U \in SUBSET AllPermits
    BY ReportIs
  <2> HIDE DEF s, U
  <2>2. MostValuable(Top(s, TopPermits), TopPermits, U)
    BY <1>2, <2>1, TopIs
  <2> QED
    BY <2>2 DEF s, U
<1> HIDE DEF m
<1>4. DailyTold(m)
  BY <1>1, <1>3, ReportIs, TheProcessedIs DEF DailyTold
<1> QED
  BY <1>4 DEF m

LEMMA BreakdownTellsTheDay ==
  ASSUME portal \in Days
  PROVE  BreakdownTold(MunicipalityBreakdown(TheProcessed))
<1> DEFINE m == MunicipalityBreakdown(TheProcessed)
           towns == TableBy(TheReport.permits, "municipality")
           U == AllPermits
           s == TheReport.permits
<1>1. /\ m.active = Len(towns)
      /\ m.lines = Top(towns, TopTowns)
      /\ m.more = Len(towns) - Smaller(TopTowns, Len(towns))
  BY TheProcessedIs DEF MunicipalityBreakdown
<1>2. Enumerates(s, Len(portal), U) /\ U \in SUBSET AllPermits
  BY ReportIs DEF Ranking
<1> HIDE DEF s, U
<1>3. PICK n : Tabulates(TableBy(s, "municipality"), n, U, "municipality")
  BY <1>2, TableIs
<1>4. Tabulates(towns, n, U, "municipality")
  BY <1>3 DEF s
<1> HIDE DEF towns, m
<1>5. n \in Nat /\ Len(towns) = n /\ TopTowns \in Nat
  BY <1>4, PermitsAssumption DEF Tabulates
<1>6. /\ LinesAgree(Top(towns, TopTowns), TopTowns, "municipality", U)
      /\ Len(Top(towns, TopTowns)) = Smaller(TopTowns, n)
      /\ n = Cardinality(Keys(U, "municipality"))
  BY <1>4, <1>5, TopLinesAgree
<1>7. m.active = Len(m.lines) + m.more
  BY <1>1, <1>5, <1>6 DEF Smaller
<1>8. m.active = Cardinality({p.municipality : p \in AllPermits})
  BY <1>1, <1>5, <1>6 DEF Keys, U
<1>9. BreakdownTold(m)
  BY <1>1, <1>6, <1>7, <1>8 DEF BreakdownTold, U
<1> QED
  BY <1>9 DEF m

LEMMA StrategicTellsTheDay ==
  ASSUME portal \in Days
  PROVE  StrategicTold(StrategicSummary(TheProcessed))
<1> DEFINE m == StrategicSummary(TheProcessed)
           types == TableBy(TheProcessed.strategic, "permit_type")
           S == StrategicOnes
           s == TheProcessed.strategic
           n == HowMany(S)
<1>1. /\ m.count = Len(TheProcessed.strategic)
      /\ m.lines = [i \in 1..Len(types) |-> [types[i] EXCEPT !.permits = Top(ByValuation(@), TopOfType)]]
  BY DEF StrategicSummary
<1>2. /\ Ranking(s, n, S) /\ Enumerates(s, n, S) /\ Len(s) = n /\ n \in Nat
      /\ S \in SUBSET AllPermits
  BY TheProcessedIs, ListIsSeq DEF Ranking, StrategicOnes
<1> HIDE DEF s, S, n
<1>3. PICK k : /\ Tabulates(TableBy(s, "permit_type"), k, S, "permit_type")
               /\ k <= n
               /\ \A i \in 1..k : TableBy(s, "permit_type")[i].permits =
                                    Selected(s, Having(S, "permit_type", TableBy(s, "permit_type")[i].key))
  BY <1>2, TableIs, SMTT(30)
<1>4. /\ Tabulates(types, k, S, "permit_type") /\ k <= n
      /\ \A i \in 1..k : types[i].permits = Selected(s, Having(S, "permit_type", types[i].key))
  BY <1>3 DEF s
<1> HIDE DEF types, m
<1>5. k \in Nat /\ Len(types) = k
  BY <1>4 DEF Tabulates
<1>6. \A i \in 1..k :
        /\ m.lines[i] = [types[i] EXCEPT !.permits = Top(ByValuation(@), TopOfType)]
        /\ {"key", "permits", "count", "val"} \subseteq DOMAIN types[i]
        /\ Tells(types[i], S, "permit_type", types[i].key)
  BY <1>1, <1>4, <1>5 DEF Tabulates, Tells
<1>7. ASSUME NEW i \in 1..k
      PROVE  /\ m.lines[i].key = types[i].key
             /\ m.lines[i].count = types[i].count
             /\ m.lines[i].val = types[i].val
             /\ m.lines[i].permits = Top(ByValuation(types[i].permits), TopOfType)
             /\ Tells(m.lines[i], S, "permit_type", m.lines[i].key)
  BY <1>6 DEF Tells
<1>8. Tabulates(m.lines, k, S, "permit_type")
  <2>1. Len(m.lines) = k /\ m.lines = [i \in 1..k |-> m.lines[i]]
    BY <1>1, <1>5
  <2>2. KeysOf(m.lines, k) = KeysOf(types, k)
    BY <1>7 DEF KeysOf
  <2>3. \A i, j \in 1..k : i <= j => m.lines[i].val >= m.lines[j].val
    BY <1>4, <1>7 DEF Tabulates
  <2> QED
    BY <1>4, <1>5, <1>7, <2>1, <2>2, <2>3 DEF Tabulates
<1>9. LinesAgree(m.lines, n, "permit_type", S)
  <2> DEFINE lines == m.lines
  <2>1. Tabulates(lines, k, S, "permit_type")
    BY <1>8
  <2> HIDE DEF lines
  <2>2. k \in Nat /\ Len(lines) = k /\ lines = [i \in 1..k |-> lines[i]]
    BY <2>1 DEF Tabulates
  <2>3. Top(lines, n) = lines
    BY <1>2, <1>4, <2>2, TopOfAll
  <2>4. LinesAgree(Top(lines, n), n, "permit_type", S)
    BY <1>2, <2>1, TopLinesAgree
  <2> QED
    BY <2>3, <2>4 DEF lines
<1>10. ASSUME NEW i \in 1..k
       PROVE  MostValuable(m.lines[i].permits, TopOfType,
                           Having(AllPermits, "permit_type", m.lines[i].key))
  <2> DEFINE key == types[i].key
             C == Having(S, "permit_type", key)
             own == Selected(s, C)
  <2>1. Having(AllPermits, "permit_type", key) = C
    <3>1. KeysOf(types, k)[i] = key /\ KeysOf(types, k)[i] \in Keys(S, "permit_type")
      BY <1>4 DEF Tabulates, Enumerates, KeysOf
    <3>2. PICK p \in S : p.permit_type = key
      BY <3>1 DEF Keys
    <3>3. key \in STRATEGIC_TYPES
      BY <3>2 DEF S, StrategicOnes, is_strategic
    <3> HIDE DEF key
    <3> QED
      BY <3>3 DEF S, StrategicOnes, is_strategic, Having
  <2>2. S \cap C = C /\ C \in SUBSET AllPermits /\ \A p \in C : p.valuation \in Nat
    BY <1>2, DayIs DEF Having
  <2>3. m.lines[i].permits = Top(ByValuation(own), TopOfType) /\ m.lines[i].key = key
    BY <1>4, <1>7
  <2> HIDE DEF key, C
  <2>4. PICK j : Ranking(own, j, S \cap C)
    BY <1>2, SelectedRanks
  <2> HIDE DEF own
  <2>5. Enumerates(own, j, C)
    BY <2>2, <2>4 DEF Ranking
  <2>6. Ranking(ByValuation(own), j, C)
    BY <2>2, <2>5, ByValuationRanks
  <2>7. MostValuable(Top(ByValuation(own), TopOfType), TopOfType, C)
    BY <2>2, <2>6, TopIs, PermitsAssumption
  <2> QED
    BY <2>1, <2>3, <2>7
<1>11. Len(m.lines) = k /\ m.count = n
  BY <1>1, <1>2, <1>5 DEF s
<1>12. StrategicTold(m)
  BY <1>9, <1>10, <1>11 DEF StrategicTold, S, n
<1> QED
  BY <1>12 DEF m

------------------------------------------------------------------------------
(***************************************************************************)
(* The digest.                                                             *)
(***************************************************************************)
LEMMA ConcatSplits ==
  ASSUME NEW s, NEW t, NEW m, NEW n, NEW S,
         m \in Nat, n \in Nat, s \in [1..m -> S], t \in [1..n -> S]
  PROVE  /\ Len(s \o t) = m + n
         /\ SubSeq(s \o t, 1, m) = s
         /\ SubSeq(s \o t, m + 1, m + n) = t
<1> DEFINE r == s \o t
<1>1. s \in Seq(S) /\ t \in Seq(S) /\ Len(s) = m /\ Len(t) = n
  OBVIOUS
<1>2. /\ r \in Seq(S) /\ Len(r) = m + n
      /\ \A i \in 1..m + n : r[i] = IF i <= m THEN s[i] ELSE t[i - m]
  BY <1>1, ConcatProperties
<1> HIDE DEF r
<1>3. r \in [1..m + n -> S] /\ m + n \in Nat
  BY <1>2
<1>4. SubSeq(r, 0 + 1, 0 + m) = [i \in 1..m |-> r[0 + i]]
  BY <1>3, SliceIs
<1>5. SubSeq(r, m + 1, m + n) = [i \in 1..n |-> r[m + i]]
  BY <1>3, SliceIs
<1>6. [i \in 1..m |-> r[0 + i]] = s
  <2>1. \A i \in 1..m : r[0 + i] = s[i]
    BY <1>2
  <2>2. s = [i \in 1..m |-> s[i]]
    OBVIOUS
  <2> QED
    BY <2>1, <2>2
<1>7. [i \in 1..n |-> r[m + i]] = t
  <2>1. \A i \in 1..n : m + i \in 1..m + n /\ ~(m + i <= m) /\ (m + i) - m = i
    OBVIOUS
  <2>2. \A i \in 1..n : r[m + i] = t[i]
    BY <1>2, <2>1
  <2>3. t = [i \in 1..n |-> t[i]]
    OBVIOUS
  <2> QED
    BY <2>2, <2>3
<1> QED
  BY <1>2, <1>4, <1>5, <1>6, <1>7 DEF r

DigestTold(d) ==
  LET c        == Smaller(CriticalRows, HowMany(CriticalOnes))
      critical == SubSeq(d.rows, 1, c)
      high     == SubSeq(d.rows, c + 1, Len(d.rows))
  IN  /\ d.total = Len(portal) /\ d.total_valuation = Worth(AllPermits)
      /\ d.critical = HowMany(CriticalOnes) /\ d.high = HowMany(HighOnes)
      /\ d.strategic = HowMany(StrategicOnes)
      /\ d.active = Cardinality({p.municipality : p \in AllPermits})
      /\ MostValuable(critical, CriticalRows, CriticalOnes)
      /\ MostValuable(high, TableRows - c, {p \in HighOnes : p.permit_type \in ListedTypes})
      /\ LinesAgree(d.towns, Len(portal), "municipality", AllPermits)
      /\ LinesAgree(d.types, Len(portal), "permit_type", AllPermits)
      /\ MostValuable(d.register, Len(portal), AllPermits)
      /\ \A i, j \in 1..Len(d.register) :
           i < j => d.register[i].valuation >= d.register[j].valuation

\* A table of all permits has no more lines than there are permits.
LEMMA WholeTableAgrees ==
  ASSUME portal \in Days, NEW field
  PROVE  LinesAgree(TableBy(TheReport.permits, field), Len(portal), field, AllPermits)
<1> DEFINE s == TheReport.permits
           n == Len(portal)
           U == AllPermits
           lines == TableBy(s, field)
<1>1. Enumerates(s, n, U) /\ U \in SUBSET AllPermits /\ n \in Nat
  BY ReportIs, DayIs DEF Ranking
<1> HIDE DEF s, n, U
<1>2. PICK m : Tabulates(TableBy(s, field), m, U, field) /\ m <= n
  BY <1>1, TableIs
<1>3. Tabulates(lines, m, U, field) /\ m <= n
  BY <1>2
<1> HIDE DEF lines
<1>4. m \in Nat /\ Len(lines) = m /\ lines = [k \in 1..m |-> lines[k]]
  BY <1>3 DEF Tabulates
<1>5. Top(lines, n) = lines
  BY <1>1, <1>3, <1>4, TopOfAll
<1>6. LinesAgree(Top(lines, n), n, field, U)
  BY <1>1, <1>3, TopLinesAgree
<1> QED
  BY <1>5, <1>6 DEF s, n, U, lines

LEMMA RowsAre ==
  ASSUME portal \in Days
  PROVE  LET rows == StrategicRows(TheLists)
             c    == Smaller(CriticalRows, HowMany(CriticalOnes))
         IN  /\ MostValuable(SubSeq(rows, 1, c), CriticalRows, CriticalOnes)
             /\ MostValuable(SubSeq(rows, c + 1, Len(rows)), TableRows - c,
                             {p \in HighOnes : p.permit_type \in ListedTypes})
<1> DEFINE rows == StrategicRows(TheLists)
           c == Smaller(CriticalRows, HowMany(CriticalOnes))
           high == TheProcessed.high
           L == {p \in Elements(high) : p.permit_type \in ListedTypes}
           H == {p \in HighOnes : p.permit_type \in ListedTypes}
           critical == Top(Critical, CriticalRows)
           listed == Selected(high, L)
           rest == Top(listed, TableRows - c)
<1>1. TheLists.critical_permits = Critical /\ TheLists.high_permits = high
  BY TheProcessedIs DEF TheLists, ListsOf, ProcessedOutput, TheProcessed
<1>2. /\ CriticalRows \in Nat /\ TableRows \in Nat /\ CriticalRows <= TableRows
      /\ HowMany(CriticalOnes) \in Nat
  BY PermitsAssumption, CriticalRanks
<1>3. c \in Nat /\ TableRows - c \in Nat
  BY <1>2 DEF Smaller
<1>4. /\ MostValuable(critical, CriticalRows, CriticalOnes)
      /\ Len(critical) = c
  <2> DEFINE S == CriticalOnes
  <2>1. Ranking(Critical, HowMany(S), S) /\ S \in SUBSET AllPermits
    BY CriticalRanks DEF CriticalOnes
  <2> HIDE DEF S
  <2>2. /\ MostValuable(Top(Critical, CriticalRows), CriticalRows, S)
        /\ Len(Top(Critical, CriticalRows)) = Smaller(CriticalRows, HowMany(S))
    BY <1>2, <2>1, TopIs
  <2> QED
    BY <2>2 DEF S
<1>5. Ranking(listed, HowMany(H), H) /\ H \in SUBSET AllPermits
  <2> DEFINE S == HighOnes
  <2>1. Ranking(high, HowMany(S), S) /\ S \in SUBSET AllPermits
    BY TheProcessedIs DEF HighOnes
  <2>2. Elements(high) = S
    BY <2>1, ListIsSeq DEF Ranking
  <2>3. H = S \cap L /\ H \in SUBSET AllPermits
    BY <2>1, <2>2
  <2> HIDE DEF S, high, L, H
  <2> QED
    BY <2>1, <2>3, SelectedOfDay
<1>6. ListedHigh(TheLists) = listed
  BY <1>1 DEF ListedHigh
<1>7. rows = critical \o rest
  BY <1>1, <1>4, <1>6 DEF StrategicRows
<1> HIDE DEF rows, c, high, L, H, listed
<1>8. MostValuable(rest, TableRows - c, H)
  <2> DEFINE cap == TableRows - c
  <2>1. cap \in Nat
    BY <1>3
  <2> HIDE DEF cap
  <2>2. MostValuable(Top(listed, cap), cap, H)
    BY <1>5, <2>1, TopIs
  <2> QED
    BY <2>2 DEF cap
<1>9. /\ Len(rows) = c + Len(rest)
      /\ SubSeq(rows, 1, c) = critical
      /\ SubSeq(rows, c + 1, c + Len(rest)) = rest
  <2> DEFINE S == AllPermits
  <2>1. ASSUME NEW s, NEW n, NEW T, NEW cap, Ranking(s, n, T), T \in SUBSET S, cap \in Nat
        PROVE  Len(Top(s, cap)) \in Nat /\ Top(s, cap) \in [1..Len(Top(s, cap)) -> S]
    <3>1. n \in Nat /\ s \in Seq(S) /\ Len(s) = n
      BY <2>1, ListIsSeq DEF Ranking
    <3>2. Smaller(cap, n) \in Nat /\ Smaller(cap, n) <= n
      BY <2>1, <3>1 DEF Smaller
    <3>3. Top(s, cap) = SubSeq(s, 1, Smaller(cap, n))
      BY <3>1 DEF Top
    <3>4. Top(s, cap) \in Seq(S)
      BY <3>1, <3>2, <3>3
    <3> QED
      BY <3>4
  <2>2. Len(critical) \in Nat /\ critical \in [1..Len(critical) -> S]
    <3>1. Ranking(Critical, HowMany(CriticalOnes), CriticalOnes) /\ CriticalOnes \in SUBSET S
      BY CriticalRanks DEF CriticalOnes
    <3> QED
      BY <1>2, <2>1, <3>1
  <2>3. Len(rest) \in Nat /\ rest \in [1..Len(rest) -> S]
    <3> DEFINE cap == TableRows - c
    <3>1. cap \in Nat
      BY <1>3
    <3> HIDE DEF cap, S
    <3>2. H \in SUBSET S
      BY <1>5 DEF S
    <3>3. Len(Top(listed, cap)) \in Nat /\ Top(listed, cap) \in [1..Len(Top(listed, cap)) -> S]
      BY <1>5, <2>1, <3>1, <3>2
    <3> QED
      BY <3>3 DEF cap
  <2> HIDE DEF critical, rest, S
  <2>4. /\ Len(critical \o rest) = Len(critical) + Len(rest)
        /\ SubSeq(critical \o rest, 1, Len(critical)) = critical
        /\ SubSeq(critical \o rest, Len(critical) + 1, Len(critical) + Len(rest)) = rest
    BY <2>2, <2>3, ConcatSplits
  <2> QED
    BY <1>4, <1>7, <2>4
<1> HIDE DEF critical, rest
<1> QED
  BY <1>4, <1>8, <1>9 DEF rows, c, H

LEMMA DigestTells ==
  ASSUME portal \in Days
  PROVE  DigestTold(TheDigest)
<1> DEFINE d == TheDigest
           report == TheReport
<1>1. d = generate_markdown(TheLists, TheReport)
  BY DEF TheDigest, TheLists
<1>2. /\ d.total = TheReport.total_permits
      /\ d.total_valuation = TheReport.total_valuation
      /\ d.active = TheReport.active_municipalities
      /\ d.critical = TheLists.summary.critical
      /\ d.high = TheLists.summary.high
      /\ d.strategic = TheLists.summary.strategic
      /\ d.rows = StrategicRows(TheLists)
      /\ d.towns = TableBy(TheReport.permits, "municipality")
      /\ d.types = TableBy(TheReport.permits, "permit_type")
      /\ d.register = TheReport.permits
  BY <1>1 DEF generate_markdown
<1>3. /\ TheLists.summary.critical = Len(TheProcessed.critical)
      /\ TheLists.summary.high = Len(TheProcessed.high)
      /\ TheLists.summary.strategic = Len(TheProcessed.strategic)
  BY DEF TheLists, ListsOf, ProcessedOutput, TheProcessed
<1> HIDE DEF d
<1>4. /\ MostValuable(d.register, Len(portal), AllPermits)
      /\ \A i, j \in 1..Len(d.register) :
           i < j => d.register[i].valuation >= d.register[j].valuation
  <2> DEFINE s == TheReport.permits
             n == Len(portal)
             U == AllPermits
  <2>1. Ranking(s, n, U) /\ U \in SUBSET AllPermits
    BY ReportIs
  <2> HIDE DEF s, n, U
  <2>2. n \in Nat /\ Len(s) = n /\ s = [k \in 1..n |-> s[k]]
    BY <2>1, ListIsSeq DEF Ranking, Enumerates
  <2>3. Top(s, n) = s
    BY <2>2, TopOfAll
  <2>4. MostValuable(Top(s, n), n, U)
    BY <2>1, <2>2, TopIs
  <2>5. \A i, j \in 1..n : i < j => s[i].valuation >= s[j].valuation
    BY <2>1, <2>2 DEF Ranking
  <2> QED
    BY <1>2, <2>2, <2>3, <2>4, <2>5 DEF s, n, U
<1>5. /\ LinesAgree(d.towns, Len(portal), "municipality", AllPermits)
      /\ LinesAgree(d.types, Len(portal), "permit_type", AllPermits)
  BY <1>2, WholeTableAgrees
<1>6. LET c == Smaller(CriticalRows, HowMany(CriticalOnes))
      IN  /\ MostValuable(SubSeq(d.rows, 1, c), CriticalRows, CriticalOnes)
          /\ MostValuable(SubSeq(d.rows, c + 1, Len(d.rows)), TableRows - c,
                          {p \in HighOnes : p.permit_type \in ListedTypes})
  BY <1>2, RowsAre
<1>7. /\ d.total = Len(portal) /\ d.total_valuation = Worth(AllPermits)
      /\ d.active = Cardinality({p.municipality : p \in AllPermits})
  BY <1>2, ReportIs
<1>8. /\ d.critical = HowMany(CriticalOnes) /\ d.high = HowMany(HighOnes)
      /\ d.strategic = HowMany(StrategicOnes)
  BY <1>2, <1>3, TheProcessedIs
<1>9. DigestTold(d)
  BY <1>4, <1>5, <1>6, <1>7, <1>8 DEF DigestTold
<1> QED
  BY <1>9 DEF d

------------------------------------------------------------------------------
(***************************************************************************)
(* The alerts of a run are the first batches of the critical permits, each *)
(* with its outcome, and the counts are theirs.                            *)
(***************************************************************************)
Alert == [batch : {Batch(Critical, n) : n \in Nat}, outcome : Outcomes]

AlertsInv ==
  /\ alerts \in Seq(Alert)
  /\ \A i \in 1..Len(alerts) :
       /\ alerts[i].batch = Batch(Critical, (i - 1) * BatchSize)
       /\ (i - 1) * BatchSize < Alerted(Critical)
  /\ pc["process"] = "done" => Alerted(Critical) <= Len(alerts) * BatchSize

CountsInv ==
  /\ sent \in Nat /\ failed \in Nat
  /\ sent = Cardinality(AlertsWith("sent"))
  /\ failed = Cardinality(AlertsWith("failed"))

LEMMA AlertsAreFinite ==
  ASSUME alerts \in Seq(Alert), NEW outcome
  PROVE  /\ IsFiniteSet(AlertsWith(outcome))
         /\ Len(alerts) + 1 \notin AlertsWith(outcome) /\ Len(alerts) \in Nat
<1>1. Len(alerts) \in Nat /\ DOMAIN alerts = 1..Len(alerts)
  OBVIOUS
<1>2. IsFiniteSet(1..Len(alerts)) /\ AlertsWith(outcome) \subseteq 1..Len(alerts)
  BY <1>1, FS_Interval DEF AlertsWith
<1>3. IsFiniteSet(AlertsWith(outcome))
  BY <1>2, FS_Subset
<1> QED
  BY <1>1, <1>2, <1>3

(***************************************************************************)
(* The critical permits of a run are those of the day, and only Load,      *)
(* SendAlert and Report touch what the two invariants speak of.            *)
(***************************************************************************)
LEMMA CriticalType ==
  ASSUME FilesInv
  PROVE  /\ Len(Critical) \in Nat /\ Alerted(Critical) \in Nat
         /\ Alerted(Critical) <= Len(Critical) /\ Alerted(Critical) <= AlertCap
         /\ Alerted(Critical) \in {Len(Critical), AlertCap}
         /\ pc["process"] # "idle" => processed.critical = Critical
<1>1. Critical = process_permits(TheReport.permits).critical
  BY DEF Critical, process_permits
<1>2. Len(Critical) \in Nat
  BY CriticalRanks DEF Ranking, Enumerates
<1>3. AlertCap \in Nat
  BY PermitsAssumption
<1>4. pc["process"] # "idle" => processed.critical = Critical
  BY <1>1 DEF FilesInv, NobodyWorksOnHalfAFile
<1> QED
  BY <1>2, <1>3, <1>4 DEF Alerted, Smaller

LEMMA OtherSteps ==
  ASSUME FilesInv, [Next]_vars, ~Load, ~SendAlert, ~Report
  PROVE  /\ UNCHANGED <<portal, alerts, sent, failed>>
         /\ pc'["process"] = "done" => pc["process"] = "done"
<1>0. pc \in [Scripts -> Labels]
  BY DEF FilesInv
<1>1. CASE \/ Fetch \/ SavePermits \/ LoadProcessed \/ Unreadable("digest", "processed")
           \/ LoadRaw \/ SaveMarkdown \/ Convert
  <2>1. \E s \in {"fetch", "digest"}, l \in Labels : Goto(s, l)
    BY <1>1 DEF Fetch, SavePermits, LoadProcessed, Unreadable, LoadRaw, SaveMarkdown, Convert,
         Labels, Resting
  <2>2. pc'["process"] = pc["process"]
    BY <1>0, <2>1 DEF Goto, Scripts
  <2> QED
    BY <1>1, <2>2 DEF Fetch, SavePermits, LoadProcessed, Unreadable, LoadRaw, SaveMarkdown, Convert,
         notices, counts
<1>2. CASE Unreadable("process", "permits") \/ \E s \in Scripts : Dies(s)
  BY <1>0, <1>2 DEF Unreadable, Dies, Goto, Scripts, notices, counts
<1>3. CASE SaveProcessed \/ SendDaily \/ SendBreakdown \/ SendStrategic \/ SkipStrategic
  BY <1>0, <1>3 DEF SaveProcessed, SendDaily, SendBreakdown, SendStrategic, SendSummary,
       SkipStrategic, Goto, Scripts, notices, counts
<1>4. CASE UNCHANGED vars
  BY <1>4 DEF vars, notices, counts
<1> QED
  BY <1>1, <1>2, <1>3, <1>4 DEF Next, Terminating

LEMMA OutcomeOfAlert ==
  ASSUME FilesInv, alerts \in Seq(Alert), SendAlert
  PROVE  \E outcome \in Outcomes :
           LET new == [batch |-> Batch(Critical, Len(alerts) * BatchSize), outcome |-> outcome]
           IN  /\ new \in Alert
               /\ alerts' = Append(alerts, new)
               /\ sent' = IF outcome = "sent" THEN sent + 1 ELSE sent
               /\ failed' = IF outcome = "sent" THEN failed ELSE failed + 1
<1>1. Len(alerts) * BatchSize \in Nat
  BY PermitsAssumption
<1>2. processed.critical = Critical
  BY CriticalType DEF SendAlert
<1> QED
  BY <1>1, <1>2 DEF SendAlert, batch_start, Alert

LEMMA AlertsStep ==
  ASSUME FilesInv, AlertsInv, CountsInv, [Next]_vars
  PROVE  AlertsInv' /\ CountsInv'
<1>0. /\ alerts \in Seq(Alert) /\ Len(alerts) \in Nat /\ portal' = portal
      /\ Critical' = Critical /\ Alerted(Critical)' = Alerted(Critical) /\ Alert' = Alert
  <2>1. portal' = portal
    BY OtherSteps DEF Load, SendAlert, Report
  <2> QED
    BY <2>1 DEF AlertsInv, Critical, TheReport, Alert
<1>1. CASE Load
  <2>1. /\ alerts' = <<>> /\ sent' = 0 /\ failed' = 0 /\ pc'["process"] = "save"
        /\ DOMAIN <<>> = {} /\ Len(<<>>) = 0
    BY <1>1 DEF Load, Goto, FilesInv, Scripts
  <2>2. AlertsWith("sent")' = {} /\ AlertsWith("failed")' = {}
    BY <2>1 DEF AlertsWith
  <2>3. AlertsInv'
    BY <1>0, <2>1 DEF AlertsInv
  <2> QED
    BY <2>1, <2>2, <2>3, FS_EmptySet DEF CountsInv
<1>2. CASE SendAlert
  <2>1. PICK outcome \in Outcomes :
           LET new == [batch |-> Batch(Critical, Len(alerts) * BatchSize), outcome |-> outcome]
           IN  /\ new \in Alert
               /\ alerts' = Append(alerts, new)
               /\ sent' = IF outcome = "sent" THEN sent + 1 ELSE sent
               /\ failed' = IF outcome = "sent" THEN failed ELSE failed + 1
    BY <1>0, <1>2, OutcomeOfAlert
  <2> DEFINE new == [batch |-> Batch(Critical, Len(alerts) * BatchSize), outcome |-> outcome]
  <2>2. /\ alerts' \in Seq(Alert) /\ Len(alerts') = Len(alerts) + 1
        /\ alerts'[Len(alerts) + 1] = new
        /\ \A i \in 1..Len(alerts) : alerts'[i] = alerts[i]
    BY <1>0, <2>1, AppendProperties
  <2>3. pc' = pc /\ pc["process"] = "alerts" /\ Len(alerts) * BatchSize < Alerted(Critical)
    BY <1>2, CriticalType DEF SendAlert, MoreAlerts, batch_start
  <2>4. ASSUME NEW i \in 1..Len(alerts')
        PROVE  /\ alerts'[i].batch = Batch(Critical, (i - 1) * BatchSize)
               /\ (i - 1) * BatchSize < Alerted(Critical)
    <3>1. CASE i = Len(alerts) + 1
      BY <1>0, <2>2, <2>3, <3>1
    <3>2. CASE i \in 1..Len(alerts)
      BY <2>2, <3>2 DEF AlertsInv
    <3> QED
      BY <1>0, <2>2, <2>4, <3>1, <3>2
  <2>5. AlertsInv'
    BY <1>0, <2>2, <2>3, <2>4 DEF AlertsInv, Batch
  <2>6. ASSUME NEW o \in Outcomes
        PROVE  AlertsWith(o)' = IF outcome = o THEN AlertsWith(o) \cup {Len(alerts) + 1}
                                ELSE AlertsWith(o)
    <3>1. DOMAIN alerts = 1..Len(alerts) /\ DOMAIN alerts' = 1..(Len(alerts) + 1)
      BY <1>0, <2>2
    <3> QED
      BY <1>0, <2>2, <3>1 DEF AlertsWith
  <2>7. \A o \in Outcomes :
          Cardinality(AlertsWith(o) \cup {Len(alerts) + 1}) = Cardinality(AlertsWith(o)) + 1
    BY <1>0, AlertsAreFinite, FS_AddElement
  <2>8. "sent" \in Outcomes /\ "failed" \in Outcomes /\ outcome \in {"sent", "failed"}
    BY DEF Outcomes
  <2> QED
    BY <1>0, <2>1, <2>2, <2>3, <2>5, <2>6, <2>7, <2>8 DEF CountsInv
<1>3. CASE Report
  <2>1. /\ UNCHANGED <<alerts, sent, failed>>
        /\ Alerted(Critical) <= Len(alerts) * BatchSize
    <3>1. ~(Len(alerts) * BatchSize < Alerted(Critical))
      BY <1>3, CriticalType DEF Report, MoreAlerts, batch_start
    <3>2. Len(alerts) * BatchSize \in Nat /\ Alerted(Critical) \in Nat
      BY <1>0, CriticalType, PermitsAssumption
    <3> QED
      BY <1>3, <3>1, <3>2 DEF Report, notices, counts
  <2> QED
    BY <1>0, <2>1 DEF AlertsInv, CountsInv, AlertsWith
<1>4. CASE ~Load /\ ~SendAlert /\ ~Report
  BY <1>0, <1>4, OtherSteps DEF AlertsInv, CountsInv, AlertsWith
<1> QED
  BY <1>1, <1>2, <1>3, <1>4

LEMMA AlertsInvariance == Spec => [](FilesInv /\ AlertsInv /\ CountsInv)
<1>1. Init => FilesInv
  BY DEF Init, FilesInv, NobodyWorksOnHalfAFile, Readable, Files, Scripts, Labels, Resting
<1>2. Init => AlertsInv /\ CountsInv
  <2> SUFFICES ASSUME Init PROVE AlertsInv /\ CountsInv
    OBVIOUS
  <2>1. /\ alerts = <<>> /\ pc["process"] = "idle" /\ sent = 0 /\ failed = 0
        /\ DOMAIN <<>> = {} /\ Len(<<>>) = 0
    BY DEF Init, Scripts
  <2>2. AlertsWith("sent") = {} /\ AlertsWith("failed") = {}
    BY <2>1 DEF AlertsWith
  <2> QED
    BY <2>1, <2>2, FS_EmptySet DEF AlertsInv, CountsInv
<1>3. FilesInv /\ AlertsInv /\ CountsInv /\ [Next]_vars => (FilesInv /\ AlertsInv /\ CountsInv)'
  BY FilesStep, AlertsStep
<1> QED
  BY <1>1, <1>2, <1>3, PTL DEF Spec

------------------------------------------------------------------------------
(***************************************************************************)
(* Arithmetic of batches of b.                                             *)
(***************************************************************************)
LEMMA FullBatches ==
  ASSUME NEW b \in Nat \ {0}, NEW x \in Nat, NEW y \in Nat, x * b < y * b
  PROVE  x * b + b <= y * b
  OBVIOUS

LEMMA WholeBatches ==
  ASSUME NEW b \in Nat \ {0}, NEW a \in Nat, a % b = 0
  PROVE  a = (a \div b) * b /\ a \div b \in Nat
  OBVIOUS

LEMMA BatchesBetween ==
  ASSUME NEW b \in Nat \ {0}, NEW n \in Nat, NEW x \in Nat, n * b <= x
  PROVE  x \div b >= n /\ (x < n * b + b => x \div b = n)
  BY SMTT(20)

(***************************************************************************)
(* The alerts of a run tile the critical permits up to the cap             *)
(* (AlertsTileTheCriticals), for any batch size and any cap that is a      *)
(* multiple of it.                                                         *)
(***************************************************************************)
LEMMA AlertsTile ==
  ASSUME FilesInv, AlertsInv
  PROVE  AlertsTileTheCriticals
<1> DEFINE b == BatchSize
           critical == Len(Critical)
           alerted == Alerted(Critical)
           of == (alerted + b - 1) \div b
<1>0. /\ b \in Nat \ {0} /\ critical \in Nat /\ alerted \in Nat /\ alerted <= critical
      /\ alerted <= AlertCap /\ alerted \in {critical, AlertCap}
      /\ Len(alerts) \in Nat /\ DOMAIN alerts = 1..Len(alerts)
      /\ alerts = <<>> <=> Len(alerts) = 0
  BY CriticalType, PermitsAssumption DEF AlertsInv
<1>1. PICK k \in Nat : AlertCap = k * b
  BY <1>0, WholeBatches, PermitsAssumption
<1>2. \A i \in 1..Len(alerts) :
        /\ alerts[i].batch = Batch(Critical, (i - 1) * b)
        /\ (i - 1) * b < alerted
  BY DEF AlertsInv
<1>3. ASSUME NEW i \in 1..Len(alerts)
      PROVE  /\ alerts[i].batch.first = (i - 1) * b + 1
             /\ alerts[i].batch.last = Smaller((i - 1) * b + b, critical)
             /\ alerts[i].batch.number = ((i - 1) * b) \div b + 1
             /\ alerts[i].batch.of = of /\ alerts[i].batch.total = critical
             /\ alerts[i].batch.permits =
                  SubSeq(Critical, alerts[i].batch.first, alerts[i].batch.last)
  <2>1. alerts[i].batch = Batch(Critical, (i - 1) * b)
    BY <1>2
  <2>2. ASSUME NEW n
        PROVE  /\ Batch(Critical, n).first = n + 1
               /\ Batch(Critical, n).last = Smaller(n + b, critical)
               /\ Batch(Critical, n).number = n \div b + 1
               /\ Batch(Critical, n).of = of /\ Batch(Critical, n).total = critical
               /\ Batch(Critical, n).permits =
                    SubSeq(Critical, Batch(Critical, n).first, Batch(Critical, n).last)
    BY DEF Batch
  <2> HIDE DEF critical, of
  <2> QED
    BY <2>1, <2>2
<1>4. ASSUME NEW i \in 1..Len(alerts)
      PROVE  /\ (i - 1) * b \in Nat /\ i - 1 \in Nat
             /\ (i - 1) * b + b = i * b
             /\ (i - 1) * b < alerted
             /\ i * b <= AlertCap
  <2>1. (i - 1) * b \in Nat /\ i - 1 \in Nat /\ (i - 1) * b + b = i * b /\ (i - 1) * b < alerted
    BY <1>0, <1>2
  <2>2. (i - 1) * b < k * b
    BY <1>0, <1>1, <2>1
  <2> QED
    BY <1>0, <1>1, <2>1, <2>2, FullBatches
<1>5. ASSUME NEW i \in 1..Len(alerts)
      PROVE  /\ alerts[i].batch.last \in (i - 1) * b + 1..(i - 1) * b + b
             /\ alerts[i].batch.last <= alerted
             /\ i < Len(alerts) => alerts[i].batch.last = i * b
             /\ alerts[i].batch.number = i
             /\ of >= Len(alerts)
  <2>1. alerts[i].batch.last \in (i - 1) * b + 1..(i - 1) * b + b /\ alerts[i].batch.last <= alerted
    BY <1>0, <1>3, <1>4, SMTT(30) DEF Smaller
  <2>2. ASSUME i < Len(alerts) PROVE alerts[i].batch.last = i * b
    <3>1. i + 1 \in 1..Len(alerts) /\ (i + 1) - 1 = i
      BY <1>0, <2>2
    <3>2. i * b < alerted /\ i * b \in Nat
      BY <3>1, <1>4
    <3> QED
      BY <1>0, <1>3, <1>4, <3>2 DEF Smaller
  <2>3. alerts[i].batch.number = i
    <3>1. ((i - 1) * b) \div b = i - 1
      BY <1>0, <1>4, BatchesBetween
    <3> QED
      BY <1>3, <1>4, <3>1
  <2>4. of >= Len(alerts)
    <3>1. Len(alerts) \in 1..Len(alerts) /\ Len(alerts) * b \in Nat
      BY <1>0
    <3>2. Len(alerts) * b <= alerted + b - 1
      BY <1>0, <1>4, <3>1
    <3>3. alerted + b - 1 \in Nat
      BY <1>0
    <3> QED
      BY <1>0, <3>1, <3>2, <3>3, BatchesBetween
  <2> QED
    BY <2>1, <2>2, <2>3, <2>4
<1>6. ASSUME NEW i \in DOMAIN alerts
      PROVE  LET c == alerts[i].batch
             IN  /\ c.first = IF i = 1 THEN 1 ELSE alerts[i - 1].batch.last + 1
                 /\ c.last \in c.first..c.first + BatchSize - 1
                 /\ c.last <= Alerted(Critical)
                 /\ c.permits = SubSeq(Critical, c.first, c.last)
                 /\ c.number = i /\ c.of >= Len(alerts) /\ c.total = Len(Critical)
  <2>1. alerts[i].batch.first = IF i = 1 THEN 1 ELSE alerts[i - 1].batch.last + 1
    <3>1. CASE i = 1
      <4>1. i \in 1..Len(alerts) /\ i - 1 = 0 /\ b \in Nat
        BY <1>0, <3>1
      <4>2. (i - 1) * b = 0
        BY ONLY <4>1
      <4>3. alerts[i].batch.first = (i - 1) * b + 1
        BY <1>3, <4>1
      <4> HIDE DEF b
      <4> QED
        BY ONLY <3>1, <4>2, <4>3
    <3>2. CASE i # 1
      <4>1. i - 1 \in 1..Len(alerts) /\ i - 1 < Len(alerts)
        BY <1>0, <3>2
      <4> QED
        BY <1>0, <1>3, <1>5, <3>2, <4>1
    <3> QED
      BY <3>1, <3>2
  <2>2. i \in 1..Len(alerts) /\ (i - 1) * b \in Nat /\ b \in Nat
    BY <1>0, <1>4
  <2>3. alerts[i].batch.last \in
          alerts[i].batch.first..alerts[i].batch.first + BatchSize - 1
    <3>1. alerts[i].batch.first = (i - 1) * b + 1
      BY <1>3, <2>2
    <3>2. alerts[i].batch.last \in (i - 1) * b + 1..(i - 1) * b + b
      BY <1>5, <2>2
    <3>3. (i - 1) * b + b = (i - 1) * b + 1 + b - 1
      BY <2>2
    <3> QED
      BY <3>1, <3>2, <3>3
  <2> QED
    BY <1>3, <1>5, <2>1, <2>2, <2>3
<1>7. ASSUME pc["process"] = "done", alerts = <<>>
      PROVE  Alerted(Critical) = 0
  BY <1>0, <1>7 DEF AlertsInv
<1>8. ASSUME pc["process"] = "done", alerts # <<>>
      PROVE  LET c == alerts[Len(alerts)].batch
             IN  c.last = Alerted(Critical) /\ c.of = Len(alerts)
  <2>1. Len(alerts) \in 1..Len(alerts)
    BY <1>0, <1>8
  <2>2. /\ alerted <= Len(alerts) * b /\ (Len(alerts) - 1) * b < alerted
        /\ Len(alerts) * b \in Nat /\ (Len(alerts) - 1) * b + b = Len(alerts) * b
    BY <1>0, <1>4, <1>8, <2>1 DEF AlertsInv
  <2>3. alerts[Len(alerts)].batch.last = alerted
    <3>1. alerts[Len(alerts)].batch.last = Smaller(Len(alerts) * b, critical)
      BY <1>3, <2>1, <2>2
    <3>2. Len(alerts) * b <= AlertCap
      BY <1>4, <2>1
    <3>3. AlertCap \in Nat
      BY PermitsAssumption
    <3> QED
      BY <1>0, <2>2, <3>1, <3>2, <3>3 DEF Smaller
  <2>4. of = Len(alerts)
    <3>1. alerted + b - 1 \in Nat /\ Len(alerts) * b <= alerted + b - 1
          /\ alerted + b - 1 < Len(alerts) * b + b
      BY <1>0, <2>2
    <3> QED
      BY <1>0, <3>1, BatchesBetween
  <2> QED
    BY <1>3, <2>1, <2>3, <2>4
<1> QED
  BY <1>6, <1>7, <1>8 DEF AlertsTileTheCriticals

(***************************************************************************)
(* In every run of process_and_notify.py, whatever messages fail: the      *)
(* alerts leave out no critical permit below the cap and repeat none       *)
(* (AlertsTileTheCriticals).                                               *)
(***************************************************************************)
THEOREM AlertsCoverTheCriticals == Spec => []AlertsTileTheCriticals
<1>1. FilesInv /\ AlertsInv => AlertsTileTheCriticals
  BY AlertsTile
<1> QED
  BY <1>1, AlertsInvariance, PTL

------------------------------------------------------------------------------
(***************************************************************************)
(* The critical permits that the alerts of a run name, in their order,     *)
(* are the first of the day's, up to the cap.                              *)
(***************************************************************************)
Named ==
  [i \in 1..Alerted(Critical) |->
     LET a == CHOOSE a \in DOMAIN alerts :
                i \in alerts[a].batch.first..alerts[a].batch.last
     IN  alerts[a].batch.permits[i - alerts[a].batch.first + 1]]

LEMMA BatchOf ==
  ASSUME NEW b \in Nat \ {0}, NEW x \in Nat, NEW n \in Nat, x < n * b
  PROVE  /\ x \div b \in 0..n - 1
         /\ (x \div b) * b <= x /\ x < (x \div b) * b + b
<1>1. x \div b \in Nat /\ (x \div b) * b <= x /\ x < (x \div b) * b + b
  OBVIOUS
<1>2. x \div b < n
  <2> DEFINE q == x \div b
  <2>1. q \in Nat /\ q * b <= x
    BY <1>1
  <2> HIDE DEF q
  <2>2. CASE n <= q
    <3>1. q - n \in Nat
      BY <2>1, <2>2
    <3>2. (q - n) * b \in Nat /\ (q - n) * b = q * b - n * b
      BY <2>1, <3>1
    <3> QED
      BY <2>1, <3>2
  <2> QED
    BY <2>1, <2>2
<1> QED
  BY <1>1, <1>2

LEMMA SomeAlertNames ==
  ASSUME FilesInv, AlertsInv, pc["process"] = "done",
         NEW i \in 1..Alerted(Critical)
  PROVE  \E a \in DOMAIN alerts : i \in alerts[a].batch.first..alerts[a].batch.last
<1> DEFINE b == BatchSize
           a == (i - 1) \div b + 1
<1>0. /\ b \in Nat \ {0} /\ Len(Critical) \in Nat /\ Alerted(Critical) \in Nat
      /\ Alerted(Critical) <= Len(Critical)
      /\ Len(alerts) \in Nat /\ DOMAIN alerts = 1..Len(alerts)
      /\ Alerted(Critical) <= Len(alerts) * b /\ Len(alerts) * b \in Nat
  BY CriticalType, PermitsAssumption DEF AlertsInv
<1>1. i - 1 \in Nat /\ i - 1 < Len(alerts) * b /\ i <= Len(Critical)
  BY <1>0
<1>2. /\ (i - 1) \div b \in 0..Len(alerts) - 1
      /\ ((i - 1) \div b) * b <= i - 1 /\ i - 1 < ((i - 1) \div b) * b + b
  <2> HIDE DEF b
  <2> QED
    BY <1>0, <1>1, BatchOf
<1>3. a \in 1..Len(alerts) /\ a - 1 = (i - 1) \div b
  BY <1>0, <1>2
<1> HIDE DEF a
<1>4. (a - 1) * b <= i - 1 /\ i - 1 < (a - 1) * b + b /\ (a - 1) * b \in Nat
  <2> DEFINE q == (i - 1) \div b
  <2>1. q = a - 1 /\ q * b <= i - 1 /\ i - 1 < q * b + b
    BY <1>2, <1>3
  <2>2. a - 1 \in Nat
    BY <1>0, <1>3
  <2> HIDE DEF q, b
  <2> QED
    BY <1>0, <2>1, <2>2
<1>5. alerts[a].batch = Batch(Critical, (a - 1) * b)
  BY <1>3 DEF AlertsInv
<1>6. /\ alerts[a].batch.first = (a - 1) * b + 1
      /\ alerts[a].batch.last = Smaller((a - 1) * b + b, Len(Critical))
  BY <1>5 DEF Batch
<1>7. i \in alerts[a].batch.first..alerts[a].batch.last
  BY <1>0, <1>1, <1>4, <1>6 DEF Smaller
<1> QED
  BY <1>0, <1>3, <1>7

LEMMA AlertNames ==
  ASSUME FilesInv, AlertsInv, NEW a \in DOMAIN alerts,
         NEW i \in alerts[a].batch.first..alerts[a].batch.last
  PROVE  alerts[a].batch.permits[i - alerts[a].batch.first + 1] = Critical[i]
<1> DEFINE b == BatchSize
           n == Len(Critical)
           x == (a - 1) * b
           last == alerts[a].batch.last
<1>0. b \in Nat \ {0} /\ n \in Nat /\ a \in 1..Len(alerts) /\ Len(alerts) \in Nat
  BY CriticalType, PermitsAssumption DEF AlertsInv
<1>1. x \in Nat
  BY <1>0
<1>2. alerts[a].batch = Batch(Critical, x) /\ x < Alerted(Critical)
  BY <1>0 DEF AlertsInv
<1>3. /\ alerts[a].batch.first = x + 1
      /\ last = Smaller(x + b, n)
      /\ alerts[a].batch.permits = SubSeq(Critical, x + 1, last)
  <2> HIDE DEF x
  <2>1. /\ Batch(Critical, x).first = x + 1
        /\ Batch(Critical, x).last = Smaller(x + b, n)
        /\ Batch(Critical, x).permits = SubSeq(Critical, x + 1, Smaller(x + b, n))
    BY DEF Batch
  <2> QED
    BY <1>2, <2>1
<1>4. x < n
  BY <1>0, <1>1, <1>2, CriticalType
<1> HIDE DEF x, last, n, b
<1>5. last \in Nat /\ x < last /\ last <= n
  BY <1>0, <1>1, <1>3, <1>4 DEF Smaller
<1>6. last - x \in Nat /\ x + (last - x) = last
  BY <1>1, <1>5
<1>7. Critical \in [1..n -> CriticalOnes]
  <2>1. Ranking(Critical, HowMany(CriticalOnes), CriticalOnes) /\ n = HowMany(CriticalOnes)
    BY CriticalRanks DEF FilesInv, n
  <2> QED
    BY <2>1 DEF Ranking, Enumerates
<1>8. SubSeq(Critical, x + 1, x + (last - x)) = [j \in 1..last - x |-> Critical[x + j]]
  <2> DEFINE c == last - x
             S == CriticalOnes
             s == Critical
  <2>1. c \in Nat /\ x + c <= n /\ s \in [1..n -> S]
    BY <1>5, <1>6, <1>7
  <2> HIDE DEF c, S, s
  <2>2. SubSeq(s, x + 1, x + c) = [j \in 1..c |-> s[x + j]]
    BY <1>0, <1>1, <2>1, SliceIs
  <2> QED
    BY <2>2 DEF c, s
<1>9. i - (x + 1) + 1 = i - x /\ i - x \in 1..last - x /\ x + (i - x) = i
  BY <1>1, <1>3, <1>5 DEF last
<1>10. [j \in 1..last - x |-> Critical[x + j]][i - x] = Critical[i]
  BY <1>9
<1>11. alerts[a].batch.permits = [j \in 1..last - x |-> Critical[x + j]]
  BY <1>3, <1>6, <1>8
<1> QED
  BY <1>3, <1>9, <1>10, <1>11

LEMMA NamedIs ==
  ASSUME FilesInv, AlertsInv, pc["process"] = "done"
  PROVE  Named = [i \in 1..Alerted(Critical) |-> Critical[i]]
<1> DEFINE k == Alerted(Critical)
<1>1. ASSUME NEW i \in 1..k PROVE Named[i] = Critical[i]
  <2> DEFINE Names(a) == i \in alerts[a].batch.first..alerts[a].batch.last
             a == CHOOSE a \in DOMAIN alerts : Names(a)
  <2>1. Named[i] = alerts[a].batch.permits[i - alerts[a].batch.first + 1]
    BY DEF Named
  <2>2. \E c \in DOMAIN alerts : Names(c)
    BY SomeAlertNames
  <2>3. a \in DOMAIN alerts /\ Names(a)
    BY <2>2
  <2> HIDE DEF a
  <2> QED
    BY <2>1, <2>3, AlertNames
<1>2. Named = [i \in 1..k |-> Named[i]]
  <2> DEFINE NameOf(i) == LET a == CHOOSE a \in DOMAIN alerts :
                                     i \in alerts[a].batch.first..alerts[a].batch.last
                          IN  alerts[a].batch.permits[i - alerts[a].batch.first + 1]
  <2>1. Named = [i \in 1..k |-> NameOf(i)]
    BY DEF Named
  <2> HIDE DEF NameOf, k
  <2> QED
    BY <2>1
<1> QED
  BY <1>1, <1>2

LEMMA NamedAreTheTop ==
  ASSUME FilesInv, AlertsInv, pc["process"] = "done"
  PROVE  MostValuable(Named, AlertCap, CriticalOnes)
<1> DEFINE n == Len(Critical)
           k == Alerted(Critical)
<1>0. n \in Nat /\ k \in Nat /\ k <= n /\ AlertCap \in Nat /\ portal \in Days
  BY CriticalType, PermitsAssumption DEF FilesInv
<1>3. Named = [i \in 1..k |-> Critical[i]]
  BY NamedIs
<1>4. Ranking(Critical, n, CriticalOnes) /\ CriticalOnes \in SUBSET AllPermits
  BY <1>0, CriticalRanks DEF CriticalOnes
<1>5. Top(Critical, AlertCap) = [i \in 1..k |-> Critical[i]]
  <2> DEFINE S == CriticalOnes
             s == Critical
  <2>1. s \in [1..n -> S] /\ 0 + k <= n
    BY <1>0, <1>4 DEF Ranking, Enumerates
  <2>2. Top(s, AlertCap) = SubSeq(s, 0 + 1, 0 + k)
    BY <1>0 DEF Top, Alerted, Smaller
  <2> HIDE DEF S, s, n, k
  <2>3. SubSeq(s, 0 + 1, 0 + k) = [i \in 1..k |-> s[0 + i]]
    BY <1>0, <2>1, SliceIs
  <2>4. \A i \in 1..k : 0 + i = i
    BY <1>0
  <2> QED
    BY <2>2, <2>3, <2>4 DEF s, k
<1> HIDE DEF n, k
<1>6. MostValuable(Top(Critical, AlertCap), AlertCap, CriticalOnes)
  <2> DEFINE S == CriticalOnes
  <2>1. Ranking(Critical, n, S) /\ S \in SUBSET AllPermits
    BY <1>4
  <2> HIDE DEF S
  <2>2. MostValuable(Top(Critical, AlertCap), AlertCap, S)
    BY <1>0, <2>1, TopIs
  <2> QED
    BY <2>2 DEF S
<1> QED
  BY <1>3, <1>5, <1>6

------------------------------------------------------------------------------
(***************************************************************************)
(* What a run has told is made of the day's report and of the day's lists. *)
(***************************************************************************)
ToldInv ==
  /\ DOMAIN told = Summaries
  /\ told["daily"] \in {Absent, DailySummary(TheProcessed, TheReport)}
  /\ told["breakdown"] \in {Absent, MunicipalityBreakdown(TheProcessed)}
  /\ told["strategic"] \in {Absent, StrategicSummary(TheProcessed)}
  /\ pc["process"] \in {"breakdown", "strategic", "alerts", "done"} =>
       told["daily"] = DailySummary(TheProcessed, TheReport)

LEMMA ToldStep ==
  ASSUME FilesInv, ToldInv, [Next]_vars
  PROVE  ToldInv'
<1>0. portal' = portal /\ TheReport' = TheReport /\ TheProcessed' = TheProcessed
  <2>1. portal' = portal
    BY OtherSteps DEF Load, SendAlert, Report
  <2> QED
    BY <2>1, TheDayStays DEF TheProcessed
<1>1. pc["process"] # "idle" => data = TheReport /\ processed = TheProcessed
  BY DEF FilesInv, NobodyWorksOnHalfAFile, TheProcessed
<1> DEFINE Told(l) == l \in {"breakdown", "strategic", "alerts", "done"}
<1>2. CASE told' = told /\ (Told(pc'["process"]) => Told(pc["process"]))
  BY <1>0, <1>2 DEF ToldInv
<1>3. CASE Load
  <2>1. pc'["process"] = "save" /\ told' = [k \in Summaries |-> Absent]
    BY <1>3 DEF Load, Goto, FilesInv, Scripts
  <2> QED
    BY <1>0, <2>1 DEF ToldInv, Summaries
<1>4. CASE SendDaily
  BY <1>0, <1>1, <1>4 DEF SendDaily, SendSummary, ToldInv, Summaries
<1>5. CASE SendBreakdown
  BY <1>0, <1>1, <1>5 DEF SendBreakdown, SendSummary, ToldInv, Summaries
<1>6. CASE SendStrategic
  BY <1>0, <1>1, <1>6 DEF SendStrategic, SendSummary, ToldInv, Summaries
<1>7. \/ Load \/ SendDaily \/ SendBreakdown \/ SendStrategic
      \/ told' = told /\ (Told(pc'["process"]) => Told(pc["process"]))
  <2>0. pc \in [Scripts -> Labels]
    BY DEF FilesInv
  <2>1. CASE SkipStrategic \/ SendAlert \/ Report
    BY <2>0, <2>1 DEF SkipStrategic, SendAlert, Report, Goto, notices
  <2>2. CASE Unreadable("process", "permits") \/ SaveProcessed \/ \E s \in Scripts : Dies(s)
    BY <2>0, <2>2 DEF Unreadable, SaveProcessed, Dies, Goto, Scripts, notices
  <2>3. CASE \/ Fetch \/ SavePermits \/ LoadProcessed \/ Unreadable("digest", "processed")
             \/ LoadRaw \/ SaveMarkdown \/ Convert
    <3>1. told' = told /\ \E s \in {"fetch", "digest"}, l \in Labels : Goto(s, l)
      BY <2>3 DEF Fetch, SavePermits, LoadProcessed, Unreadable, LoadRaw, SaveMarkdown, Convert,
           Labels, Resting, notices
    <3> QED
      BY <2>0, <3>1 DEF Goto, Scripts
  <2>4. CASE UNCHANGED vars
    BY <2>4 DEF vars, notices
  <2> QED
    BY <2>1, <2>2, <2>3, <2>4 DEF Next, Terminating
<1> QED
  BY <1>2, <1>3, <1>4, <1>5, <1>6, <1>7

LEMMA ToldInvariance == Spec => [](FilesInv /\ AlertsInv /\ CountsInv /\ ToldInv)
<1>1. Init => ToldInv
  BY DEF Init, ToldInv, Summaries, Scripts
<1>2. FilesInv /\ ToldInv /\ [Next]_vars => ToldInv'
  BY ToldStep
<1> QED
  BY <1>1, <1>2, AlertsInvariance, PTL DEF Spec

(***************************************************************************)
(* Whatever the scripts run, write and die at meanwhile, and for any day:  *)
(* the counts, totals and capped lists of the summaries of                 *)
(* process_and_notify.py that MessagesTellTheDay names are those of the    *)
(* day, and the alerts of a finished run name the most valuable critical   *)
(* permits.  The number of alerts sent and the list of inactive towns      *)
(* (lines 215 and 258) are not among them.                                 *)
(***************************************************************************)
THEOREM MessagesAreTrue == Spec => []MessagesTellTheDay
<1>1. FilesInv /\ AlertsInv /\ ToldInv => MessagesTellTheDay
  <2> SUFFICES ASSUME FilesInv, AlertsInv, ToldInv PROVE MessagesTellTheDay
    OBVIOUS
  <2>0. portal \in Days
    BY DEF FilesInv
  <2>1. told["daily"] # Absent => DailyTold(told["daily"])
    BY <2>0, DailyTellsTheDay DEF ToldInv
  <2>2. told["breakdown"] # Absent => BreakdownTold(told["breakdown"])
    BY <2>0, BreakdownTellsTheDay DEF ToldInv
  <2>3. told["strategic"] # Absent => StrategicTold(told["strategic"])
    BY <2>0, StrategicTellsTheDay DEF ToldInv
  <2>4. pc["process"] = "done" => MostValuable(Named, AlertCap, CriticalOnes)
    BY NamedAreTheTop
  <2> QED
    BY <2>1, <2>2, <2>3, <2>4, Zenon
    DEF MessagesTellTheDay, DailyTold, BreakdownTold, StrategicTold, Named
<1> QED
  BY <1>1, ToldInvariance, PTL

------------------------------------------------------------------------------
(***************************************************************************)
(* Where an alert lies in the list of the critical permits, and what it    *)
(* names.                                                                  *)
(***************************************************************************)
LEMMA AlertPlace ==
  ASSUME FilesInv, AlertsInv, NEW a \in DOMAIN alerts
  PROVE  LET c == alerts[a].batch
         IN  /\ c.first \in Nat /\ c.last \in Nat /\ c.last <= Alerted(Critical)
             /\ Elements(c.permits) = {Critical[i] : i \in c.first..c.last}
             /\ \A i \in c.first..c.last :
                  i \in 1..Alerted(Critical) /\ (i - 1) \div BatchSize = a - 1
<1> DEFINE b == BatchSize
           n == Len(Critical)
           x == (a - 1) * b
           c == alerts[a].batch
           k == Alerted(Critical)
<1>0. /\ b \in Nat \ {0} /\ n \in Nat /\ a \in 1..Len(alerts) /\ Len(alerts) \in Nat
      /\ k \in Nat /\ k <= n
  BY CriticalType, PermitsAssumption DEF AlertsInv
<1>1. a - 1 \in Nat /\ x \in Nat
  BY <1>0
<1>2. c.first = x + 1
  <2>1. c = Batch(Critical, x)
    BY <1>0 DEF AlertsInv
  <2> HIDE DEF x, c
  <2> QED
    BY <2>1 DEF Batch
<1>3. /\ c.last \in c.first..c.first + b - 1 /\ c.last <= k
      /\ c.permits = SubSeq(Critical, c.first, c.last)
  BY AlertsTile DEF AlertsTileTheCriticals
<1> DEFINE last == c.last
           m == last - x
<1>5. /\ last \in Nat /\ x < last /\ last <= x + b /\ last <= k /\ last <= n
      /\ m \in Nat /\ x + m = last
  <2>1. last \in x + 1..x + 1 + b - 1 /\ last <= k
    BY <1>2, <1>3
  <2> HIDE DEF x, last, k, n, b
  <2> QED
    BY <1>0, <1>1, <2>1
<1>4. Critical \in [1..n -> CriticalOnes]
  <2>1. Ranking(Critical, HowMany(CriticalOnes), CriticalOnes) /\ n = HowMany(CriticalOnes)
    BY CriticalRanks DEF FilesInv, n
  <2> QED
    BY <2>1 DEF Ranking, Enumerates
<1>6. c.permits = [j \in 1..m |-> Critical[x + j]]
  <2> DEFINE S == CriticalOnes
             s == Critical
  <2> HIDE DEF x, k, n, m, S, s
  <2>1. SubSeq(s, x + 1, x + m) = [j \in 1..m |-> s[x + j]]
    BY <1>0, <1>1, <1>4, <1>5, SliceIs DEF S, s
  <2> QED
    BY <1>2, <1>3, <1>5, <2>1 DEF s
<1>7. Elements(c.permits) = {Critical[i] : i \in x + 1..last}
  <2> HIDE DEF x, k, n, m, last
  <2>1. Elements(c.permits) = {Critical[x + j] : j \in 1..m}
    BY <1>6 DEF Elements
  <2>2. \A i \in x + 1..last : i - x \in 1..m /\ x + (i - x) = i
    BY <1>1, <1>5 DEF m
  <2>3. \A j \in 1..m : x + j \in x + 1..last
    BY <1>1, <1>5 DEF m
  <2> QED
    BY <2>1, <2>2, <2>3
<1>8. ASSUME NEW i \in x + 1..last PROVE i \in 1..k /\ (i - 1) \div b = a - 1
  <2> DEFINE q == a - 1
  <2>1. q \in Nat /\ q * b = x
    BY <1>1
  <2> HIDE DEF x, last, k, q, m, n
  <2>2. x <= i - 1 /\ i - 1 < x + b /\ i - 1 \in Nat /\ i \in 1..k
    BY <1>0, <1>1, <1>5
  <2>3. (i - 1) \div b = q
    BY <1>0, <2>1, <2>2, BatchesBetween
  <2> QED
    BY <2>2, <2>3 DEF q
<1>9. c.first = x + 1 /\ c.last = last /\ x + 1 \in Nat
  BY <1>1, <1>2
<1> HIDE DEF x, last, k, b, c
<1>10. /\ c.first \in Nat /\ c.last \in Nat /\ c.last <= k
       /\ Elements(c.permits) = {Critical[i] : i \in c.first..c.last}
       /\ \A i \in c.first..c.last : i \in 1..k /\ (i - 1) \div b = a - 1
  BY <1>5, <1>7, <1>8, <1>9
<1> QED
  BY <1>10 DEF c, k, b

LEMMA PermitsAreDivided ==
  ASSUME FilesInv, AlertsInv, pc["process"] = "done"
  PROVE  /\ PermitsIn("sent") \cup PermitsIn("failed") = Elements(Named)
         /\ PermitsIn("sent") \cap PermitsIn("failed") = {}
<1> DEFINE k == Alerted(Critical)
           First(a) == alerts[a].batch.first
           Last(a) == alerts[a].batch.last
<1>0. k \in Nat /\ k <= Len(Critical) /\ Len(Critical) \in Nat
  BY CriticalType
<1>1. Elements(Named) = {Critical[i] : i \in 1..k}
  <2>1. Named = [i \in 1..k |-> Critical[i]]
    BY NamedIs
  <2> HIDE DEF k
  <2> QED
    BY <2>1 DEF Elements
<1>2. \A a \in DOMAIN alerts :
        /\ Elements(alerts[a].batch.permits) = {Critical[i] : i \in First(a)..Last(a)}
        /\ \A i \in First(a)..Last(a) : i \in 1..k /\ (i - 1) \div BatchSize = a - 1
  BY AlertPlace
<1>3. \A i \in 1..k : \E a \in DOMAIN alerts : i \in First(a)..Last(a)
  BY SomeAlertNames
<1>4. \A a \in DOMAIN alerts : a \in Nat /\ alerts[a].outcome \in {"sent", "failed"}
  <2>1. alerts \in Seq(Alert)
    BY DEF AlertsInv
  <2>2. \A a \in DOMAIN alerts : a \in Nat /\ alerts[a] \in Alert
    BY <2>1
  <2>3. \A r \in Alert : r.outcome \in Outcomes
    BY DEF Alert
  <2> QED
    BY <2>2, <2>3 DEF Outcomes
<1>5. \A i, j \in 1..k : Critical[i] = Critical[j] => i = j
  <2>1. Ranking(Critical, HowMany(CriticalOnes), CriticalOnes)
        /\ Len(Critical) = HowMany(CriticalOnes)
    BY CriticalRanks DEF FilesInv
  <2>2. \A i, j \in 1..Len(Critical) : Critical[i] = Critical[j] => i = j
    BY <2>1 DEF Ranking, Enumerates
  <2> HIDE DEF k
  <2> QED
    BY <1>0, <2>2
<1> HIDE DEF k, First, Last
<1>6. \A o : \A p : p \in PermitsIn(o) <=>
        \E a \in DOMAIN alerts : alerts[a].outcome = o /\ p \in Elements(alerts[a].batch.permits)
  BY DEF PermitsIn, AlertsWith
<1>7. PermitsIn("sent") \cup PermitsIn("failed") = Elements(Named)
  <2>1. ASSUME NEW p \in PermitsIn("sent") \cup PermitsIn("failed") PROVE p \in Elements(Named)
    <3>1. PICK a \in DOMAIN alerts : p \in Elements(alerts[a].batch.permits)
      BY <1>6, <2>1
    <3>2. PICK i \in First(a)..Last(a) : p = Critical[i]
      BY <1>2, <3>1
    <3> QED
      BY <1>1, <1>2, <3>2
  <2>2. ASSUME NEW p \in Elements(Named) PROVE p \in PermitsIn("sent") \cup PermitsIn("failed")
    <3>1. PICK i \in 1..k : p = Critical[i]
      BY <1>1, <2>2
    <3>2. PICK a \in DOMAIN alerts : i \in First(a)..Last(a)
      BY <1>3
    <3>3. p \in Elements(alerts[a].batch.permits)
      BY <1>2, <3>1, <3>2
    <3> QED
      BY <1>4, <1>6, <3>3
  <2> QED
    BY <2>1, <2>2
<1>8. ASSUME NEW p \in PermitsIn("sent"), p \in PermitsIn("failed") PROVE FALSE
  <2>1. PICK a \in DOMAIN alerts :
          alerts[a].outcome = "sent" /\ p \in Elements(alerts[a].batch.permits)
    BY <1>6, <1>8
  <2>2. PICK c \in DOMAIN alerts :
          alerts[c].outcome = "failed" /\ p \in Elements(alerts[c].batch.permits)
    BY <1>6, <1>8
  <2>3. PICK i \in First(a)..Last(a) : p = Critical[i]
    BY <1>2, <2>1
  <2>4. PICK j \in First(c)..Last(c) : p = Critical[j]
    BY <1>2, <2>2
  <2>5. i = j
    BY <1>2, <1>5, <2>3, <2>4
  <2>6. a - 1 = c - 1
    BY <1>2, <2>5
  <2>7. a = c
    BY <1>4, <2>6
  <2> QED
    BY <2>1, <2>2, <2>7
<1> QED
  BY <1>7, <1>8

(***************************************************************************)
(* Of the critical alerts that the daily summary announces as sent, a      *)
(* finished run has named each permit in exactly one acknowledged alert or *)
(* exactly one failed one, or has left it beyond the cap, and its counts   *)
(* are those of its alerts (AnnouncedAlertsAreAccountedFor): for any day,  *)
(* batch size and cap, whatever fails and whatever runs beside it.         *)
(***************************************************************************)
THEOREM AnnouncedAlertsAddUp == Spec => []AnnouncedAlertsAreAccountedFor
<1>1. FilesInv /\ AlertsInv /\ CountsInv /\ ToldInv => AnnouncedAlertsAreAccountedFor
  <2> SUFFICES ASSUME FilesInv, AlertsInv, CountsInv, ToldInv, pc["process"] = "done"
               PROVE  AnnouncedAlertsAreAccountedFor
    BY DEF AnnouncedAlertsAreAccountedFor
  <2> DEFINE S == PermitsIn("sent")
             F == PermitsIn("failed")
             all == HowMany(CriticalOnes)
             alerted == Smaller(AlertCap, all)
  <2>1. S \cup F = Elements(Named) /\ S \cap F = {}
    BY PermitsAreDivided
  <2>2. Elements(Named) \subseteq CriticalOnes /\ Cardinality(Elements(Named)) = alerted
    BY NamedAreTheTop DEF MostValuable
  <2>3. IsFiniteSet(CriticalOnes) /\ all \in Nat
    <3> DEFINE C == CriticalOnes
    <3>1. portal \in Days /\ C \in SUBSET AllPermits
      BY DEF FilesInv, CriticalOnes
    <3> HIDE DEF C
    <3>2. IsFiniteSet(C) /\ HowMany(C) \in Nat
      BY <3>1, HowManyIs
    <3> QED
      BY <3>2 DEF C
  <2>4. alerted \in Nat
    BY <2>3, PermitsAssumption DEF Smaller
  <2>5. told["daily"].alerts = all
    <3>1. told["daily"].alerts = Len(TheProcessed.critical)
      BY DEF ToldInv, DailySummary
    <3>2. TheProcessed.critical = Critical
      BY DEF TheProcessed, process_permits, Critical
    <3>3. Len(Critical) = all
      BY CriticalRanks DEF FilesInv
    <3> QED
      BY <3>1, <3>2, <3>3
  <2> HIDE DEF S, F, all, alerted
  <2>6. Cardinality(S) + Cardinality(F) = alerted
    <3>1. IsFiniteSet(S) /\ IsFiniteSet(F)
      BY <2>1, <2>2, <2>3, FS_Subset
    <3>2. Cardinality(S \cup F) = Cardinality(S) + Cardinality(F) - Cardinality(S \cap F)
      BY <3>1, FS_Union
    <3>3. Cardinality(S) \in Nat /\ Cardinality(F) \in Nat
      BY <3>1, FS_CardinalityType
    <3>4. Cardinality({}) = 0
      BY FS_EmptySet
    <3>5. Cardinality(S \cup F) = alerted /\ Cardinality(S \cap F) = 0
      BY <2>1, <2>2, <3>4
    <3> QED
      BY <3>2, <3>3, <3>5
  <2>7. told["daily"].alerts = Cardinality(S) + Cardinality(F) + (all - alerted)
    <3>1. Cardinality(S) + Cardinality(F) + (all - alerted) = all
      BY <2>3, <2>4, <2>6
    <3> QED
      BY <2>5, <3>1
  <2> QED
    BY <2>1, <2>7 DEF AnnouncedAlertsAreAccountedFor, CountsInv, S, F, all, alerted
<1> QED
  BY <1>1, ToldInvariance, PTL

------------------------------------------------------------------------------
(***************************************************************************)
(* A digest that generate_digest.py has written to its end, from two files *)
(* that other scripts write, agrees with any day: its counts and totals    *)
(* are those of all permits, the two parts of its capped table are each    *)
(* the top of their own kind, its other tables and the register cover      *)
(* every permit once (DigestTellsTheDay).                                  *)
(***************************************************************************)
THEOREM DigestIsTrue == Spec => []DigestTellsTheDay
<1>1. FilesInv => DigestTellsTheDay
  <2> SUFFICES ASSUME FilesInv, pc["digest"] \in {"convert", "done"}
                 PROVE  DigestTold(file["markdown"])
    BY Zenon DEF DigestTellsTheDay, DigestTold
  <2>1. file["markdown"] = TheDigest /\ portal \in Days
    BY DEF FilesInv, NobodyWorksOnHalfAFile
  <2> QED
    BY <2>1, DigestTells
<1> QED
  BY <1>1, AlertsInvariance, PTL

==============================================================================
