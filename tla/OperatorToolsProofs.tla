------------------------- MODULE OperatorToolsProofs -------------------------
(***************************************************************************)
(* Proofs about UsageSummary, for any lines of the two logs in any order,  *)
(* and about the three parts of the operator's tools beside one another.   *)
(***************************************************************************)
EXTENDS MCOperatorTools, ClusterStatusProofs, EnvKeysProofs

(***************************************************************************)
(* The metrics log: what is taken of its lines, one after the other.       *)
(***************************************************************************)
UsageInv == access \in Seq(Lines) /\ metrics \in Seq(Samples)

(* The list of the first k names, by the one of the first k - 1.           *)
Listing(list, f, k) ==
  IF k = 0 THEN <<>>
  ELSE IF list[k] \in ToolModels THEN f[k - 1] ELSE Append(f[k - 1], list[k])

LEMMA ListingExists ==
  ASSUME NEW list, NEW n \in Nat
  PROVE  \E f : f = [k \in 0..n |-> Listing(list, f, k)]
<1> DEFINE Rec(f, m) == f = [k \in 0..m |-> Listing(list, f, k)]
           K == {m \in Nat : \E f : Rec(f, m)}
<1>1. 0 \in K
  <2> DEFINE g == [k \in 0..0 |-> <<>>]
  <2>1. Rec(g, 0)
    BY DEF Listing
  <2> HIDE DEF g, Rec
  <2> QED
    BY <2>1
<1>2. ASSUME NEW m \in Nat, m \in K PROVE m + 1 \in K
  <2>1. PICK f : Rec(f, m)
    BY <1>2
  <2> DEFINE g == [k \in 0..(m + 1) |-> Listing(list, f, k)]
  <2>2. \A k \in 0..m : g[k] = f[k]
    BY <2>1
  <2>3. ASSUME NEW k \in 0..(m + 1) PROVE Listing(list, f, k) = Listing(list, g, k)
    <3>1. k # 0 => k - 1 \in 0..m
      OBVIOUS
    <3> HIDE DEF g
    <3> QED
      BY <2>2, <3>1 DEF Listing
  <2>4. Rec(g, m + 1)
    BY <2>3
  <2> HIDE DEF g, Rec
  <2> QED
    BY <2>4
<1> HIDE DEF K
<1>3. \A m \in Nat : m \in K
  BY <1>1, <1>2, Counting
<1> QED
  BY <1>3 DEF K

LEMMA ModelsListed ==
  ASSUME NEW s, s.models \in Seq(STRING)
  PROVE  ModelsOf(s) \in Seq(STRING)
<1>1. PICK list : list = s.models
  OBVIOUS
<1>2. PICK n : n = Len(list)
  OBVIOUS
<1>3. n \in Nat /\ \A k \in 1..n : list[k] \in STRING
  BY <1>1, <1>2
<1> DEFINE first == CHOOSE f : f = [k \in 0..n |-> Listing(list, f, k)]
<1>4. ModelsOf(s) = IF list = NoList THEN <<>> ELSE first[n]
  BY <1>1, <1>2 DEF ModelsOf, Listing
<1>5. first = [k \in 0..n |-> Listing(list, first, k)]
  BY <1>3, ListingExists
<1> HIDE DEF first
<1> DEFINE K == {k \in Nat : k <= n => first[k] \in Seq(STRING)}
<1>6. 0 \in K
  BY <1>3, <1>5 DEF Listing
<1>7. ASSUME NEW k \in Nat, k \in K PROVE k + 1 \in K
  <2> SUFFICES ASSUME k + 1 <= n PROVE first[k + 1] \in Seq(STRING)
    OBVIOUS
  <2>1. k + 1 \in 1..n /\ k + 1 \in 0..n /\ k + 1 # 0 /\ (k + 1) - 1 = k /\ k <= n
    BY <1>3
  <2>2. first[k] \in Seq(STRING) /\ list[k + 1] \in STRING
    BY <1>3, <1>7, <2>1
  <2>3. first[k + 1] = Listing(list, first, k + 1)
    BY <1>5, <2>1
  <2>4. Listing(list, first, k + 1) =
          IF list[k + 1] \in ToolModels THEN first[k] ELSE Append(first[k], list[k + 1])
    BY <2>1 DEF Listing
  <2>5. PICK x, y : x = first[k] /\ y = list[k + 1]
    OBVIOUS
  <2>6. Append(x, y) \in Seq(STRING)
    BY <2>2, <2>5
  <2>7. first[k + 1] \in {x, Append(x, y)}
    BY <2>3, <2>4, <2>5
  <2> QED
    BY <2>2, <2>5, <2>6, <2>7
<1> HIDE DEF K
<1>8. \A k \in Nat : k \in K
  BY <1>6, <1>7, Counting
<1>9. first[n] \in Seq(STRING) /\ <<>> \in Seq(STRING)
  BY <1>3, <1>8 DEF K
<1> QED
  BY <1>4, <1>9
-----------------------------------------------------------------------------
(* What is taken of the lines T up to k, by what is of those up to k - 1.  *)
Taking(file, T, f, k) ==
  IF k = 0 THEN Nothing ELSE IF k \in T THEN Take(f[k - 1], file[k]) ELSE f[k - 1]

LEMMA TakingExists ==
  ASSUME NEW file, NEW T, NEW n \in Nat
  PROVE  \E f : f = [k \in 0..n |-> Taking(file, T, f, k)]
<1> DEFINE Rec(f, m) == f = [k \in 0..m |-> Taking(file, T, f, k)]
           K == {m \in Nat : \E f : Rec(f, m)}
<1>1. 0 \in K
  <2> DEFINE g == [k \in 0..0 |-> Nothing]
  <2>1. Rec(g, 0)
    BY DEF Taking
  <2> HIDE DEF g, Rec
  <2> QED
    BY <2>1
<1>2. ASSUME NEW m \in Nat, m \in K PROVE m + 1 \in K
  <2>1. PICK f : Rec(f, m)
    BY <1>2
  <2> DEFINE g == [k \in 0..(m + 1) |-> Taking(file, T, f, k)]
  <2>2. \A k \in 0..m : g[k] = f[k]
    BY <2>1
  <2>3. ASSUME NEW k \in 0..(m + 1) PROVE Taking(file, T, f, k) = Taking(file, T, g, k)
    <3>1. k # 0 => k - 1 \in 0..m
      OBVIOUS
    <3> HIDE DEF g
    <3> QED
      BY <2>2, <3>1 DEF Taking
  <2>4. Rec(g, m + 1)
    BY <2>3
  <2> HIDE DEF g, Rec
  <2> QED
    BY <2>4
<1> HIDE DEF K
<1>3. \A m \in Nat : m \in K
  BY <1>1, <1>2, Counting
<1> QED
  BY <1>3 DEF K

(* The samples of a node that count, among the first k lines; the newest   *)
(* of some lines; what is shown of it.                                     *)
Mine(file, T, n, k) == {i \in T : i <= k /\ file[i].node = n /\ Useful(file[i])}

Newest(file, S, i) ==
  \A j \in S : \/ file[j].at < file[i].at
               \/ file[j].at = file[i].at /\ j <= i

Shown(hot, file, n, i) ==
  /\ hot.latest[n] = file[i].at
  /\ n \in DOMAIN hot.count /\ hot.count[n] = CountOf(file[i])
  /\ ModelsOf(file[i]) # <<>> =>
       n \in DOMAIN hot.models /\ hot.models[n] = ModelsOf(file[i])

Shows(hot, file, S, n) ==
  /\ n \in DOMAIN hot.latest <=> S # {}
  /\ S # {} => \E i \in S : Newest(file, S, i) /\ Shown(hot, file, n, i)

(* What a line of another node, or one that does not count, does to a node *)
(* is nothing; one that is taken is shown.                                 *)
LEMMA TakeElsewhere ==
  ASSUME NEW hot, NEW s, NEW n, s.node # n \/ ~Useful(s), NEW file, NEW S,
         Shows(hot, file, S, n)
  PROVE  Shows(Take(hot, s), file, S, n)
<1>1. CASE Take(hot, s) = hot
  BY <1>1
<1>2. CASE Take(hot, s) # hot
  <2>1. s.node # n
    BY <1>2 DEF Take
  <2> DEFINE next == Take(hot, s)
  <2>2. /\ next.latest = Set(hot.latest, s.node, s.at)
        /\ next.models \in {hot.models, Set(hot.models, s.node, ModelsOf(s))}
        /\ next.count \in {hot.count, Set(hot.count, s.node, CountOf(s))}
    BY <1>2 DEF Take
  <2>3. /\ n \in DOMAIN next.latest <=> n \in DOMAIN hot.latest
        /\ n \in DOMAIN hot.latest => next.latest[n] = hot.latest[n]
    BY <2>1, <2>2 DEF Set
  <2>4. ASSUME NEW f, NEW v
        PROVE  n \in DOMAIN f => n \in DOMAIN Set(f, s.node, v) /\ Set(f, s.node, v)[n] = f[n]
    BY <2>1 DEF Set
  <2> HIDE DEF next
  <2>5. /\ n \in DOMAIN hot.models =>
             n \in DOMAIN next.models /\ next.models[n] = hot.models[n]
        /\ n \in DOMAIN hot.count =>
             n \in DOMAIN next.count /\ next.count[n] = hot.count[n]
    BY <2>2, <2>4
  <2>6. ASSUME NEW i \in S, Newest(file, S, i) /\ Shown(hot, file, n, i), n \in DOMAIN hot.latest
        PROVE  Newest(file, S, i) /\ Shown(next, file, n, i)
    BY <2>3, <2>5, <2>6 DEF Shown
  <2>7. Shows(next, file, S, n)
    BY <2>3, <2>6 DEF Shows
  <2> QED
    BY <2>7 DEF next
<1> QED
  BY <1>1, <1>2

LEMMA TakeShown ==
  ASSUME NEW hot, NEW s, Useful(s), CountOf(s) # NoCount, NEW file, NEW i, file[i] = s
  PROVE  LET next == Take(hot, s)
         IN  Supersedes(hot.latest, s) =>
               s.node \in DOMAIN next.latest /\ Shown(next, file, s.node, i)
<1> DEFINE next == Take(hot, s)
<1> SUFFICES ASSUME Supersedes(hot.latest, s)
             PROVE  s.node \in DOMAIN next.latest /\ Shown(next, file, s.node, i)
  OBVIOUS
<1>1. /\ next.latest = Set(hot.latest, s.node, s.at)
      /\ next.count = Set(hot.count, s.node, CountOf(s))
      /\ ModelsOf(s) # <<>> => next.models = Set(hot.models, s.node, ModelsOf(s))
  BY DEF Take
<1>2. ASSUME NEW f, NEW v
      PROVE  s.node \in DOMAIN Set(f, s.node, v) /\ Set(f, s.node, v)[s.node] = v
  BY DEF Set
<1> HIDE DEF next
<1> QED
  BY <1>1, <1>2 DEF Shown

(* One more line leaves the newest of a node's samples shown.              *)
LEMMA TakeShows ==
  ASSUME NEW file, NEW T \in SUBSET Nat, NEW n, NEW k \in Nat, k + 1 \in T, NEW hot,
         \A i \in T : file[i].at \in Nat /\ (Useful(file[i]) => CountOf(file[i]) # NoCount),
         \A i \in Mine(file, T, n, k + 1) : file[i].at # 0,
         Shows(hot, file, Mine(file, T, n, k), n)
  PROVE  Shows(Take(hot, file[k + 1]), file, Mine(file, T, n, k + 1), n)
<1> DEFINE s == file[k + 1]
           S == Mine(file, T, n, k)
           next == Take(hot, s)
<1>0. \A i \in T : i \in Nat /\ (i <= k + 1 <=> i <= k \/ i = k + 1)
  OBVIOUS
<1>1. CASE s.node # n \/ ~Useful(s)
  <2>1. Mine(file, T, n, k + 1) = S
    BY <1>0, <1>1 DEF Mine
  <2> QED
    BY <1>1, <2>1, TakeElsewhere
<1>2. CASE s.node = n /\ Useful(s)
  <2>1. /\ Mine(file, T, n, k + 1) = S \union {k + 1} /\ S \subseteq T
        /\ \A j \in S : j \in Nat /\ j <= k
    BY <1>0, <1>2 DEF Mine
  <2>2. /\ s.at \in Nat \ {0} /\ \A j \in S : file[j].at \in Nat \ {0}
        /\ CountOf(s) # NoCount
    BY <1>2, <2>1
  <2> HIDE DEF S
  <2>3. CASE Supersedes(hot.latest, s)
    <3>1. n \in DOMAIN next.latest /\ Shown(next, file, n, k + 1)
      BY <1>2, <2>2, <2>3, TakeShown
    <3>2. \A j \in S : s.at >= file[j].at
      <4>1. CASE S = {}
        BY <4>1
      <4>2. CASE S # {}
        <5>1. PICK i \in S : Newest(file, S, i) /\ hot.latest[n] = file[i].at
          BY <4>2 DEF Shows, Shown, S
        <5>2. n \in DOMAIN hot.latest
          BY <4>2 DEF Shows, S
        <5>3. s.at >= file[i].at
          BY <1>2, <2>2, <2>3, <5>1, <5>2 DEF Supersedes
        <5>4. \A j \in S : file[j].at <= file[i].at
          BY <2>2, <5>1 DEF Newest
        <5> QED
          BY <2>2, <5>3, <5>4
      <4> QED
        BY <4>1, <4>2
    <3>3. Newest(file, S \union {k + 1}, k + 1)
      BY <2>1, <2>2, <3>2 DEF Newest
    <3> HIDE DEF next
    <3>4. Shows(next, file, S \union {k + 1}, n)
      BY <3>1, <3>3 DEF Shows
    <3> QED
      BY <2>1, <3>4 DEF next
  <2>4. CASE ~Supersedes(hot.latest, s)
    <3>2. n \in DOMAIN hot.latest
      BY <1>2, <2>4 DEF Supersedes
    <3>3. PICK i \in S : Newest(file, S, i) /\ Shown(hot, file, n, i)
      BY <3>2 DEF Shows, S
    <3>4. s.at < file[i].at
      BY <1>2, <2>2, <2>4, <3>3 DEF Supersedes, Shown
    <3>5. Newest(file, S \union {k + 1}, i)
      BY <3>3, <3>4 DEF Newest
    <3>6. Shows(hot, file, S \union {k + 1}, n)
      BY <3>2, <3>3, <3>5 DEF Shows
    <3>7. Take(hot, s) = hot
      BY <2>4 DEF Take
    <3> QED
      BY <2>1, <3>6, <3>7
  <2> QED
    BY <2>3, <2>4
<1> QED
  BY <1>1, <1>2

LEMMA TakenShows ==
  ASSUME NEW file, NEW m \in Nat, Len(file) = m, NEW T \in SUBSET (1..m), NEW n,
         \A i \in T : file[i].at \in Nat /\ (Useful(file[i]) => CountOf(file[i]) # NoCount),
         \A i \in Mine(file, T, n, m) : file[i].at # 0
  PROVE  Shows(TakenOf(file, T), file, Mine(file, T, n, m), n)
<1> DEFINE hot == CHOOSE f : f = [k \in 0..m |-> Taking(file, T, f, k)]
<1>1. TakenOf(file, T) = hot[m]
  BY DEF TakenOf, Taking
<1>2. hot = [k \in 0..m |-> Taking(file, T, hot, k)]
  BY TakingExists
<1> HIDE DEF hot
<1> DEFINE K == {k \in Nat : k <= m => Shows(hot[k], file, Mine(file, T, n, k), n)}
<1>3. 0 \in K
  <2>1. Mine(file, T, n, 0) = {}
    <3>1. \A i \in T : ~(i <= 0)
      OBVIOUS
    <3> QED
      BY <3>1 DEF Mine
  <2>2. hot[0] = Nothing
    BY <1>2 DEF Taking
  <2>3. DOMAIN Nothing.latest = {}
    BY DEF Nothing
  <2> QED
    BY <2>1, <2>2, <2>3 DEF Shows
<1>4. ASSUME NEW k \in Nat, k \in K PROVE k + 1 \in K
  <2> SUFFICES ASSUME k + 1 <= m
               PROVE  Shows(hot[k + 1], file, Mine(file, T, n, k + 1), n)
    OBVIOUS
  <2>1. Shows(hot[k], file, Mine(file, T, n, k), n)
    BY <1>4
  <2>2. hot[k + 1] = IF k + 1 \in T THEN Take(hot[k], file[k + 1]) ELSE hot[k]
    <3>1. k + 1 \in 0..m /\ k + 1 # 0 /\ (k + 1) - 1 = k
      OBVIOUS
    <3>2. hot[k + 1] = Taking(file, T, hot, k + 1)
      BY <1>2, <3>1
    <3> QED
      BY <3>1, <3>2 DEF Taking
  <2>3. CASE k + 1 \in T
    <3>1. \A i \in Mine(file, T, n, k + 1) : file[i].at # 0
      <4>1. \A i \in T : i <= m
        OBVIOUS
      <4> QED
        BY <4>1 DEF Mine
    <3>2. T \in SUBSET Nat
      OBVIOUS
    <3>3. Shows(Take(hot[k], file[k + 1]), file, Mine(file, T, n, k + 1), n)
      BY <2>1, <2>3, <3>1, <3>2, TakeShows
    <3> QED
      BY <2>2, <2>3, <3>3
  <2>4. CASE k + 1 \notin T
    <3>1. Mine(file, T, n, k + 1) = Mine(file, T, n, k)
      <4>1. \A i \in T : i <= k + 1 <=> i <= k
        BY <2>4
      <4> QED
        BY <4>1 DEF Mine
    <3> QED
      BY <2>1, <2>2, <2>4, <3>1
  <2> QED
    BY <2>3, <2>4
<1> HIDE DEF K
<1>5. \A k \in Nat : k \in K
  BY <1>3, <1>4, Counting
<1> QED
  BY <1>1, <1>5 DEF K

(* A line that is not broken has the fields of its type.                   *)
LEMMA SampleTyped ==
  ASSUME NEW s \in Samples, s # Broken
  PROVE  s.at \in Nat /\ (Useful(s) => CountOf(s) # NoCount)
<1>1. s \in [at : Moments, node : STRING, models : Seq(STRING), count : Nat \union {NoCount}]
  BY UsageAssumption
<1>2. s.at \in Nat /\ s.models \in Seq(STRING)
  BY <1>1 DEF Moments
<1>3. Len(ModelsOf(s)) # NoCount
  <2>1. PICK list \in Seq(STRING) : list = ModelsOf(s)
    BY <1>2, ModelsListed
  <2>2. Len(list) \in Nat
    OBVIOUS
  <2> QED
    BY <2>1, <2>2 DEF NoCount
<1>4. s.models = NoList => ModelsOf(s) = <<>>
  BY DEF ModelsOf
<1> QED
  BY <1>2, <1>3, <1>4 DEF Useful, CountOf

MineIn(period, n) ==
  {i \in Within(metrics, period) : metrics[i].node = n /\ Useful(metrics[i])}

LEMMA NewestOfNode ==
  ASSUME UsageInv, NEW period, NEW n, NEW S, S = MineIn(period, n),
         S # {}, \A i \in S : metrics[i].at # 0
  PROVE  \E i \in S : /\ \A k \in S : Newest(metrics, S, k) <=> k = i
                      /\ Shown(TakenOf(metrics, Within(metrics, period)), metrics, n, i)
<1>1. PICK m \in Nat : m = Len(metrics) /\ DOMAIN metrics = 1..m
  BY DEF UsageInv
<1>2. PICK T : T = Within(metrics, period)
  OBVIOUS
<1>3. T \in SUBSET (1..m) /\ \A i \in T : metrics[i] \in Samples /\ metrics[i] # Broken
  BY <1>1, <1>2 DEF Within, BrokenIn, UsageInv
<1>4. \A i \in T : metrics[i].at \in Nat /\ (Useful(metrics[i]) => CountOf(metrics[i]) # NoCount)
  BY <1>3, SampleTyped
<1>5. S = Mine(metrics, T, n, m)
  <2>1. \A i \in T : i <= m
    BY <1>3
  <2> QED
    BY <1>2, <2>1 DEF Mine, MineIn
<1>6. Shows(TakenOf(metrics, T), metrics, S, n)
  BY <1>1, <1>3, <1>4, <1>5, TakenShows
<1>7. PICK i \in S : Newest(metrics, S, i) /\ Shown(TakenOf(metrics, T), metrics, n, i)
  BY <1>6 DEF Shows
<1>8. \A j \in S : j \in Nat /\ metrics[j].at \in Nat
  BY <1>3, <1>4, <1>5 DEF Mine
<1>9. ASSUME NEW k \in S, Newest(metrics, S, k) PROVE k = i
  BY <1>7, <1>8, <1>9 DEF Newest
<1> QED
  BY <1>2, <1>7, <1>9

LEMMA NewestShown ==
  ASSUME UsageInv
  PROVE  NewestSampleShown
<1>1. ASSUME NEW period, NEW n, MineIn(period, n) # {},
             \A i \in MineIn(period, n) : metrics[i].at # 0
      PROVE  LET S == MineIn(period, n)
                 hot == usage_report(period).nodes
                 s == metrics[CHOOSE k \in S : Newest(metrics, S, k)]
             IN  /\ hot.hot_loaded_count[n] = CountOf(s)
                 /\ ModelsOf(s) # <<>> => /\ hot.hot_loaded_models[n] = ModelsOf(s)
                                         /\ Len(ModelsOf(s)) = hot.hot_loaded_count[n]
  <2> DEFINE hot == usage_report(period).nodes
             taken == TakenOf(metrics, Within(metrics, period))
             S == MineIn(period, n)
  <2>1. usage_report(period).nodes = ofNodes(metrics, period)
    BY DEF usage_report, summarize_daily_usage
  <2>2. hot.hot_loaded_count = taken.count /\ hot.hot_loaded_models = taken.models
    <3>1. ofNodes(metrics, period).hot_loaded_count = taken.count
      BY Zenon DEF ofNodes
    <3>2. ofNodes(metrics, period).hot_loaded_models = taken.models
      BY Zenon DEF ofNodes
    <3> QED
      BY <2>1, <3>1, <3>2
  <2> HIDE DEF S
  <2>3. PICK i \in S : /\ \A k \in S : Newest(metrics, S, k) <=> k = i
                       /\ Shown(taken, metrics, n, i)
    BY <1>1, NewestOfNode DEF S
  <2>4. (CHOOSE k \in S : Newest(metrics, S, k)) = i
    BY <2>3
  <2>5. ModelsOf(metrics[i]) # <<>> => Len(ModelsOf(metrics[i])) = CountOf(metrics[i])
    <3>1. metrics[i].models = NoList => ModelsOf(metrics[i]) = <<>>
      BY DEF ModelsOf
    <3> QED
      BY <3>1 DEF CountOf
  <2> HIDE DEF hot, taken
  <2>6. LET s == metrics[i]
        IN  /\ hot.hot_loaded_count[n] = CountOf(s)
            /\ ModelsOf(s) # <<>> => /\ hot.hot_loaded_models[n] = ModelsOf(s)
                                    /\ Len(ModelsOf(s)) = hot.hot_loaded_count[n]
    BY <2>2, <2>3, <2>5 DEF Shown
  <2> QED
    BY <2>4, <2>6 DEF hot, S
<1>2. SUFFICES
        \A period \in {All} \union {Day(s) : s \in Samples \ {Broken}} :
        \A n \in {metrics[i].node : i \in DOMAIN metrics \ BrokenIn(metrics)} \ {""} :
          MineIn(period, n) # {} /\ (\A i \in MineIn(period, n) : metrics[i].at # 0) =>
            LET S == MineIn(period, n)
                hot == usage_report(period).nodes
                s == metrics[CHOOSE k \in S : Newest(metrics, S, k)]
            IN  /\ hot.hot_loaded_count[n] = CountOf(s)
                /\ ModelsOf(s) # <<>> => /\ hot.hot_loaded_models[n] = ModelsOf(s)
                                        /\ Len(ModelsOf(s)) = hot.hot_loaded_count[n]
  BY DEF NewestSampleShown, MineIn, Newest
<1> QED
  BY <1>1
-----------------------------------------------------------------------------
(***************************************************************************)
(* The access log.  The classes of a finite set count together what the    *)
(* set counts.                                                             *)
(***************************************************************************)
LEMMA Parts ==
  ASSUME NEW Q, IsFiniteSet(Q), NEW A \in SUBSET Q, NEW B \in SUBSET Q, A \cap B = {}, A \union B = Q
  PROVE  /\ Cardinality(A) \in Nat /\ Cardinality(B) \in Nat
         /\ Cardinality(Q) = Cardinality(A) + Cardinality(B)
<1>1. IsFiniteSet(A) /\ IsFiniteSet(B)
  BY FS_Subset
<1>2. Cardinality(A) \in Nat /\ Cardinality(B) \in Nat
  BY <1>1, FS_CardinalityType
<1>3. Cardinality(A \union B) = Cardinality(A) + Cardinality(B) - Cardinality(A \cap B)
  BY <1>1, FS_Union
<1>4. Cardinality({}) = 0
  BY FS_EmptySet
<1>5. A \cap B = {} /\ A \union B = Q
  OBVIOUS
<1>6. Cardinality(Q) = Cardinality(A) + Cardinality(B) - 0
  BY <1>3, <1>4, <1>5
<1> QED
  BY <1>2, <1>6

Classes(f, S, Q, at) == \A n \in S : f[n] = Cardinality({q \in Q : at[q] = n})

LEMMA SumCounts ==
  ASSUME NEW S, IsFiniteSet(S), NEW f, NEW Q, IsFiniteSet(Q), NEW at, Classes(f, S, Q, at)
  PROVE  SumFunctionOnSet(f, S) = Cardinality({q \in Q : at[q] \in S})
<1> DEFINE Within_(s) == {q \in Q : at[q] \in s}
<1>1. PICK g : SumFunctionOnSet(f, S) = g[S] /\ SumsUp(g, f, S)
  BY SumIs
<1> DEFINE T == {s \in SUBSET S : g[s] = Cardinality(Within_(s))}
<1>2. ASSUME NEW s \in SUBSET S, \A x \in s : s \ {x} \in T PROVE s \in T
  <2>1. CASE s = {}
    <3>1. Within_(s) = {}
      BY <2>1
    <3> QED
      BY <1>1, <2>1, <3>1, FS_EmptySet DEF SumsUp
  <2>2. CASE s # {}
    <3>1. PICK c \in s : c = Chosen(s)
      BY <2>2 DEF Chosen
    <3>2. g[s] = f[c] + g[s \ {c}]
      BY <1>1, <2>2, <3>1 DEF SumsUp
    <3>3. g[s \ {c}] = Cardinality(Within_(s \ {c}))
      BY <1>2
    <3> DEFINE C == Within_(s)
               A == {q \in Q : at[q] = c}
               B == Within_(s \ {c})
    <3>4. IsFiniteSet(C)
      BY FS_Subset
    <3>5. A \in SUBSET C /\ B \in SUBSET C /\ A \cap B = {} /\ A \union B = C
      OBVIOUS
    <3>6. f[c] = Cardinality(A)
      BY DEF Classes
    <3>7. g[s] = Cardinality(A) + Cardinality(B)
      BY <3>2, <3>3, <3>6
    <3> HIDE DEF A, B, C
    <3>8. Cardinality(C) = Cardinality(A) + Cardinality(B)
      BY ONLY <3>4, <3>5, Parts
    <3>9. g[s] = Cardinality(C)
      BY <3>7, <3>8
    <3> QED
      BY <3>9 DEF C
  <2> QED
    BY <2>1, <2>2
<1>3. \A s \in SUBSET S : s \in T
  <2> HIDE DEF T
  <2> QED
    BY <1>2, Growing
<1> QED
  BY <1>1, <1>3

(* A tally has no entry for the empty classes.                             *)
Tally(key, S) == [k \in {key[i] : i \in S} |-> Cardinality({i \in S : key[i] = k})]

LEMMA TallyIn ==
  ASSUME NEW S, NEW key
  PROVE  \A k : In(Tally(key, S), k) = Cardinality({i \in S : key[i] = k})
<1> SUFFICES ASSUME NEW k, k \notin DOMAIN Tally(key, S)
             PROVE  Cardinality({i \in S : key[i] = k}) = 0
  BY DEF In, Tally
<1>1. {i \in S : key[i] = k} = {}
  BY DEF Tally
<1> QED
  BY <1>1, FS_EmptySet

(* Which lines of a log are requests, and of which day.                    *)
IsRequest(l) ==
  /\ l.client # "" /\ ~(KnownOnly /\ l.client = "unauthenticated")
  /\ l.latency # NoLatency

Of(period) == Requested(access, Within(access, period))

LEMMA RequestsOf ==
  ASSUME NEW file, NEW S PROVE Requested(file, S) = {i \in S : IsRequest(file[i])}
  BY DEF Requested, Nameless, Skipped, Unmeasured, IsRequest

LEMMA RecordTyped ==
  ASSUME UsageInv
  PROVE  \E m \in Nat :
           /\ m = Len(access) /\ DOMAIN access = 1..m /\ IsFiniteSet(1..m) /\ Cardinality(1..m) = m
           /\ \A i \in 1..m \ BrokenIn(access) :
                access[i].at \in Moments /\ access[i].latency \in Int
<1>1. PICK m \in Nat : m = Len(access) /\ DOMAIN access = 1..m
  BY DEF UsageInv
<1>2. IsFiniteSet(1..m) /\ Cardinality(1..m) = m
  BY FS_Interval
<1>3. ASSUME NEW i \in 1..m \ BrokenIn(access)
      PROVE  access[i].at \in Moments /\ access[i].latency \in Int
  <2>1. access[i] \in Lines \ {Broken}
    BY <1>1 DEF BrokenIn, UsageInv
  <2>2. access[i] \in [at : Moments, client : STRING, latency : Nat \union {NoLatency},
                       model : STRING, endpoint : Seq(STRING), status : Nat]
    BY <2>1, UsageAssumption
  <2> QED
    BY <2>2 DEF NoLatency
<1> QED
  BY <1>1, <1>2, <1>3

LEMMA DayOf ==
  ASSUME NEW l, l.at \in Moments
  PROVE  Day(l) \in Nat /\ (Day(l) = 0 <=> l.at = 0) /\ (l.at # 0 => Hour(l) # Unknown)
<1>1. l.at \in Nat /\ (l.at = 0 \/ l.at >= 10)
  BY DEF Moments
<1> QED
  BY <1>1 DEF Day, Hour, Unknown

(* The tallies of the report, by keys of the lines.                        *)
Clients_ == [i \in DOMAIN access |-> access[i].client]
Hours == [i \in DOMAIN access |-> Hour(access[i])]
Days == [i \in DOMAIN access |-> Day(access[i])]
Places ==
  [i \in DOMAIN access |->
     <<_derive_node_id_from_olla_endpoint(access[i].endpoint), Hour(access[i])>>]

Placed_(period) == {i \in Of(period) : access[i].endpoint # <<>> /\ access[i].at # 0}

LEMMA OfIn == \A period : Of(period) \subseteq DOMAIN access
BY DEF Of, Requested, Within

LEMMA ReportOf ==
  ASSUME NEW period
  PROVE  LET requests == usage_report(period).requests
         IN  /\ requests.total = Cardinality(Of(period))
             /\ requests.user = Tally(Clients_, Of(period))
             /\ requests.hour = Tally(Hours, Of(period))
             /\ requests.nodeHour = Tally(Places, Placed_(period))
             /\ requests.invalid = Cardinality(BrokenIn(access)
                                     \union Nameless(access, Within(access, period))
                                     \union Unmeasured(access, Within(access, period)))
<1>1. usage_report(period).requests = ofRequests(access, period)
  BY DEF usage_report, summarize_daily_usage
<1>2. ofRequests(access, period).total = Cardinality(Of(period))
  BY Zenon DEF ofRequests, Of
<1>3. ofRequests(access, period).invalid = Cardinality(BrokenIn(access)
                                     \union Nameless(access, Within(access, period))
                                     \union Unmeasured(access, Within(access, period)))
  BY Zenon DEF ofRequests
<1>4. ofRequests(access, period).user =
        [k \in {access[i].client : i \in Of(period)} |->
           Cardinality({i \in Of(period) : access[i].client = k})]
  BY Zenon DEF ofRequests, Of, Count
<1>5. ofRequests(access, period).hour =
        [k \in {Hour(access[i]) : i \in Of(period)} |->
           Cardinality({i \in Of(period) : Hour(access[i]) = k})]
  BY Zenon DEF ofRequests, Of, Count
<1>6. ofRequests(access, period).nodeHour =
        LET N == {j \in {i \in Of(period) : access[i].endpoint # <<>>} : access[j].at # 0}
            place(i) == <<_derive_node_id_from_olla_endpoint(access[i].endpoint), Hour(access[i])>>
        IN  [k \in {place(i) : i \in N} |-> Cardinality({i \in N : place(i) = k})]
  BY Zenon DEF ofRequests, Of, Count
<1>7. Placed_(period) = {j \in {i \in Of(period) : access[i].endpoint # <<>>} : access[j].at # 0}
  BY DEF Placed_
<1>8. /\ \A i \in Of(period) : /\ Clients_[i] = access[i].client
                               /\ Hours[i] = Hour(access[i])
      /\ \A i \in Placed_(period) : Places[i] =
           <<_derive_node_id_from_olla_endpoint(access[i].endpoint), Hour(access[i])>>
  BY OfIn DEF Clients_, Hours, Places, Placed_
<1>9. ofRequests(access, period).user = Tally(Clients_, Of(period))
  <2>1. {access[i].client : i \in Of(period)} = {Clients_[i] : i \in Of(period)}
    BY <1>8
  <2>2. ASSUME NEW k
        PROVE  {i \in Of(period) : access[i].client = k} = {i \in Of(period) : Clients_[i] = k}
    BY <1>8
  <2> QED
    BY <1>4, <2>1, <2>2 DEF Tally
<1>10. ofRequests(access, period).hour = Tally(Hours, Of(period))
  <2>1. {Hour(access[i]) : i \in Of(period)} = {Hours[i] : i \in Of(period)}
    BY <1>8
  <2>2. ASSUME NEW k
        PROVE  {i \in Of(period) : Hour(access[i]) = k} = {i \in Of(period) : Hours[i] = k}
    BY <1>8
  <2> QED
    BY <1>5, <2>1, <2>2 DEF Tally
<1>11. ofRequests(access, period).nodeHour = Tally(Places, Placed_(period))
  <2> DEFINE place(i) ==
        <<_derive_node_id_from_olla_endpoint(access[i].endpoint), Hour(access[i])>>
  <2>1. ofRequests(access, period).nodeHour =
          [k \in {place(i) : i \in Placed_(period)} |->
             Cardinality({i \in Placed_(period) : place(i) = k})]
    BY <1>6, <1>7
  <2>2. \A i \in Placed_(period) : Places[i] = place(i)
    BY <1>8
  <2> HIDE DEF place
  <2>3. {place(i) : i \in Placed_(period)} = {Places[i] : i \in Placed_(period)}
    BY <2>2
  <2>4. ASSUME NEW k
        PROVE  {i \in Placed_(period) : place(i) = k} = {i \in Placed_(period) : Places[i] = k}
    BY <2>2
  <2> QED
    BY <2>1, <2>3, <2>4 DEF Tally
<1> QED
  BY <1>1, <1>2, <1>3, <1>9, <1>10, <1>11

(* A day's requests are those of all whose day it is; each request has a   *)
(* day of the log, or no timestamp.                                        *)
DaySet == {Day(l) : l \in {access[i] : i \in DOMAIN access \ BrokenIn(access)}} \ {0}

LEMMA DaySplit ==
  ASSUME UsageInv
  PROVE  /\ IsFiniteSet(DaySet) /\ IsFiniteSet(Of(All))
         /\ \A i \in Of(All) : /\ access[i].at \in Moments
                               /\ access[i].at # 0 <=> Day(access[i]) \in DaySet
         /\ \A d \in DaySet : d # 0 /\ Of(d) = {i \in Of(All) : Day(access[i]) = d}
<1>1. PICK m \in Nat :
        /\ m = Len(access) /\ DOMAIN access = 1..m /\ IsFiniteSet(1..m)
        /\ \A i \in 1..m \ BrokenIn(access) : access[i].at \in Moments
  BY RecordTyped
<1> DEFINE D == DOMAIN access \ BrokenIn(access)
           days == {Day(access[i]) : i \in D}
<1>2. IsFiniteSet(D) /\ D \subseteq 1..m
  BY <1>1, FS_Subset
<1>3. IsFiniteSet(days)
  <2> DEFINE f == [i \in D |-> Day(access[i])]
  <2>1. f \in Surjection(D, days)
    BY DEF Surjection
  <2> HIDE DEF D, f, days
  <2> QED
    BY <1>2, <2>1, FS_Surjection
<1>4. DaySet = days \ {0}
  BY DEF DaySet
<1>5. IsFiniteSet(DaySet)
  <2> HIDE DEF days
  <2> QED
    BY <1>3, <1>4, FS_Subset
<1>6. Of(All) = {i \in D : IsRequest(access[i])}
  BY RequestsOf DEF Of, Within
<1>7. IsFiniteSet(Of(All))
  BY <1>2, <1>6, FS_Subset
<1>8. ASSUME NEW i \in Of(All)
      PROVE  access[i].at \in Moments /\ (access[i].at # 0 <=> Day(access[i]) \in DaySet)
  <2>1. i \in D /\ access[i].at \in Moments
    BY <1>1, <1>6
  <2>2. Day(access[i]) \in days /\ (Day(access[i]) = 0 <=> access[i].at = 0)
    BY <2>1, DayOf
  <2> HIDE DEF days
  <2> QED
    BY <1>4, <2>1, <2>2
<1>9. ASSUME NEW d \in DaySet PROVE d # 0 /\ Of(d) = {i \in Of(All) : Day(access[i]) = d}
  <2>1. d # 0
    BY DEF DaySet
  <2> QED
    BY <1>6, <2>1, RequestsOf DEF Of, Within, All
<1> QED
  BY <1>5, <1>7, <1>8, <1>9

LEMMA DaysSum ==
  ASSUME UsageInv, NEW X \in SUBSET Of(All), NEW f,
         \A d \in DaySet : f[d] = Cardinality({i \in X : Day(access[i]) = d})
  PROVE  /\ SumFunctionOnSet(f, DaySet) \in Nat
         /\ Cardinality({i \in X : access[i].at = 0}) \in Nat
         /\ Cardinality(X) = SumFunctionOnSet(f, DaySet)
                               + Cardinality({i \in X : access[i].at = 0})
<1>1. PICK S, day, Q : S = DaySet /\ day = Days /\ Q = X
  OBVIOUS
<1>2. IsFiniteSet(S) /\ IsFiniteSet(Q)
  BY <1>1, DaySplit, FS_Subset
<1>3. \A i \in Q : day[i] = Day(access[i]) /\ (access[i].at # 0 <=> day[i] \in S)
  BY <1>1, DaySplit, OfIn DEF Days
<1>4. PICK A, B : A = {i \in Q : day[i] \in S} /\ B = {i \in Q : access[i].at = 0}
  OBVIOUS
<1>5. Classes(f, S, Q, day)
  <2> SUFFICES ASSUME NEW d \in S
               PROVE  {i \in Q : Day(access[i]) = d} = {i \in Q : day[i] = d}
    BY <1>1 DEF Classes
  <2> QED
    BY <1>3
<1>6. SumFunctionOnSet(f, S) = Cardinality({i \in Q : day[i] \in S})
  BY ONLY <1>2, <1>5, SumCounts
<1>7. A \in SUBSET Q /\ B \in SUBSET Q /\ A \cap B = {} /\ A \union B = Q
  BY <1>3, <1>4
<1>8. /\ Cardinality(A) \in Nat /\ Cardinality(B) \in Nat
      /\ Cardinality(Q) = Cardinality(A) + Cardinality(B)
  BY ONLY <1>2, <1>7, Parts
<1> QED
  BY <1>1, <1>4, <1>6, <1>8

LEMMA DaysTold ==
  ASSUME UsageInv
  PROVE  DaysAddUp
<1> DEFINE R(p) == usage_report(p).requests
           of == [d \in DaySet |-> R(d)]
           undated == Requested(access, {i \in Within(access, All) : access[i].at = 0})
<1>1. ASSUME NEW p
      PROVE  /\ R(p).total = Cardinality(Of(p))
             /\ R(p).user = Tally(Clients_, Of(p))
             /\ R(p).hour = Tally(Hours, Of(p))
             /\ R(p).nodeHour = Tally(Places, Placed_(p))
  BY ReportOf
<1> HIDE DEF R
<1>2. undated = {i \in Of(All) : access[i].at = 0}
  BY RequestsOf DEF Of
<1>3. \A d \in DaySet : Of(d) = {i \in Of(All) : Day(access[i]) = d}
  BY DaySplit
<1>4. \A p : \A i \in Of(p) : /\ Clients_[i] = access[i].client /\ Hours[i] = Hour(access[i])
                              /\ i \in DOMAIN access
  BY OfIn DEF Clients_, Hours
<1>5. R(All).total = Sum(LAMBDA d : of[d].total, DaySet) + Cardinality(undated)
  <2> DEFINE f == [d \in DaySet |-> of[d].total]
  <2>1. \A d \in DaySet : f[d] = Cardinality({i \in Of(All) : Day(access[i]) = d})
    BY <1>1, <1>3
  <2>2. Sum(LAMBDA d : of[d].total, DaySet) = SumFunctionOnSet(f, DaySet)
    BY DEF Sum
  <2> HIDE DEF f
  <2>3. Cardinality(Of(All)) = SumFunctionOnSet(f, DaySet)
                                 + Cardinality({i \in Of(All) : access[i].at = 0})
    BY <2>1, DaysSum
  <2> QED
    BY <1>1, <1>2, <2>2, <2>3
<1>6. ASSUME NEW c \in DOMAIN R(All).user
      PROVE  R(All).user[c] = Sum(LAMBDA d : In(of[d].user, c), DaySet)
                                + Cardinality({i \in undated : access[i].client = c})
  <2> DEFINE f == [d \in DaySet |-> In(of[d].user, c)]
             X == {i \in Of(All) : Clients_[i] = c}
  <2>1. \A d \in DaySet : f[d] = Cardinality({i \in X : Day(access[i]) = d})
    <3> SUFFICES ASSUME NEW d \in DaySet PROVE f[d] = Cardinality({i \in X : Day(access[i]) = d})
      OBVIOUS
    <3>1. f[d] = In(Tally(Clients_, Of(d)), c)
      BY <1>1
    <3>2. {i \in Of(d) : Clients_[i] = c} = {i \in X : Day(access[i]) = d}
      BY <1>3
    <3> QED
      BY <3>1, <3>2, TallyIn
  <2>2. Sum(LAMBDA d : In(of[d].user, c), DaySet) = SumFunctionOnSet(f, DaySet)
    BY DEF Sum
  <2>3. R(All).user[c] = Cardinality(X)
    BY <1>1, TallyIn DEF In
  <2> HIDE DEF f
  <2>4. {i \in X : access[i].at = 0} = {i \in undated : access[i].client = c}
    BY <1>2, <1>4
  <2>5. X \in SUBSET Of(All)
    OBVIOUS
  <2> HIDE DEF X, undated
  <2>6. Cardinality(X) = SumFunctionOnSet(f, DaySet) + Cardinality({i \in X : access[i].at = 0})
    BY <2>1, <2>5, DaysSum
  <2> QED
    BY <2>2, <2>3, <2>4, <2>6
<1>7. ASSUME NEW e \in DOMAIN R(All).hour \ {Unknown}
      PROVE  R(All).hour[e] = Sum(LAMBDA d : In(of[d].hour, e), DaySet)
  <2> DEFINE f == [d \in DaySet |-> In(of[d].hour, e)]
             X == {i \in Of(All) : Hours[i] = e}
  <2>1. \A d \in DaySet : f[d] = Cardinality({i \in X : Day(access[i]) = d})
    <3> SUFFICES ASSUME NEW d \in DaySet PROVE f[d] = Cardinality({i \in X : Day(access[i]) = d})
      OBVIOUS
    <3>1. f[d] = In(Tally(Hours, Of(d)), e)
      BY <1>1
    <3>2. {i \in Of(d) : Hours[i] = e} = {i \in X : Day(access[i]) = d}
      BY <1>3
    <3> QED
      BY <3>1, <3>2, TallyIn
  <2>2. Sum(LAMBDA d : In(of[d].hour, e), DaySet) = SumFunctionOnSet(f, DaySet)
    BY DEF Sum
  <2>3. R(All).hour[e] = Cardinality(X)
    BY <1>1, TallyIn DEF In
  <2> HIDE DEF f
  <2>4. {i \in X : access[i].at = 0} = {}
    BY <1>4 DEF Hour
  <2>5. X \in SUBSET Of(All)
    OBVIOUS
  <2> HIDE DEF X
  <2>6. /\ SumFunctionOnSet(f, DaySet) \in Nat
        /\ Cardinality(X) = SumFunctionOnSet(f, DaySet) + Cardinality({i \in X : access[i].at = 0})
    BY <2>1, <2>5, DaysSum
  <2>7. Cardinality({i \in X : access[i].at = 0}) = 0
    BY <2>4, FS_EmptySet
  <2> QED
    BY <2>2, <2>3, <2>6, <2>7
<1>8. ASSUME NEW n \in DOMAIN R(All).nodeHour
      PROVE  R(All).nodeHour[n] = Sum(LAMBDA d : In(of[d].nodeHour, n), DaySet)
  <2> DEFINE f == [d \in DaySet |-> In(of[d].nodeHour, n)]
             X == {i \in Placed_(All) : Places[i] = n}
  <2>1. \A d \in DaySet : f[d] = Cardinality({i \in X : Day(access[i]) = d})
    <3> SUFFICES ASSUME NEW d \in DaySet PROVE f[d] = Cardinality({i \in X : Day(access[i]) = d})
      OBVIOUS
    <3>1. f[d] = In(Tally(Places, Placed_(d)), n)
      BY <1>1
    <3>2. {i \in Placed_(d) : Places[i] = n} = {i \in X : Day(access[i]) = d}
      BY <1>3 DEF Placed_
    <3> QED
      BY <3>1, <3>2, TallyIn
  <2>2. Sum(LAMBDA d : In(of[d].nodeHour, n), DaySet) = SumFunctionOnSet(f, DaySet)
    BY DEF Sum
  <2>3. R(All).nodeHour[n] = Cardinality(X)
    BY <1>1, TallyIn DEF In
  <2> HIDE DEF f
  <2>4. {i \in X : access[i].at = 0} = {}
    BY DEF Placed_
  <2>5. X \in SUBSET Of(All)
    BY DEF Placed_
  <2> HIDE DEF X
  <2>6. /\ SumFunctionOnSet(f, DaySet) \in Nat
        /\ Cardinality(X) = SumFunctionOnSet(f, DaySet) + Cardinality({i \in X : access[i].at = 0})
    BY <2>1, <2>5, DaysSum
  <2>7. Cardinality({i \in X : access[i].at = 0}) = 0
    BY <2>4, FS_EmptySet
  <2> QED
    BY <2>2, <2>3, <2>6, <2>7
<1>9. ASSUME NEW d \in DaySet PROVE Unknown \notin DOMAIN of[d].hour
  <2>1. DOMAIN of[d].hour = {Hours[i] : i \in Of(d)}
    BY <1>1 DEF Tally
  <2>2. ASSUME NEW i \in Of(d) PROVE Hours[i] # Unknown
    <3>1. i \in Of(All) /\ access[i].at \in Moments /\ access[i].at # 0
      BY <1>3, DaySplit
    <3> QED
      BY <1>4, <3>1, DayOf
  <2> QED
    BY <2>1, <2>2
<1> HIDE DEF undated
<1> QED
  BY <1>5, <1>6, <1>7, <1>8, <1>9 DEF DaysAddUp, R, DaySet, undated

(* `edge usage`: its client counts, and the lines of the log it counts.    *)
LEMMA EdgeOf ==
  /\ edge_usage.requests = Cardinality(Accounted(access))
  /\ edge_usage.invalid = Len(access) - Cardinality(Accounted(access))
  /\ DOMAIN edge_usage.clients = {access[i].client : i \in Accounted(access)}
  /\ \A c \in DOMAIN edge_usage.clients :
       LET T == {i \in Accounted(access) : access[i].client = c}
       IN  /\ edge_usage.clients[c].requests = Cardinality(T)
           /\ edge_usage.clients[c].p50 = _nearest_rank_percentile(LatenciesOf(access, T), 50)
           /\ edge_usage.clients[c].p95 = _nearest_rank_percentile(LatenciesOf(access, T), 95)
<1> DEFINE S == Accounted(access)
           of(c) == {i \in S : access[i].client = c}
           summary(T) ==
             [requests |-> Cardinality(T),
              failures |-> Cardinality({i \in T : access[i].status >= 400}),
              models |-> Count(LAMBDA i : access[i].model, {i \in T : access[i].model # ""}),
              endpoints |-> Count(LAMBDA i : access[i].endpoint, {i \in T : access[i].endpoint # <<>>}),
              p50 |-> _nearest_rank_percentile(LatenciesOf(access, T), 50),
              p95 |-> _nearest_rank_percentile(LatenciesOf(access, T), 95)]
<1>1. /\ edge_usage.requests = Cardinality(S)
      /\ edge_usage.invalid = Len(access) - Cardinality(S)
      /\ edge_usage.clients = [c \in {access[i].client : i \in S} |-> summary(of(c))]
  BY Zenon DEF edge_usage, summarize_edge_usage
<1>2. ASSUME NEW T
      PROVE  /\ summary(T).requests = Cardinality(T)
             /\ summary(T).p50 = _nearest_rank_percentile(LatenciesOf(access, T), 50)
             /\ summary(T).p95 = _nearest_rank_percentile(LatenciesOf(access, T), 95)
  BY Zenon
<1> HIDE DEF summary, S
<1>3. \A c \in DOMAIN edge_usage.clients : edge_usage.clients[c] = summary(of(c))
  BY <1>1
<1> QED
  BY <1>1, <1>2, <1>3 DEF S

LEMMA ReportsTold ==
  ASSUME UsageInv
  PROVE  ReportsAgree
<1>1. PICK m \in Nat :
        m = Len(access) /\ DOMAIN access = 1..m /\ IsFiniteSet(1..m) /\ Cardinality(1..m) = m
  BY RecordTyped
<1> DEFINE T == Within(access, All)
           daily == usage_report(All).requests
           R == Of(All)
           S == Accounted(access)
           N == Nameless(access, T)
           K == Skipped(access, T)
           U == Unmeasured(access, T)
           X == BrokenIn(access)
<1>2. /\ daily.total = Cardinality(R) /\ daily.user = Tally(Clients_, R)
      /\ daily.invalid = Cardinality(X \union N \union U)
  BY ReportOf
<1>3. \A i : i \in T => i \in 1..m /\ i \notin X
  BY <1>1 DEF Within
<1>4. \A i : i \in 1..m => i \in T \/ i \in X
  BY <1>1 DEF Within, All
<1>5. X \subseteq 1..m
  BY <1>1 DEF BrokenIn
<1>6. \A i : /\ i \in S <=> i \in T /\ access[i].client # ""
             /\ i \in N <=> i \in T /\ access[i].client = ""
             /\ i \in K <=> i \in T /\ KnownOnly /\ access[i].client = "unauthenticated"
             /\ i \in U <=> i \in T /\ i \notin N /\ i \notin K /\ access[i].latency = NoLatency
             /\ i \in R <=> i \in T /\ i \notin N /\ i \notin K /\ access[i].latency # NoLatency
  BY DEF Accounted, Nameless, Skipped, Unmeasured, Of, Requested
<1>7. \A i \in R : Clients_[i] = access[i].client
  BY <1>1, <1>3, <1>6 DEF Clients_
<1> HIDE DEF T, R, S, N, K, U, X, daily
<1>8. DOMAIN daily.user = {access[i].client : i \in R}
  BY <1>2, <1>7 DEF Tally
<1>9. DOMAIN daily.user \subseteq DOMAIN edge_usage.clients
  <2>1. DOMAIN edge_usage.clients = {access[i].client : i \in S}
    BY EdgeOf DEF S
  <2> QED
    BY <1>6, <1>8, <2>1
<1>10. ASSUME NEW c \in DOMAIN edge_usage.clients, ~(KnownOnly /\ c = "unauthenticated")
       PROVE  edge_usage.clients[c].requests
                = In(daily.user, c) + Cardinality({i \in U : access[i].client = c})
  <2> DEFINE C == {i \in S : access[i].client = c}
             A == {i \in R : Clients_[i] = c}
             B == {i \in U : access[i].client = c}
  <2>1. edge_usage.clients[c].requests = Cardinality(C) /\ c # ""
    <3>1. edge_usage.clients[c].requests = Cardinality(C)
      BY EdgeOf DEF S
    <3>2. c \in {access[i].client : i \in S}
      BY EdgeOf DEF S
    <3> QED
      BY <1>6, <3>1, <3>2
  <2>2. In(daily.user, c) = Cardinality(A)
    BY <1>2, TallyIn
  <2>3. C \subseteq 1..m
    BY <1>3, <1>6
  <2>4. A \in SUBSET C /\ B \in SUBSET C /\ A \cap B = {} /\ A \union B = C
    BY <1>6, <1>7, <1>10, <2>1
  <2> HIDE DEF A, B, C
  <2>5. IsFiniteSet(C)
    BY <1>1, <2>3, FS_Subset
  <2>6. Cardinality(C) = Cardinality(A) + Cardinality(B)
    BY <2>4, <2>5, Parts
  <2> QED
    BY <2>1, <2>2, <2>6 DEF B
<1>11. ASSUME KnownOnly PROVE "unauthenticated" \notin DOMAIN daily.user
  BY <1>6, <1>8, <1>11
<1>12. edge_usage.requests + edge_usage.invalid = daily.total + daily.invalid + Cardinality(K)
  <2>1. edge_usage.requests + edge_usage.invalid = m
    <3>1. S \subseteq 1..m
      BY <1>3, <1>6
    <3>2. Cardinality(S) \in Nat
      BY <1>1, <3>1, FS_Subset, FS_CardinalityType
    <3>3. edge_usage.requests = Cardinality(S) /\ edge_usage.invalid = m - Cardinality(S)
      BY <1>1, EdgeOf DEF S
    <3> QED
      BY <3>2, <3>3
  <2>2. PICK E, V, W : E = 1..m /\ V = X \union N \union U /\ W = R \union K
    OBVIOUS
  <2>3. PICK R1, K1 : R1 = R /\ K1 = K
    OBVIOUS
  <2>4. /\ V \in SUBSET E /\ W \in SUBSET E /\ V \cap W = {} /\ V \union W = E
        /\ R1 \in SUBSET W /\ K1 \in SUBSET W /\ R1 \cap K1 = {} /\ R1 \union K1 = W
    BY <1>3, <1>4, <1>5, <1>6, <2>2, <2>3
  <2>5. IsFiniteSet(E) /\ IsFiniteSet(W)
    BY <1>1, <2>2, <2>4, FS_Subset
  <2>6. /\ Cardinality(V) \in Nat /\ Cardinality(W) \in Nat
        /\ Cardinality(E) = Cardinality(V) + Cardinality(W)
    BY ONLY <2>4, <2>5, Parts
  <2>7. /\ Cardinality(R1) \in Nat /\ Cardinality(K1) \in Nat
        /\ Cardinality(W) = Cardinality(R1) + Cardinality(K1)
    BY ONLY <2>4, <2>5, Parts
  <2>8. m = Cardinality(R1) + Cardinality(V) + Cardinality(K1)
    BY <1>1, <2>2, <2>6, <2>7
  <2> QED
    BY <1>2, <2>1, <2>2, <2>3, <2>8
<1> QED
  BY <1>9, <1>10, <1>11, <1>12 DEF ReportsAgree, T, K, U, daily

(* The places of a finite list of numbers are 1 to their number, each of   *)
(* one value.                                                              *)
LEMMA PlacesAll ==
  ASSUME NEW Q \in SUBSET Int, IsFiniteSet(Q), NEW f \in [Q -> Int]
  PROVE  /\ Cardinality(Q) \in Nat
         /\ \A k \in 1..Cardinality(Q) :
              \E i \in Q : /\ Cardinality(UpTo(f, i)) = k
                           /\ \A j \in Q : Cardinality(UpTo(f, j)) = k => j = i
<1>1. PICK n : n = Cardinality(Q)
  OBVIOUS
<1>2. n \in Nat
  BY <1>1, FS_CardinalityType
<1>3. \A i \in Q : UpTo(f, i) \in SUBSET Q /\ i \in UpTo(f, i)
  BY DEF UpTo
<1>4. \A i \in Q : /\ IsFiniteSet(UpTo(f, i)) /\ Cardinality(UpTo(f, i)) \in Nat
                   /\ Cardinality(UpTo(f, i)) <= n
  BY <1>1, <1>3, FS_Subset, FS_CardinalityType
<1>5. ASSUME NEW i \in Q PROVE Cardinality(UpTo(f, i)) \in 1..n
  <2>1. Cardinality(UpTo(f, i)) # 0
    BY <1>3, <1>4, FS_EmptySet
  <2> QED
    BY <1>2, <1>4, <2>1
<1>6. ASSUME NEW i \in Q, NEW j \in Q, f[i] < f[j] \/ (f[i] = f[j] /\ i < j)
      PROVE  Cardinality(UpTo(f, i)) # Cardinality(UpTo(f, j))
  <2>0. DOMAIN f = Q /\ \A x \in Q : f[x] \in Int /\ x \in Int
    OBVIOUS
  <2>1. ASSUME NEW x \in UpTo(f, i) PROVE x \in UpTo(f, j)
    <3>1. x \in Q /\ (f[x] < f[i] \/ (f[x] = f[i] /\ x <= i))
      BY <2>0 DEF UpTo
    <3>2. f[x] < f[j] \/ (f[x] = f[j] /\ x <= j)
      BY <1>6, <2>0, <3>1
    <3> QED
      BY <2>0, <3>1, <3>2 DEF UpTo
  <2>2. j \notin UpTo(f, i)
    BY <1>6, <2>0 DEF UpTo
  <2>3. UpTo(f, i) \in SUBSET UpTo(f, j) /\ UpTo(f, i) # UpTo(f, j)
    BY <1>3, <2>1, <2>2
  <2> QED
    BY <1>4, <2>3, FS_Subset
<1> DEFINE place == [i \in Q |-> Cardinality(UpTo(f, i))]
<1>7. place \in Injection(Q, 1..n)
  <2>1. place \in [Q -> 1..n]
    BY <1>5
  <2>2. ASSUME NEW i \in Q, NEW j \in Q, place[i] = place[j] PROVE i = j
    <3>1. f[i] \in Int /\ f[j] \in Int /\ i \in Int /\ j \in Int
      OBVIOUS
    <3>2. i = j \/ (f[i] < f[j] \/ (f[i] = f[j] /\ i < j)) \/ (f[j] < f[i] \/ (f[j] = f[i] /\ j < i))
      BY <3>1
    <3> QED
      BY <1>6, <2>2, <3>2
  <2> HIDE DEF place
  <2> QED
    BY <2>1, <2>2 DEF Injection, IsInjective
<1>8. IsFiniteSet(1..n) /\ Cardinality(1..n) = n
  BY <1>2, FS_Interval
<1>9. place \in Surjection(Q, 1..n)
  <2> HIDE DEF place
  <2> QED
    BY <1>1, <1>7, <1>8, FS_Injection
<1>10. ASSUME NEW k \in 1..n
       PROVE  \E i \in Q : place[i] = k /\ \A j \in Q : place[j] = k => j = i
  <2> HIDE DEF place
  <2> QED
    BY <1>7, <1>9 DEF Injection, Surjection, IsInjective
<1> QED
  BY <1>1, <1>2, <1>10

LEMMA RankOf ==
  ASSUME NEW t \in Nat, NEW n \in Nat, t >= 1, t <= 100 * n
  PROVE  LET r == (t + 99) \div 100
         IN  r \in 1..n /\ 100 * r >= t /\ 100 * (r - 1) < t
OBVIOUS

Ranks(Q, f, p, i) ==
  /\ _nearest_rank_percentile(f, p) = f[i]
  /\ \A j \in Q :
       (/\ 100 * Cardinality({k \in Q : f[k] <= f[j]}) >= p * Cardinality(Q)
        /\ 100 * Cardinality({k \in Q : f[k] < f[j]}) < p * Cardinality(Q))
         <=> f[j] = f[i]

LEMMA PercentileIs ==
  ASSUME NEW Q \in SUBSET Int, IsFiniteSet(Q), Q # {}, NEW f \in [Q -> Int], NEW p \in 1..100
  PROVE  \E i \in Q : Ranks(Q, f, p, i)
<1>1. PICK n : n = Cardinality(Q)
  OBVIOUS
<1>2. n \in Nat /\ n >= 1
  BY <1>1, FS_CardinalityType, FS_EmptySet
<1>3. PICK t : t = p * n
  OBVIOUS
<1>4. t \in Nat /\ t >= 1 /\ t <= 100 * n
  BY <1>2, <1>3
<1>5. PICK r : r = (t + 99) \div 100
  OBVIOUS
<1>6. r \in 1..n /\ 100 * r >= t /\ 100 * (r - 1) < t
  BY <1>2, <1>4, <1>5, RankOf
<1>7. PICK i \in Q : Cardinality(UpTo(f, i)) = r /\ \A j \in Q : Cardinality(UpTo(f, j)) = r => j = i
  BY <1>1, <1>6, PlacesAll
<1>8. _nearest_rank_percentile(f, p) = f[i]
  <2>1. (CHOOSE k \in Q : Cardinality(UpTo(f, k)) = r) = i
    BY <1>7
  <2>2. DOMAIN f = Q /\ ~(r < 1)
    BY <1>6
  <2>3. _nearest_rank_percentile(f, p) = f[CHOOSE k \in Q : Cardinality(UpTo(f, k)) = r]
    BY <1>1, <1>3, <1>5, <2>2 DEF _nearest_rank_percentile
  <2> QED
    BY <2>1, <2>3
<1> DEFINE L(j) == {k \in Q : f[k] <= f[j]}
           M(j) == {k \in Q : f[k] < f[j]}
<1>9. \A j : /\ IsFiniteSet(L(j)) /\ Cardinality(L(j)) \in Nat
             /\ IsFiniteSet(M(j)) /\ Cardinality(M(j)) \in Nat
  BY FS_Subset, FS_CardinalityType
<1>10. \A j \in Q : f[j] \in Int /\ j \in Int
  OBVIOUS
<1>11. Cardinality(L(i)) >= r
  <2>1. UpTo(f, i) \in SUBSET L(i)
    <3> SUFFICES ASSUME NEW x \in UpTo(f, i) PROVE x \in Q /\ f[x] <= f[i]
      OBVIOUS
    <3>1. x \in Q /\ (f[x] < f[i] \/ f[x] = f[i])
      BY DEF UpTo
    <3> QED
      BY <1>10, <3>1
  <2> HIDE DEF L
  <2> QED
    BY <1>7, <1>9, <2>1, FS_Subset
<1>12. Cardinality(M(i)) <= r - 1
  <2>1. M(i) \in SUBSET UpTo(f, i) /\ i \in UpTo(f, i) /\ i \notin M(i) /\ UpTo(f, i) \in SUBSET Q
    BY <1>10 DEF UpTo
  <2>2. IsFiniteSet(UpTo(f, i))
    BY <2>1, FS_Subset
  <2> HIDE DEF M
  <2>3. Cardinality(M(i)) <= r /\ Cardinality(M(i)) # r
    BY <1>7, <2>1, <2>2, FS_Subset
  <2>4. Cardinality(M(i)) \in Nat
    BY <1>9
  <2>5. r \in Nat
    BY <1>2, <1>6
  <2> QED
    BY <2>3, <2>4, <2>5
<1>13. 100 * Cardinality(L(i)) >= t /\ 100 * Cardinality(M(i)) < t
  <2> HIDE DEF L, M
  <2> QED
    BY <1>4, <1>6, <1>9, <1>11, <1>12
<1>14. ASSUME NEW j \in Q, f[j] < f[i] PROVE 100 * Cardinality(L(j)) < t
  <2>1. L(j) \in SUBSET M(i)
    <3> SUFFICES ASSUME NEW x \in Q, f[x] <= f[j] PROVE f[x] < f[i]
      OBVIOUS
    <3> QED
      BY <1>10, <1>14
  <2> HIDE DEF L, M
  <2>2. Cardinality(L(j)) <= Cardinality(M(i))
    BY <1>9, <2>1, FS_Subset
  <2> QED
    BY <1>4, <1>9, <1>13, <2>2
<1>15. ASSUME NEW j \in Q, f[j] > f[i] PROVE 100 * Cardinality(M(j)) >= t
  <2>1. L(i) \in SUBSET M(j)
    <3> SUFFICES ASSUME NEW x \in Q, f[x] <= f[i] PROVE f[x] < f[j]
      OBVIOUS
    <3> QED
      BY <1>10, <1>15
  <2> HIDE DEF L, M
  <2>2. Cardinality(L(i)) <= Cardinality(M(j))
    BY <1>9, <2>1, FS_Subset
  <2> QED
    BY <1>4, <1>9, <1>13, <2>2
<1>16. ASSUME NEW j \in Q
       PROVE  (100 * Cardinality(L(j)) >= t /\ 100 * Cardinality(M(j)) < t) <=> f[j] = f[i]
  <2>1. CASE f[j] = f[i]
    <3>1. L(j) = L(i) /\ M(j) = M(i)
      BY <2>1
    <3> HIDE DEF L, M
    <3> QED
      BY <1>13, <2>1, <3>1
  <2>2. CASE f[j] < f[i]
    <3>1. 100 * Cardinality(L(j)) < t /\ f[j] # f[i]
      BY <1>10, <1>14, <2>2
    <3> HIDE DEF L, M
    <3> QED
      BY <1>4, <1>9, <3>1
  <2>3. CASE f[j] > f[i]
    <3>1. 100 * Cardinality(M(j)) >= t /\ f[j] # f[i]
      BY <1>10, <1>15, <2>3
    <3> HIDE DEF L, M
    <3> QED
      BY <1>4, <1>9, <3>1
  <2> QED
    BY <1>10, <2>1, <2>2, <2>3
<1> QED
  BY <1>1, <1>3, <1>8, <1>16 DEF Ranks

LEMMA PercentilesTold ==
  ASSUME UsageInv
  PROVE  PercentilesRank
<1>1. PICK m \in Nat :
        /\ m = Len(access) /\ DOMAIN access = 1..m /\ IsFiniteSet(1..m)
        /\ \A i \in 1..m \ BrokenIn(access) : access[i].latency \in Int
  BY RecordTyped
<1> DEFINE Mine_(c) == {i \in Accounted(access) :
                          access[i].client = c /\ access[i].latency # NoLatency}
           Least(S, p) == CHOOSE v \in {access[i].latency : i \in S} :
             /\ 100 * Cardinality({i \in S : access[i].latency <= v}) >= p * Cardinality(S)
             /\ 100 * Cardinality({i \in S : access[i].latency < v}) < p * Cardinality(S)
<1>2. ASSUME NEW c \in DOMAIN edge_usage.clients, NEW p \in {50, 95}
      PROVE  LET S == Mine_(c)
                 T == {i \in Accounted(access) : access[i].client = c}
             IN  _nearest_rank_percentile(LatenciesOf(access, T), p)
                   = IF S = {} THEN 0 ELSE Least(S, p)
  <2> DEFINE T == {i \in Accounted(access) : access[i].client = c}
             values == LatenciesOf(access, T)
  <2>1. PICK S, f : S = Mine_(c) /\ f = values
    OBVIOUS
  <2>2. f = [i \in S |-> access[i].latency]
    <3>1. {j \in T : access[j].latency # NoLatency} = S
      BY <2>1
    <3> QED
      BY <2>1, <3>1 DEF LatenciesOf
  <2>3. S \subseteq 1..m /\ \A i \in S : access[i].latency \in Int
    BY <1>1, <2>1 DEF Accounted, Within
  <2>4. f \in [S -> Int] /\ S \in SUBSET Int /\ IsFiniteSet(S)
    <3>1. IsFiniteSet(S)
      BY <1>1, <2>3, FS_Subset
    <3> QED
      BY <2>2, <2>3, <3>1
  <2>5. CASE S = {}
    <3>1. DOMAIN f = {}
      BY <2>2, <2>5
    <3>2. _nearest_rank_percentile(f, p) = 0
      BY <3>1, Zenon DEF _nearest_rank_percentile
    <3> QED
      BY <2>1, <2>5, <3>2
  <2>6. CASE S # {}
    <3>0. p \in 1..100
      OBVIOUS
    <3>1. PICK i \in S : Ranks(S, f, p, i)
      BY ONLY <2>4, <2>6, <3>0, PercentileIs
    <3>2. \A j \in S : f[j] = access[j].latency
      BY <2>2
    <3> DEFINE Good(v) ==
                 /\ 100 * Cardinality({k \in S : access[k].latency <= v}) >= p * Cardinality(S)
                 /\ 100 * Cardinality({k \in S : access[k].latency < v}) < p * Cardinality(S)
    <3>3. ASSUME NEW v \in {access[j].latency : j \in S} PROVE Good(v) <=> v = f[i]
      <4>1. PICK j \in S : v = f[j]
        BY <3>2
      <4>2. /\ {k \in S : access[k].latency <= v} = {k \in S : f[k] <= f[j]}
            /\ {k \in S : access[k].latency < v} = {k \in S : f[k] < f[j]}
        BY <3>2, <4>1
      <4> QED
        BY <3>1, <4>1, <4>2 DEF Ranks
    <3>4. f[i] \in {access[j].latency : j \in S}
      BY <3>2
    <3> HIDE DEF Good
    <3>5. (CHOOSE v \in {access[j].latency : j \in S} : Good(v)) = f[i]
      BY <3>3, <3>4
    <3>6. Least(S, p) = f[i]
      BY <3>5 DEF Good
    <3> HIDE DEF Least, Mine_
    <3>7. _nearest_rank_percentile(f, p) = f[i]
      BY <3>1 DEF Ranks
    <3> QED
      BY <2>1, <2>6, <3>6, <3>7
  <2> HIDE DEF Least, Mine_
  <2> QED
    BY <2>5, <2>6
<1> HIDE DEF Least, Mine_
<1>3. ASSUME NEW c \in DOMAIN edge_usage.clients
      PROVE  LET S == Mine_(c)
             IN  IF S = {} THEN edge_usage.clients[c].p50 = 0 /\ edge_usage.clients[c].p95 = 0
                 ELSE /\ edge_usage.clients[c].p50 = Least(S, 50)
                      /\ edge_usage.clients[c].p95 = Least(S, 95)
  <2> DEFINE T == {i \in Accounted(access) : access[i].client = c}
  <2>1. /\ edge_usage.clients[c].p50 = _nearest_rank_percentile(LatenciesOf(access, T), 50)
        /\ edge_usage.clients[c].p95 = _nearest_rank_percentile(LatenciesOf(access, T), 95)
    BY EdgeOf
  <2>2. _nearest_rank_percentile(LatenciesOf(access, T), 50)
          = IF Mine_(c) = {} THEN 0 ELSE Least(Mine_(c), 50)
    BY <1>2
  <2>3. _nearest_rank_percentile(LatenciesOf(access, T), 95)
          = IF Mine_(c) = {} THEN 0 ELSE Least(Mine_(c), 95)
    BY <1>2
  <2> QED
    BY <2>1, <2>2, <2>3
<1> QED
  BY <1>3 DEF PercentilesRank, Least, Mine_
-----------------------------------------------------------------------------
LEMMA UsageInvInit == UsageInit => UsageInv
BY DEF UsageInit, UsageInv

LEMMA UsageInvKeeps == UsageInv /\ [UsageNext]_usageVars => UsageInv'
<1> SUFFICES ASSUME UsageInv, [UsageNext]_usageVars PROVE UsageInv'
  OBVIOUS
<1>1. ASSUME NEW l \in Lines, Logged(l) PROVE UsageInv'
  BY <1>1 DEF UsageInv, Logged
<1>2. ASSUME NEW s \in Samples, Sampled(s) PROVE UsageInv'
  BY <1>2 DEF UsageInv, Sampled
<1>3. CASE UNCHANGED usageVars
  BY <1>3 DEF UsageInv, usageVars
<1> QED
  BY <1>1, <1>2, <1>3 DEF UsageNext

-----------------------------------------------------------------------------
(* Each part keeps its own invariant, whatever the others do.              *)
ToolsInv == StatusInv /\ KeysInv /\ UsageInv

LEMMA ToolsInvInit == ToolsInit => ToolsInv
BY StatusInit_Inv, InitKeys, UsageInvInit DEF ToolsInit, ToolsInv

LEMMA ToolsInvNext == ToolsInv /\ [ToolsNext]_toolVars => ToolsInv'
<1> SUFFICES ASSUME ToolsInv, [ToolsNext]_toolVars PROVE ToolsInv'
  OBVIOUS
<1>1. [StatusNext]_statusVars /\ [EnvNext]_envVars /\ [UsageNext]_usageVars
  BY DEF ToolsNext, toolVars
<1> QED
  BY <1>1, StatusNext_Inv, KeysKeep, UsageInvKeeps DEF ToolsInv

(* The types of the status report and of the clients' keys, beside one     *)
(* another.                                                                *)
THEOREM ToolsTypeCorrect == ToolsSpec => []ToolsTypeOK
<1>1. ToolsInv => ToolsTypeOK
  BY StatusTyped, KeysTyped DEF ToolsInv, ToolsTypeOK
<1> QED
  BY <1>1, ToolsInvInit, ToolsInvNext, PTL DEF ToolsSpec

(* What the operator is told of the access log is true to it, whatever its *)
(* lines: the days add up to the whole, the two reports agree, and the     *)
(* percentiles are the least latencies that cover enough requests.         *)
THEOREM ReportsTrue == ToolsSpec => []AccountsTrue
<1>1. ToolsInv => AccountsTrue
  BY DaysTold, ReportsTold, PercentilesTold DEF ToolsInv, AccountsTrue
<1> QED
  BY <1>1, ToolsInvInit, ToolsInvNext, PTL DEF ToolsSpec

(* Whatever the order of the metrics lines, a report shows of a node, all  *)
(* of whose samples have timestamps, the count of the newest one, and its  *)
(* list unless it lists nothing.                                           *)
THEOREM NewestIsShown == ToolsSpec => []NewestSampleShown
<1>1. ToolsInv => NewestSampleShown
  BY NewestShown DEF ToolsInv
<1> QED
  BY <1>1, ToolsInvInit, ToolsInvNext, PTL DEF ToolsSpec
=============================================================================
