------------------------- MODULE LogRetentionProofs -------------------------
(***************************************************************************)
(* What trims, appends, kills and full disks may do to the logs, for every *)
(* set of commands, retention and bound: theorems about LogRetention.      *)
(***************************************************************************)
EXTENDS LogRetention, FiniteSetTheorems, SequenceTheorems, TLAPS

(* Nth lists a set of indices in their order, each once.                   *)
LEMMA NthSorts ==
  ASSUME NEW n \in Nat, NEW S \in SUBSET (1..n)
  PROVE  /\ Cardinality(S) \in Nat
         /\ \A k \in 1..Cardinality(S) : Nth(S, k) \in S
         /\ \A k, l \in 1..Cardinality(S) : k < l => Nth(S, k) < Nth(S, l)
         /\ \A i \in S : \E k \in 1..Cardinality(S) : Nth(S, k) = i
<1> DEFINE upTo(i) == {j \in S : j <= i}
           rank(i) == Cardinality(upTo(i))
           N == Cardinality(S)
<1>0. \A i \in S : i \in Int
  OBVIOUS
<1>1. IsFiniteSet(S) /\ N \in Nat
  <2>1. IsFiniteSet(1..n)
    BY FS_Interval
  <2> QED BY <2>1, FS_Subset, FS_CardinalityType
<1>2. \A i \in S : IsFiniteSet(upTo(i)) /\ rank(i) \in 1..N
  <2> SUFFICES ASSUME NEW i \in S PROVE IsFiniteSet(upTo(i)) /\ rank(i) \in 1..N
    OBVIOUS
  <2>1. upTo(i) \in SUBSET S /\ i \in upTo(i)
    OBVIOUS
  <2>2. IsFiniteSet(upTo(i)) /\ rank(i) <= N /\ rank(i) \in Nat
    BY <1>1, <2>1, FS_Subset, FS_CardinalityType
  <2>3. rank(i) # 0
    BY <2>1, <2>2, FS_EmptySet
  <2> QED BY <1>1, <2>2, <2>3
<1>10. \A i \in S : rank(i) \in 1..N /\ rank(i) \in Int
  BY <1>1, <1>2
<1>3. \A i, j \in S : i < j => rank(i) < rank(j)
  <2> SUFFICES ASSUME NEW i \in S, NEW j \in S, i < j PROVE rank(i) < rank(j)
    OBVIOUS
  <2>1. upTo(i) \in SUBSET upTo(j) /\ j \in upTo(j) /\ j \notin upTo(i)
    <3>1. i \in Int /\ j \in Int /\ \A k \in S : k <= i => k <= j
      BY <1>0
    <3>2. i <= j /\ ~(j <= i) /\ j <= j
      BY <3>1
    <3> QED BY <3>1, <3>2
  <2>2. rank(i) <= rank(j) /\ rank(i) # rank(j)
    BY <1>2, <2>1, FS_Subset
  <2> QED BY <1>1, <1>2, <2>2
<1> DEFINE r == [i \in S |-> rank(i)]
<1> HIDE DEF N, rank, upTo
<1>4. r \in Injection(S, 1..N)
  <2>1. ASSUME NEW i \in S, NEW j \in S, rank(i) = rank(j) PROVE i = j
    <3>1. i \in Int /\ j \in Int /\ rank(i) \in Int
      BY <1>0, <1>10
    <3>2. ~(i < j) /\ ~(j < i)
      BY <1>3, <2>1, <3>1
    <3> QED BY <3>1, <3>2
  <2> QED BY <1>10, <2>1 DEF Injection, IsInjective
<1>5. r \in Surjection(S, 1..N)
  <2>1. IsFiniteSet(1..N) /\ Cardinality(1..N) = N
    BY <1>1, FS_Interval
  <2> QED BY <1>4, <2>1, FS_Injection DEF N
<1>6. \A k \in 1..N : \E i \in S : rank(i) = k
  BY <1>5 DEF Surjection
<1>7. \A k \in 1..N : Nth(S, k) \in S /\ rank(Nth(S, k)) = k
  BY <1>6 DEF Nth, rank, upTo
<1>8. \A i \in S : Nth(S, rank(i)) = i
  <2> SUFFICES ASSUME NEW i \in S PROVE Nth(S, rank(i)) = i
    OBVIOUS
  <2>1. Nth(S, rank(i)) \in S /\ rank(Nth(S, rank(i))) = rank(i)
    BY <1>2, <1>7
  <2>2. Nth(S, rank(i)) \in Int /\ i \in Int /\ rank(i) \in Int
    BY <1>0, <1>10, <2>1
  <2>3. ~(Nth(S, rank(i)) < i) /\ ~(i < Nth(S, rank(i)))
    BY <1>3, <2>1, <2>2
  <2> QED BY <2>2, <2>3
<1>9. \A k, l \in 1..N : k < l => Nth(S, k) < Nth(S, l)
  <2> SUFFICES ASSUME NEW k \in 1..N, NEW l \in 1..N, k < l, ~(Nth(S, k) < Nth(S, l))
               PROVE  FALSE
    OBVIOUS
  <2>1. Nth(S, k) \in S /\ Nth(S, l) \in S
    BY <1>7
  <2>2. Nth(S, l) < Nth(S, k) \/ Nth(S, l) = Nth(S, k)
    <3>1. Nth(S, k) \in Int /\ Nth(S, l) \in Int
      BY <1>0, <2>1
    <3> QED BY <3>1
  <2>3. l < k \/ l = k
    BY <1>3, <1>7, <2>1, <2>2
  <2> QED BY <1>1, <2>3
<1> QED BY <1>1, <1>2, <1>7, <1>8, <1>9 DEF N

(* What a filtered file holds: the lines that survive, in their order.     *)
Picks(pick, rest, lines, limit) ==
  /\ pick \in [DOMAIN rest -> DOMAIN lines]
  /\ \A k \in DOMAIN rest : rest[k] = lines[pick[k]] /\ Survives(rest[k], limit)
  /\ \A k, l \in DOMAIN rest : k < l => pick[k] < pick[l]
  /\ \A i \in DOMAIN lines :
       Survives(lines[i], limit) => \E k \in DOMAIN rest : pick[k] = i

LEMMA FilteredKeeps ==
  ASSUME NEW lines \in Seq(Line), NEW limit
  PROVE  /\ Filtered(lines, limit) \in Seq(Line)
         /\ \E pick : Picks(pick, Filtered(lines, limit), lines, limit)
<1> DEFINE S == {i \in DOMAIN lines : Survives(lines[i], limit)}
           rest == Filtered(lines, limit)
           pick == [k \in 1..Cardinality(S) |-> Nth(S, k)]
<1>1. DOMAIN lines = 1..Len(lines) /\ Len(lines) \in Nat
  OBVIOUS
<1>2. S \in SUBSET (1..Len(lines))
  BY <1>1
<1>3. rest = [k \in 1..Cardinality(S) |-> lines[Nth(S, k)]]
  BY DEF Filtered
<1>4. /\ Cardinality(S) \in Nat
      /\ \A k \in 1..Cardinality(S) : Nth(S, k) \in S
      /\ \A k, l \in 1..Cardinality(S) : k < l => Nth(S, k) < Nth(S, l)
      /\ \A i \in S : \E k \in 1..Cardinality(S) : Nth(S, k) = i
  <2> HIDE DEF S
  <2> QED BY <1>1, <1>2, NthSorts
<1>5. \A k \in 1..Cardinality(S) : lines[Nth(S, k)] \in Line
  BY <1>1, <1>2, <1>4
<1>6. rest \in Seq(Line)
  <2> HIDE DEF S, rest
  <2>1. rest \in [1..Cardinality(S) -> Line]
    BY <1>3, <1>5
  <2> QED BY <1>4, <2>1, SeqDef
<1>7. Picks(pick, rest, lines, limit)
  <2> DEFINE N == Cardinality(S)
  <2>1. DOMAIN rest = 1..N
    BY <1>3
  <2>2. \A i \in DOMAIN lines : Survives(lines[i], limit) => i \in S
    OBVIOUS
  <2>3. \A i \in S : i \in DOMAIN lines /\ Survives(lines[i], limit)
    OBVIOUS
  <2> HIDE DEF S, rest, N
  <2> QED BY <1>3, <1>4, <2>1, <2>2, <2>3 DEF Picks, N
<1> QED BY <1>6, <1>7

(* What is written back: the same, each line closed.                       *)
LEMMA TextCloses ==
  ASSUME NEW lines \in Seq(Line)
  PROVE  /\ Text(lines) \in Seq(Line \ {Fragment})
         /\ DOMAIN Text(lines) = DOMAIN lines
         /\ \A i \in DOMAIN lines :
              \/ Text(lines)[i] = lines[i] /\ lines[i] # Fragment
              \/ Text(lines)[i] = Garbled /\ lines[i] = Fragment
<1>1. DOMAIN lines = 1..Len(lines) /\ Len(lines) \in Nat
  OBVIOUS
<1>2. Garbled # Fragment /\ Garbled \in Line
  BY DEF Garbled, Fragment, Line
<1>3. \A i \in DOMAIN lines : lines[i] \in Line
  BY <1>1
<1>4. Text(lines) \in [1..Len(lines) -> Line \ {Fragment}]
  BY <1>1, <1>2, <1>3 DEF Text
<1>5. Text(lines) \in Seq(Line \ {Fragment})
  BY <1>1, <1>4, SeqDef
<1> QED BY <1>1, <1>2, <1>3, <1>5 DEF Text

(* What a file holds after a rewrite, whole or cut short: a beginning of   *)
(* the text, and lines that others appended meanwhile, in their order.     *)
Spliced(r, text, lines, n, d) ==
  /\ n \in 0..Len(text) /\ n <= Len(r)
  /\ \A i \in DOMAIN r :
       IF i <= n THEN r[i] = text[i]
       ELSE \/ r[i] \in {Garbled, Fragment}
            \/ i - d \in DOMAIN lines /\ r[i] = lines[i - d]

LEMMA FromIs ==
  ASSUME NEW lines \in Seq(Line), NEW m \in 0..Len(lines)
  PROVE  /\ From(lines, m + 1) \in Seq(Line)
         /\ Len(From(lines, m + 1)) = Len(lines) - m
         /\ \A i \in 1..(Len(lines) - m) : From(lines, m + 1)[i] = lines[i + m]
<1>1. Len(lines) \in Nat /\ \A i \in (m + 1)..Len(lines) : lines[i] \in Line
  OBVIOUS
<1>2. /\ From(lines, m + 1) \in Seq(Line)
      /\ Len(From(lines, m + 1)) = IF m + 1 <= Len(lines) THEN Len(lines) - (m + 1) + 1 ELSE 0
      /\ \A i \in 1 .. Len(lines) - (m + 1) + 1 : From(lines, m + 1)[i] = lines[m + 1 + i - 1]
  BY <1>1, SubSeqProperties DEF From
<1> QED BY <1>1, <1>2

LEMMA Garbling == Garbled \in Line /\ Fragment \in Line /\ Garbled # Fragment
  BY DEF Garbled, Fragment, Line

(* text, then perhaps a line that is left in pieces, then the rest.        *)
LEMMA SplicedIs ==
  ASSUME NEW text \in Seq(Line), NEW mid \in Seq({Garbled, Fragment}),
         NEW lines \in Seq(Line), NEW m \in 0..Len(lines),
         NEW n \in 0..Len(text)
  PROVE  LET r == SubSeq(text, 1, n) \o mid \o From(lines, m + 1)
         IN  /\ r \in Seq(Line)
             /\ Spliced(r, text, lines, n, n + Len(mid) - m)
             /\ \A i \in DOMAIN r : i > n => r[i] \in Range(mid) \union Range(lines)
<1> DEFINE h == SubSeq(text, 1, n)
           t == From(lines, m + 1)
           r == h \o mid \o t
<1>0. n \in Int /\ m \in Int
  OBVIOUS
<1>1. Len(text) \in Nat /\ \A i \in 1..n : text[i] \in Line
  OBVIOUS
<1>2. h \in Seq(Line) /\ Len(h) = n /\ \A i \in 1..n : h[i] = text[i]
  BY <1>1, SubSeqProperties
<1>3. t \in Seq(Line) /\ Len(t) = Len(lines) - m /\ \A i \in 1..Len(t) : t[i] = lines[i + m]
  BY FromIs
<1>4. mid \in Seq(Line)
  BY Garbling, SeqMonotonic
<1> HIDE DEF h, t
<1>5. /\ h \o mid \in Seq(Line) /\ Len(h \o mid) = n + Len(mid)
      /\ \A i \in 1..n + Len(mid) : (h \o mid)[i] = IF i <= n THEN h[i] ELSE mid[i - n]
  BY <1>2, <1>4, ConcatProperties
<1> DEFINE hm == h \o mid
<1>6. /\ hm \o t \in Seq(Line) /\ Len(hm \o t) = Len(hm) + Len(t)
      /\ \A i \in 1..Len(hm) + Len(t) :
           (hm \o t)[i] = IF i <= Len(hm) THEN hm[i] ELSE t[i - Len(hm)]
  <2> HIDE DEF hm
  <2>1. hm \in Seq(Line)
    BY <1>5 DEF hm
  <2> QED BY <1>3, <2>1, ConcatProperties
<1>7. /\ r \in Seq(Line) /\ Len(r) = n + Len(mid) + (Len(lines) - m)
      /\ \A i \in 1..Len(r) :
           r[i] = IF i <= n THEN text[i]
                  ELSE IF i <= n + Len(mid) THEN mid[i - n]
                  ELSE lines[i - (n + Len(mid)) + m]
  <2>1. Len(mid) \in Nat /\ Len(lines) \in Nat
    OBVIOUS
  <2>2. r = hm \o t
    OBVIOUS
  <2>3. hm \in Seq(Line) /\ Len(hm) = n + Len(mid)
        /\ \A i \in 1..n + Len(mid) : hm[i] = IF i <= n THEN h[i] ELSE mid[i - n]
    BY <1>5
  <2> HIDE DEF hm, r
  <2>4. r \in Seq(Line) /\ Len(r) = n + Len(mid) + (Len(lines) - m)
    BY <1>3, <1>6, <2>1, <2>2, <2>3
  <2>5. ASSUME NEW i \in 1..Len(r)
        PROVE  r[i] = IF i <= n THEN text[i]
                      ELSE IF i <= n + Len(mid) THEN mid[i - n]
                      ELSE lines[i - (n + Len(mid)) + m]
    <3>1. r[i] = IF i <= n + Len(mid) THEN hm[i] ELSE t[i - (n + Len(mid))]
      BY <1>3, <1>6, <2>1, <2>2, <2>3, <2>4
    <3>2. CASE i <= n
      BY <1>2, <2>1, <2>3, <2>4, <3>1, <3>2
    <3>3. CASE i > n /\ i <= n + Len(mid)
      BY <2>1, <2>3, <2>4, <3>1, <3>3
    <3>4. CASE i > n + Len(mid)
      <4>1. i - (n + Len(mid)) \in 1..Len(t)
        <5>1. i \in Int
          BY <1>0, <2>1, <2>4
        <5> QED BY <1>0, <1>3, <2>1, <2>4, <3>4, <5>1
      <4>2. i - (n + Len(mid)) + m = (i - (n + Len(mid))) + m /\ ~(i <= n) /\ ~(i <= n + Len(mid))
        BY <1>0, <2>1, <3>4
      <4>3. t[i - (n + Len(mid))] = lines[i - (n + Len(mid)) + m]
        BY <1>3, <4>1
      <4> QED BY <3>1, <4>2, <4>3
    <3> QED BY <2>1, <2>4, <3>2, <3>3, <3>4
  <2> QED BY <2>4, <2>5
<1> HIDE DEF r
<1>8. DOMAIN r = 1..Len(r) /\ Len(r) \in Nat /\ n <= Len(r) /\ Len(mid) \in Nat /\ Len(lines) \in Nat
  BY <1>7
<1>9. ASSUME NEW i \in DOMAIN r, i > n
      PROVE  /\ r[i] \in Range(mid) \union Range(lines)
             /\ \/ r[i] \in {Garbled, Fragment}
                \/ i - (n + Len(mid) - m) \in DOMAIN lines /\ r[i] = lines[i - (n + Len(mid) - m)]
  <2>1. CASE i <= n + Len(mid)
    <3>1. r[i] = mid[i - n] /\ i - n \in 1..Len(mid)
      BY <1>7, <1>8, <1>9, <2>1
    <3>2. DOMAIN mid = 1..Len(mid) /\ mid[i - n] \in {Garbled, Fragment}
      BY <3>1
    <3> QED BY <3>1, <3>2 DEF Range
  <2>2. CASE i > n + Len(mid)
    <3>1. i - (n + Len(mid)) + m = i - (n + Len(mid) - m)
      BY <1>0, <1>8
    <3>2. i \in 1..Len(r) /\ i \in Int /\ ~(i <= n) /\ ~(i <= n + Len(mid))
      BY <1>0, <1>8, <2>2
    <3>3. r[i] = lines[i - (n + Len(mid)) + m]
      BY <1>7, <3>2
    <3>4. i <= n + Len(mid) + (Len(lines) - m)
      BY <1>7, <3>2
    <3>5. i - (n + Len(mid) - m) \in 1..Len(lines)
      BY <1>0, <1>8, <3>2, <3>4
    <3>6. DOMAIN lines = 1..Len(lines)
      OBVIOUS
    <3> QED BY <3>1, <3>3, <3>5, <3>6 DEF Range
  <2> QED BY <1>8, <1>9, <2>1, <2>2
<1>10. Spliced(r, text, lines, n, n + Len(mid) - m)
  BY <1>7, <1>8, <1>9 DEF Spliced
<1> QED BY <1>7, <1>8, <1>9, <1>10 DEF r, h, t

LEMMA OverwrittenIs ==
  ASSUME NEW lines \in Seq(Line), NEW text \in Seq(Line),
         NEW r \in Overwritten(lines, text)
  PROVE  /\ r \in Seq(Line)
         /\ \E d \in Int : Spliced(r, text, lines, Len(text), d)
         /\ \A i \in DOMAIN r : i > Len(text) => r[i] \in {Garbled} \union Range(lines)
<1>1. /\ Len(text) \in Nat /\ Len(lines) \in Nat
      /\ SubSeq(text, 1, Len(text)) = text
  BY SubSeqFull
<1>2. PICK mid \in {<<>>, <<Garbled>>}, m \in 0..Len(lines) :
        r = SubSeq(text, 1, Len(text)) \o mid \o From(lines, m + 1)
  <2>1. SubSeq(text, 1, Len(text)) \o <<>> = text
    BY <1>1, ConcatEmptySeq
  <2>2. CASE r = text \o lines
    <3>1. From(lines, 0 + 1) = lines
      BY SubSeqFull DEF From
    <3>2. r = (SubSeq(text, 1, Len(text)) \o <<>>) \o From(lines, 0 + 1) /\ 0 \in 0..Len(lines)
      BY <1>1, <2>1, <2>2, <3>1
    <3> QED BY <3>2
  <2>3. CASE \E m \in 1..Len(lines) : r = text \o From(lines, m + 1)
    <3>1. PICK m \in 1..Len(lines) : r = text \o From(lines, m + 1)
      BY <2>3
    <3>2. m \in 0..Len(lines)
      BY <1>1
    <3>3. r = (SubSeq(text, 1, Len(text)) \o <<>>) \o From(lines, m + 1)
      BY <2>1, <3>1
    <3> QED BY <3>2, <3>3
  <2>4. CASE \E m \in 1..Len(lines) : r = text \o <<Garbled>> \o From(lines, m + 1)
    <3>1. PICK m \in 1..Len(lines) : r = (text \o <<Garbled>>) \o From(lines, m + 1)
      BY <2>4
    <3>2. r = (SubSeq(text, 1, Len(text)) \o <<Garbled>>) \o From(lines, m + 1)
      BY <1>1, <3>1
    <3>3. m \in 0..Len(lines)
      BY <1>1
    <3> QED BY <3>2, <3>3
  <2> QED BY <2>2, <2>3, <2>4 DEF Overwritten
<1>3. /\ mid \in Seq({Garbled, Fragment}) /\ Range(mid) \subseteq {Garbled}
      /\ Len(text) \in 0..Len(text)
  <2>1. CASE mid = <<>>
    BY <1>1, <2>1 DEF Range
  <2>2. CASE mid = <<Garbled>>
    BY <1>1, <2>2 DEF Range
  <2> QED BY <1>2, <2>1, <2>2
<1>4. /\ r \in Seq(Line)
      /\ Spliced(r, text, lines, Len(text), Len(text) + Len(mid) - m)
      /\ \A i \in DOMAIN r : i > Len(text) => r[i] \in Range(mid) \union Range(lines)
  BY <1>2, <1>3, SplicedIs
<1>5. Len(text) + Len(mid) - m \in Int
  BY <1>1, <1>3
<1> QED BY <1>3, <1>4, <1>5

LEMMA CutIs ==
  ASSUME NEW lines \in Seq(Line), NEW text \in Seq(Line),
         NEW r \in Cut(lines, text)
  PROVE  /\ r \in Seq(Line)
         /\ \E n \in 0..Len(text), d \in Int : Spliced(r, text, lines, n, d)
<1>1. Len(text) \in Nat /\ Len(lines) \in Nat
  OBVIOUS
<1>2. CASE r = lines
  <2>1. \A i \in DOMAIN r : ~(i <= 0) /\ i - 0 = i
    BY <1>2
  <2>2. Spliced(r, text, lines, 0, 0)
    BY <1>1, <1>2, <2>1 DEF Spliced
  <2> QED BY <1>1, <1>2, <2>2
<1>3. CASE \E mid \in {<<Fragment>>, <<Garbled>>}, n \in 0..Len(text), m \in 0..Len(lines) :
             r = SubSeq(text, 1, n) \o mid \o From(lines, m + 1)
  <2>1. PICK mid \in {<<Fragment>>, <<Garbled>>}, n \in 0..Len(text), m \in 0..Len(lines) :
             r = SubSeq(text, 1, n) \o mid \o From(lines, m + 1)
    BY <1>3
  <2>2. mid \in Seq({Garbled, Fragment})
    <3>1. CASE mid = <<Fragment>>
      BY <3>1
    <3>2. CASE mid = <<Garbled>>
      BY <3>2
    <3> QED BY <2>1, <3>1, <3>2
  <2>3. r \in Seq(Line) /\ Spliced(r, text, lines, n, n + Len(mid) - m)
    BY <2>1, <2>2, SplicedIs
  <2>4. n + Len(mid) - m \in Int
    BY <1>1, <2>2
  <2> QED BY <2>3, <2>4
<1>4. CASE lines = <<>> /\ \E n \in 0..(Len(text) - 1) : r = SubSeq(text, 1, n) \o <<Fragment>>
  <2>1. PICK n \in 0..(Len(text) - 1) : r = SubSeq(text, 1, n) \o <<Fragment>>
    BY <1>4
  <2>2. n \in 0..Len(text) /\ n \in Int /\ \A i \in 1..n : text[i] \in Line
    BY <1>1
  <2>3. SubSeq(text, 1, n) \in Seq(Line)
    BY <2>2, SubSeqProperties
  <2>4. <<Fragment>> \in Seq(Line)
    BY Garbling
  <2>5. SubSeq(text, 1, n) \o <<Fragment>> \in Seq(Line)
    BY <2>3, <2>4, ConcatProperties
  <2>6. From(lines, 0 + 1) = <<>>
    BY <1>4 DEF From
  <2>7. r = (SubSeq(text, 1, n) \o <<Fragment>>) \o From(lines, 0 + 1) /\ 0 \in 0..Len(lines)
    BY <1>1, <2>1, <2>5, <2>6, ConcatEmptySeq
  <2> QED BY <1>3, <2>2, <2>7
<1>5. CASE \E n \in 0..(Len(text) - 1), m \in 1..Len(lines) :
             r = SubSeq(text, 1, n) \o <<Garbled>> \o From(lines, m + 1)
  <2>1. PICK n \in 0..(Len(text) - 1), m \in 1..Len(lines) :
             r = SubSeq(text, 1, n) \o <<Garbled>> \o From(lines, m + 1)
    BY <1>5
  <2>2. n \in 0..Len(text) /\ m \in 0..Len(lines)
    BY <1>1
  <2> QED BY <1>3, <2>1, <2>2
<1>6. CASE lines = <<>>
  <2>1. \/ r = lines
        \/ r \in {SubSeq(text, 1, n) \o <<Fragment>> : n \in 0..(Len(text) - 1)}
    BY <1>6 DEF Cut
  <2> QED BY <1>2, <1>4, <1>6, <2>1
<1>7. CASE lines # <<>>
  <2> DEFINE E(n, m) == SubSeq(text, 1, n) \o <<Garbled>> \o From(lines, m + 1)
             A == 0..(Len(text) - 1)
             B == 1..Len(lines)
  <2>1. r = lines \/ r \in {E(n, m) : n \in A, m \in B}
    BY <1>7 DEF Cut
  <2>2. (\E n \in A, m \in B : r = E(n, m)) =>
          /\ r \in Seq(Line)
          /\ \E n \in 0..Len(text), d \in Int : Spliced(r, text, lines, n, d)
    BY <1>5
  <2> HIDE DEF E, A, B
  <2>3. r \in {E(n, m) : n \in A, m \in B} => \E n \in A, m \in B : r = E(n, m)
    OBVIOUS
  <2> QED BY <1>2, <2>1, <2>2, <2>3
<1> QED BY <1>6, <1>7

(* An appended line is the last one, unless it ran into a fragment.        *)
LEMMA AppendedIs ==
  ASSUME NEW lines \in Seq(Line), NEW line \in Line
  PROVE  LET r == Appended(lines, line)
         IN  /\ r \in Seq(Line)
             /\ DOMAIN lines \subseteq DOMAIN r
             /\ \A i \in DOMAIN r : \/ i \in DOMAIN lines /\ r[i] \in {lines[i], Garbled}
                                    \/ i = Len(lines) + 1 /\ r[i] = line
             /\ Fragment \notin Range(lines) =>
                  /\ \A i \in DOMAIN lines : r[i] = lines[i]
                  /\ Len(lines) + 1 \in DOMAIN r /\ r[Len(lines) + 1] = line
<1> DEFINE r == Appended(lines, line)
<1>1. Len(lines) \in Nat /\ DOMAIN lines = 1..Len(lines)
  OBVIOUS
<1>2. CASE lines # <<>> /\ lines[Len(lines)] = Fragment
  <2>1. r = [lines EXCEPT ![Len(lines)] = Garbled]
    BY <1>2 DEF Appended
  <2>2. Len(lines) \in DOMAIN lines
    BY <1>1, <1>2
  <2>3. Fragment \in Range(lines)
    BY <1>2, <2>2 DEF Range
  <2>4. r \in Seq(Line) /\ DOMAIN r = DOMAIN lines
    BY <1>1, <2>1, <2>2, Garbling, ExceptSeq
  <2> QED BY <1>1, <2>1, <2>2, <2>3, <2>4
<1>3. CASE ~(lines # <<>> /\ lines[Len(lines)] = Fragment)
  <2>1. r = Append(lines, line)
    BY <1>3 DEF Appended
  <2>2. r \in Seq(Line) /\ DOMAIN r = 1..Len(lines) + 1
    BY <2>1
  <2>3. \A i \in 1..Len(lines) : r[i] = lines[i]
    BY <2>1
  <2>4. r[Len(lines) + 1] = line
    BY <2>1
  <2> QED BY <1>1, <2>2, <2>3, <2>4
<1> QED BY <1>2, <1>3

-----------------------------------------------------------------------------
(* What is true of the lines, whoever writes them.                         *)

Recs(s) == {i \in DOMAIN s : s[i].kind = "record"}

(* Records carry the number and the time they were logged with.            *)
TrueTo(times, s) ==
  \A i \in Recs(s) : s[i].n \in DOMAIN times /\ s[i].stamp = times[s[i].n]

Editing(t) == pc[t] \in {"truncate", "write"}

Typed ==
  /\ TypeOK
  /\ kept \in [Trimmers -> Seq(Line \ {Fragment})]
  /\ file \in [Files -> Seq(Line)]
  /\ logged \in [Files -> Seq(0..MaxTime)]
  /\ exposed \in [Files -> SUBSET Nat]
  /\ \A f \in Files : Len(logged[f]) <= MaxLines[f]

LineInv ==
  /\ Typed
  /\ \A f \in Files : TrueTo(logged[f], file[f])
  /\ \A t \in Trimmers : Editing(t) => TrueTo(logged[FileOf(t)], kept[t])

LEMMA NotRecords == Garbled.kind # "record" /\ Fragment.kind # "record"
  BY DEF Garbled, Fragment

LEMMA FilesAre ==
  ASSUME Typed, NEW t \in Trimmers
  PROVE  FileOf(t) \in Files
  BY DEF Typed, TypeOK, FileOf, Order, Files

LEMMA SplicedTrue ==
  ASSUME NEW r \in Seq(Line), NEW text \in Seq(Line), NEW lines, NEW n, NEW d,
         Spliced(r, text, lines, n, d),
         NEW times, TrueTo(times, text), TrueTo(times, lines)
  PROVE  TrueTo(times, r)
<1> SUFFICES ASSUME NEW i \in Recs(r)
             PROVE  r[i].n \in DOMAIN times /\ r[i].stamp = times[r[i].n]
  BY DEF TrueTo
<1>1. i \in DOMAIN r /\ r[i].kind = "record" /\ i \in 1..Len(r)
  BY DEF Recs
<1>2. CASE i <= n
  <2>1. i \in DOMAIN text /\ r[i] = text[i]
    BY <1>1, <1>2 DEF Spliced
  <2> QED BY <1>1, <2>1 DEF TrueTo, Recs
<1>3. CASE ~(i <= n)
  <2>1. i - d \in DOMAIN lines /\ r[i] = lines[i - d]
    BY <1>1, <1>3, NotRecords DEF Spliced
  <2> QED BY <1>1, <2>1 DEF TrueTo, Recs
<1> QED BY <1>2, <1>3

LEMMA TrueStays ==
  ASSUME NEW times \in Seq(0..MaxTime), NEW now_ \in 0..MaxTime,
         NEW s, TrueTo(times, s)
  PROVE  TrueTo(Append(times, now_), s)
  BY DEF TrueTo, Recs

(* A record of now is logged.                                              *)
LEMMA LogIs ==
  ASSUME LineInv, NEW f \in Files, Log(f)
  PROVE  LET n == Len(logged[f]) + 1
             line == Record(f, n, now)
         IN  /\ line \in Line /\ n \in 1..MaxLines[f]
             /\ file' = [file EXCEPT ![f] = Appended(file[f], line)]
             /\ logged' = [logged EXCEPT ![f] = Append(logged[f], now)]
             /\ Append(logged[f], now) \in Seq(0..MaxTime)
             /\ DOMAIN Append(logged[f], now) = DOMAIN logged[f] \union {n}
             /\ Len(Append(logged[f], now)) = n
             /\ Append(logged[f], now)[n] = now
             /\ \A m \in DOMAIN logged[f] : Append(logged[f], now)[m] = logged[f][m]
             /\ exposed' = [exposed EXCEPT ![f] = @ \union IF Rewriting(f) THEN {n} ELSE {}]
<1> DEFINE n == Len(logged[f]) + 1
<1>1. logged[f] \in Seq(0..MaxTime) /\ now \in 0..MaxTime /\ Len(logged[f]) \in Nat
  BY DEF LineInv, Typed, TypeOK
<1>2. MaxLines \in [Files -> Nat] /\ MaxLines[f] \in Nat
  BY RetentionAssumption DEF Files
<1>3. n \in 1..MaxLines[f]
  BY <1>1, <1>2 DEF Log
<1>4. n \in 1..MostLines
  BY <1>2, <1>3 DEF MostLines, Files
<1>5. Record(f, n, now) \in Line
  BY <1>1, <1>4 DEF Record, Line
<1> QED BY <1>1, <1>3, <1>5 DEF Log

LEMMA LogKeepsLines ==
  ASSUME LineInv, NEW f \in Files, Log(f),
         UNCHANGED <<now, cutoff, kept, kills, incidents, at, up>>,
         pc' \in [Trimmers -> {"off", "read", "truncate", "write", "collect", "wait"}],
         \A t \in Trimmers : Editing(t)' => Editing(t)
  PROVE  LineInv'
<1> DEFINE n == Len(logged[f]) + 1
           line == Record(f, n, now)
           times == Append(logged[f], now)
           r == Appended(file[f], line)
<1>1. /\ line \in Line /\ n \in 1..MaxLines[f]
      /\ file' = [file EXCEPT ![f] = r]
      /\ logged' = [logged EXCEPT ![f] = times]
      /\ times \in Seq(0..MaxTime)
      /\ DOMAIN times = DOMAIN logged[f] \union {n}
      /\ Len(times) = n
      /\ times[n] = now
      /\ \A m \in DOMAIN logged[f] : times[m] = logged[f][m]
      /\ exposed' = [exposed EXCEPT ![f] = @ \union IF Rewriting(f) THEN {n} ELSE {}]
  BY LogIs
<1>2. /\ file[f] \in Seq(Line) /\ logged[f] \in Seq(0..MaxTime) /\ now \in 0..MaxTime
      /\ file \in [Files -> Seq(Line)] /\ logged \in [Files -> Seq(0..MaxTime)]
  BY DEF LineInv, Typed, TypeOK
<1>4. line.n = n /\ line.stamp = now
  BY DEF Record
<1> HIDE DEF line, times, n
<1>3. /\ r \in Seq(Line)
      /\ \A i \in DOMAIN r :
           \/ i \in DOMAIN file[f] /\ r[i] \in {file[f][i], Garbled}
           \/ i = Len(file[f]) + 1 /\ r[i] = line
  BY <1>1, <1>2, AppendedIs
<1> HIDE DEF r
<1>5. TrueTo(times, r)
  <2> SUFFICES ASSUME NEW i \in Recs(r) PROVE r[i].n \in DOMAIN times /\ r[i].stamp = times[r[i].n]
    BY DEF TrueTo
  <2>1. CASE i \in DOMAIN file[f] /\ r[i] = file[f][i]
    BY <1>1, <2>1 DEF LineInv, TrueTo, Recs
  <2>2. CASE r[i] = line
    BY <1>1, <1>4, <2>2
  <2> QED BY <1>3, <2>1, <2>2, NotRecords DEF Recs
<1>6. /\ file' \in [Files -> Seq(Line)] /\ logged' \in [Files -> Seq(0..MaxTime)]
      /\ \A g \in Files : TrueTo(logged'[g], file'[g])
  BY <1>1, <1>2, <1>3, <1>5 DEF LineInv
<1>7. \A t \in Trimmers : Editing(t)' => TrueTo(logged'[FileOf(t)'], kept'[t])
  <2> SUFFICES ASSUME NEW t \in Trimmers, Editing(t)'
               PROVE  TrueTo(logged'[FileOf(t)'], kept'[t])
    OBVIOUS
  <2>1. TrueTo(logged[FileOf(t)], kept[t]) /\ FileOf(t)' = FileOf(t) /\ kept'[t] = kept[t]
    BY DEF LineInv, FileOf
  <2>2. FileOf(t) \in Files
    BY FilesAre DEF LineInv
  <2>4. CASE FileOf(t) = f
    BY <1>1, <1>2, <2>1, <2>4, TrueStays DEF times
  <2>5. CASE FileOf(t) # f
    BY <1>1, <1>2, <2>1, <2>2, <2>5
  <2> QED BY <2>4, <2>5
<1>8. exposed' \in [Files -> SUBSET Nat] /\ \A g \in Files : exposed'[g] \subseteq DOMAIN logged'[g]
  <2>1. exposed \in [Files -> SUBSET Nat] /\ \A g \in Files : exposed[g] \subseteq DOMAIN logged[g]
    BY DEF LineInv, Typed, TypeOK
  <2>2. n \in Nat
    BY <1>2 DEF n
  <2> QED BY <1>1, <1>2, <2>1, <2>2
<1>9. \A g \in Files : Len(logged'[g]) <= MaxLines[g]
  <2>1. MaxLines[f] \in Nat /\ n <= MaxLines[f]
    BY <1>1, RetentionAssumption DEF Files
  <2> QED BY <1>1, <1>2, <2>1 DEF LineInv, Typed
<1>10. Typed'
  BY <1>6, <1>8, <1>9 DEF LineInv, Typed, TypeOK
<1> QED BY <1>6, <1>7, <1>10 DEF LineInv
(* A step of t that logs nothing.                                          *)
Quiet(t) ==
  /\ now' \in 0..MaxTime /\ up' \in {"down", "boot", "serving"}
  /\ pc' \in [Trimmers -> {"off", "read", "truncate", "write", "collect", "wait"}]
  /\ at' \in [Trimmers -> 1..Len(Order)]
  /\ cutoff' \in [Trimmers -> -Retention..MaxTime]
  /\ kills' \in 0..MaxKills /\ incidents' \subseteq {"tool", "overlap", "fail"}
  /\ UNCHANGED <<logged, exposed>>
  /\ \A s \in Trimmers \ {t} : pc'[s] = pc[s] /\ at'[s] = at[s]

LEMMA QuietKeepsLines ==
  ASSUME LineInv, NEW t \in Trimmers, Quiet(t),
         NEW k \in Seq(Line \ {Fragment}), kept' = [kept EXCEPT ![t] = k],
         NEW f \in Files, NEW r \in Seq(Line), file' = [file EXCEPT ![f] = r],
         TrueTo(logged[f], r),
         Editing(t)' => at'[t] = at[t] /\ TrueTo(logged[FileOf(t)], k)
  PROVE  LineInv'
<1>1. /\ kept' \in [Trimmers -> Seq(Line \ {Fragment})]
      /\ file' \in [Files -> Seq(Line)]
      /\ \A g \in Files : TrueTo(logged'[g], file'[g])
  BY DEF LineInv, Typed, Quiet
<1>2. Typed'
  BY <1>1 DEF LineInv, Typed, TypeOK, Quiet
<1>3. \A s \in Trimmers : Editing(s)' => TrueTo(logged'[FileOf(s)'], kept'[s])
  <2> SUFFICES ASSUME NEW s \in Trimmers, Editing(s)'
               PROVE  TrueTo(logged'[FileOf(s)'], kept'[s])
    OBVIOUS
  <2>1. kept \in [Trimmers -> Seq(Line \ {Fragment})]
    BY DEF LineInv, Typed
  <2>2. CASE s = t
    BY <2>1, <2>2 DEF FileOf, Quiet
  <2>3. CASE s # t
    <3>1. Editing(s)
      BY <2>3 DEF Quiet, Editing
    <3> QED BY <2>1, <2>3, <3>1 DEF FileOf, LineInv, Quiet
  <2> QED BY <2>2, <2>3
<1> QED BY <1>1, <1>2, <1>3 DEF LineInv

LEMMA BeginKeepsLines ==
  ASSUME LineInv, NEW t \in Trimmers, Begin(t), up' \in {"down", "boot", "serving"}
  PROVE  LineInv'
<1>1. Quiet(t)
  <2>1. /\ cutoff \in [Trimmers -> -Retention..MaxTime]
        /\ pc \in [Trimmers -> {"off", "read", "truncate", "write", "collect", "wait"}]
        /\ at \in [Trimmers -> 1..Len(Order)] /\ Len(Order) = 2 /\ Retention \in Nat /\ MaxTime \in Nat
        /\ now \in 0..MaxTime /\ kills \in 0..MaxKills /\ incidents \subseteq {"tool", "overlap", "fail"}
    BY RetentionAssumption DEF LineInv, Typed, TypeOK, Order
  <2>2. now - Retention \in -Retention..MaxTime
    BY <2>1
  <2>3. pc' \in [Trimmers -> {"off", "read", "truncate", "write", "collect", "wait"}]
        /\ at' \in [Trimmers -> 1..Len(Order)]
        /\ cutoff' \in [Trimmers -> -Retention..MaxTime]
    BY <2>1, <2>2 DEF Begin
  <2>4. incidents' \subseteq {"tool", "overlap", "fail"}
    BY <2>1 DEF Begin
  <2> QED BY <2>1, <2>3, <2>4 DEF Begin, Quiet
<1>2. ~Editing(t)'
  BY DEF Begin, Editing, LineInv, Typed, TypeOK
<1>3. << >> \in Seq(Line \ {Fragment}) /\ kept' = [kept EXCEPT ![t] = << >>]
  BY DEF Begin
<1>4. PICK f \in Files : TRUE
  BY DEF Files
<1>5. file[f] \in Seq(Line) /\ file' = [file EXCEPT ![f] = file[f]] /\ TrueTo(logged[f], file[f])
  BY DEF Begin, LineInv, Typed
<1> QED BY <1>1, <1>2, <1>3, <1>5, QuietKeepsLines

(* Going on to the next file, or out of the pass.                          *)
LEMMA AdvanceIs ==
  ASSUME LineInv, NEW t \in Trimmers, pc[t] \in {"read", "write"}, Advance(t)
  PROVE  /\ pc' \in [Trimmers -> {"off", "read", "truncate", "write", "collect", "wait"}]
         /\ at' \in [Trimmers -> 1..Len(Order)]
         /\ up' \in {"down", "boot", "serving"}
         /\ \A s \in Trimmers \ {t} : pc'[s] = pc[s] /\ at'[s] = at[s] /\ kept'[s] = kept[s]
         /\ pc'[t] \in {"read", "wait", "off", "collect"}
         /\ kept' = [kept EXCEPT ![t] = << >>]
         /\ t # "edge" => UNCHANGED up
         /\ t = "edge" => pc'[t] # "off" /\ up' \in {up, "serving"}
<1>1. /\ pc \in [Trimmers -> {"off", "read", "truncate", "write", "collect", "wait"}]
      /\ at \in [Trimmers -> 1..Len(Order)] /\ Len(Order) = 2
      /\ up \in {"down", "boot", "serving"}
      /\ kept \in [Trimmers -> Seq(Line \ {Fragment})]
  BY DEF LineInv, Typed, TypeOK, Order
<1>2. CASE at[t] < Len(Order)
  <2>1. at[t] \in 1..2 /\ at[t] + 1 \in 1..2
    BY <1>1, <1>2
  <2> QED BY <1>1, <1>2, <2>1 DEF Advance
<1>3. CASE ~(at[t] < Len(Order))
  <2>1. AfterPass(t) \in {"wait", "off", "collect"} /\ (t = "edge" => AfterPass(t) # "off")
    BY DEF AfterPass
  <2> QED BY <1>1, <1>3, <2>1 DEF Advance
<1> QED BY <1>2, <1>3

LEMMA ReadKeepsLines ==
  ASSUME LineInv, NEW t \in Trimmers, ReadLog(t)
  PROVE  LineInv'
<1> DEFINE f == FileOf(t)
           rest == Filtered(file[f], cutoff[t])
<1>1. /\ f \in Files /\ file[f] \in Seq(Line) /\ TrueTo(logged[f], file[f])
      /\ file \in [Files -> Seq(Line)]
      /\ now \in 0..MaxTime /\ kills \in 0..MaxKills /\ incidents \subseteq {"tool", "overlap", "fail"}
      /\ cutoff \in [Trimmers -> -Retention..MaxTime]
      /\ pc \in [Trimmers -> {"off", "read", "truncate", "write", "collect", "wait"}]
      /\ at \in [Trimmers -> 1..Len(Order)] /\ up \in {"down", "boot", "serving"}
  BY FilesAre DEF LineInv, Typed, TypeOK
<1>2. file' = [file EXCEPT ![f] = file[f]]
  BY <1>1 DEF ReadLog
<1>3. CASE rest = file[f]
  <2>1. Advance(t) /\ pc[t] = "read"
    BY <1>3 DEF ReadLog
  <2>2. Quiet(t) /\ ~Editing(t)' /\ kept' = [kept EXCEPT ![t] = << >>]
    BY <1>1, <2>1, AdvanceIs DEF ReadLog, Quiet, Editing
  <2>3. << >> \in Seq(Line \ {Fragment})
    OBVIOUS
  <2> QED BY <1>1, <1>2, <2>2, <2>3, QuietKeepsLines
<1>4. CASE rest # file[f]
  <2>1. /\ kept' = [kept EXCEPT ![t] = Text(rest)]
        /\ pc' = [pc EXCEPT ![t] = "truncate"]
        /\ UNCHANGED <<up, at>>
    BY <1>4 DEF ReadLog
  <2>2. Quiet(t)
    BY <1>1, <2>1 DEF ReadLog, Quiet
  <2>3. rest \in Seq(Line) /\ \E pick : Picks(pick, rest, file[f], cutoff[t])
    BY <1>1, FilteredKeeps
  <2> HIDE DEF rest
  <2>4. /\ Text(rest) \in Seq(Line \ {Fragment})
        /\ DOMAIN Text(rest) = DOMAIN rest
        /\ \A i \in DOMAIN rest : Text(rest)[i] \in {rest[i], Garbled}
    BY <2>3, TextCloses
  <2>5. TrueTo(logged[f], Text(rest))
    <3>1. \A i \in Recs(Text(rest)) : \E j \in Recs(file[f]) : Text(rest)[i] = file[f][j]
      BY <2>3, <2>4, NotRecords DEF Picks, Recs
    <3> QED BY <1>1, <3>1 DEF TrueTo
  <2> QED BY <1>1, <1>2, <2>1, <2>2, <2>4, <2>5, QuietKeepsLines
<1> QED BY <1>3, <1>4

LEMMA TruncateKeepsLines ==
  ASSUME LineInv, NEW t \in Trimmers, TruncateLog(t)
  PROVE  LineInv'
<1>1. /\ FileOf(t) \in Files /\ kept[t] \in Seq(Line \ {Fragment})
      /\ kept' = [kept EXCEPT ![t] = kept[t]]
  BY FilesAre DEF LineInv, Typed, TruncateLog
<1>2. Quiet(t)
  BY DEF LineInv, Typed, TypeOK, TruncateLog, Quiet
<1>3. << >> \in Seq(Line) /\ TrueTo(logged[FileOf(t)], << >>) /\ file' = [file EXCEPT ![FileOf(t)] = << >>]
  BY DEF TruncateLog, TrueTo, Recs
<1>4. at'[t] = at[t] /\ TrueTo(logged[FileOf(t)], kept[t])
  BY DEF TruncateLog, LineInv, Editing
<1> QED BY <1>1, <1>2, <1>3, <1>4, QuietKeepsLines

LEMMA WriteKeepsLines ==
  ASSUME LineInv, NEW t \in Trimmers, WriteLog(t)
  PROVE  LineInv'
<1> DEFINE f == FileOf(t)
<1>1. /\ f \in Files /\ file[f] \in Seq(Line) /\ kept[t] \in Seq(Line)
      /\ TrueTo(logged[f], file[f]) /\ TrueTo(logged[f], kept[t])
      /\ pc[t] = "write" /\ Advance(t)
  <2>1. kept[t] \in Seq(Line)
    BY SeqMonotonic DEF LineInv, Typed
  <2> QED BY <2>1, FilesAre DEF LineInv, Typed, WriteLog, Editing
<1>2. PICK r \in Overwritten(file[f], kept[t]) : file' = [file EXCEPT ![f] = r]
  BY DEF WriteLog
<1> HIDE DEF f
<1>3. r \in Seq(Line) /\ TrueTo(logged[f], r)
  BY <1>1, <1>2, OverwrittenIs, SplicedTrue
<1>4. Quiet(t) /\ ~Editing(t)' /\ kept' = [kept EXCEPT ![t] = << >>]
  BY <1>1, AdvanceIs DEF WriteLog, Quiet, Editing, LineInv, Typed, TypeOK
<1>5. << >> \in Seq(Line \ {Fragment})
  OBVIOUS
<1> QED BY <1>1, <1>2, <1>3, <1>4, <1>5, QuietKeepsLines

LEMMA FailKeepsLines ==
  ASSUME LineInv, NEW t \in Trimmers, WriteFails(t)
  PROVE  LineInv'
<1> DEFINE f == FileOf(t)
<1>1. /\ f \in Files /\ file[f] \in Seq(Line) /\ kept[t] \in Seq(Line)
      /\ TrueTo(logged[f], file[f]) /\ TrueTo(logged[f], kept[t])
      /\ pc[t] = "write"
  <2>1. kept[t] \in Seq(Line)
    BY SeqMonotonic DEF LineInv, Typed
  <2> QED BY <2>1, FilesAre DEF LineInv, Typed, WriteFails, Editing
<1>2. PICK r \in Cut(file[f], kept[t]) : file' = [file EXCEPT ![f] = r]
  BY DEF WriteFails
<1> HIDE DEF f
<1>3. r \in Seq(Line) /\ TrueTo(logged[f], r)
  BY <1>1, <1>2, CutIs, SplicedTrue
<1>4. Quiet(t) /\ ~Editing(t)' /\ kept' = [kept EXCEPT ![t] = << >>]
  BY DEF WriteFails, Quiet, Editing, LineInv, Typed, TypeOK
<1>5. << >> \in Seq(Line \ {Fragment})
  OBVIOUS
<1> QED BY <1>1, <1>2, <1>3, <1>4, <1>5, QuietKeepsLines

LEMMA RestKeepsLines ==
  ASSUME LineInv, Tick \/ \E t \in Trimmers : Kill(t)
  PROVE  LineInv'
<1>1. /\ LineInv /\ Typed /\ TypeOK
      /\ "edge" \in Trimmers /\ MaxKills \in Nat /\ MaxTime \in Nat
  BY RetentionAssumption DEF LineInv, Typed, Trimmers
<1>2. \A t \in Trimmers : FileOf(t) \in Files /\ kept[t] \in Seq(Line \ {Fragment})
  BY FilesAre DEF LineInv, Typed
<1>3. PICK f \in Files : TRUE
  BY DEF Files
<1>4. file[f] \in Seq(Line) /\ TrueTo(logged[f], file[f]) /\ (UNCHANGED file => file' = [file EXCEPT ![f] = file[f]])
  BY DEF LineInv, Typed
<1>5. CASE Tick
  <2>1. Quiet("edge")
    BY <1>1, <1>5 DEF Tick, TypeOK, Quiet
  <2>2. kept' = [kept EXCEPT !["edge"] = kept["edge"]] /\ UNCHANGED file /\ at' = at
    BY <1>1, <1>5 DEF Tick, Typed
  <2>3. Editing("edge")' => TrueTo(logged[FileOf("edge")], kept["edge"])
    BY <1>1, <1>5 DEF Tick, Editing, LineInv
  <2> QED BY <1>1, <1>2, <1>4, <2>1, <2>2, <2>3, QuietKeepsLines
<1>6. ASSUME NEW t \in Trimmers, Kill(t) PROVE LineInv'
  <2>1. Quiet(t) /\ ~Editing(t)' /\ kept' = [kept EXCEPT ![t] = << >>] /\ UNCHANGED file
    BY <1>1, <1>6 DEF Kill, Quiet, Editing, TypeOK
  <2>2. << >> \in Seq(Line \ {Fragment})
    OBVIOUS
  <2> QED BY <1>4, <2>1, <2>2, QuietKeepsLines
<1> QED BY <1>5, <1>6

LEMMA LineInvHolds == Spec => []LineInv
<1>1. Init => LineInv
  <2> SUFFICES ASSUME Init PROVE LineInv
    OBVIOUS
  <2>1. /\ << >> \in Seq(Line \ {Fragment}) /\ << >> \in Seq(Line) /\ << >> \in Seq(0..MaxTime)
        /\ Len(Order) = 2 /\ MaxLines \in [Files -> Nat] /\ Retention \in Nat /\ MaxTime \in Nat /\ MaxKills \in Nat
        /\ -Retention \in -Retention..MaxTime
    BY RetentionAssumption DEF Order, Files
  <2>2. TypeOK
    BY <2>1 DEF Init, TypeOK
  <2>3. Typed
    BY <2>1, <2>2 DEF Init, Typed
  <2>4. \A f \in Files : TrueTo(logged[f], file[f])
    BY DEF Init, TrueTo, Recs
  <2>5. \A t \in Trimmers : ~Editing(t)
    BY DEF Init, Editing
  <2> QED BY <2>3, <2>4, <2>5 DEF LineInv
<1>2. LineInv /\ [Next]_vars => LineInv'
  <2> SUFFICES ASSUME LineInv, [Next]_vars PROVE LineInv'
    OBVIOUS
  <2>0. "edge" \in Trimmers /\ Tools \subseteq Trimmers /\ "access" \in Files /\ "metrics" \in Files
    BY DEF Trimmers, Files
  <2>1. CASE StartEdge
    BY <2>0, <2>1, BeginKeepsLines DEF StartEdge
  <2>2. CASE LogRequest
    BY <2>0, <2>2, LogKeepsLines DEF LogRequest, LineInv, Typed, TypeOK, Editing
  <2>3. CASE Tick
    BY <2>3, RestKeepsLines
  <2>4. ASSUME NEW t \in Trimmers, Trim(t) PROVE LineInv'
    BY <2>4, ReadKeepsLines, TruncateKeepsLines, WriteKeepsLines DEF Trim
  <2>5. ASSUME NEW t \in Trimmers, Collect(t) PROVE LineInv'
    <3>1. PICK next \in {"wait", "off"} : pc' = [pc EXCEPT ![t] = next]
      BY <2>5 DEF Collect
    <3>2. pc' \in [Trimmers -> {"off", "read", "truncate", "write", "collect", "wait"}]
          /\ \A s \in Trimmers : Editing(s)' => Editing(s)
      BY <3>1 DEF LineInv, Typed, TypeOK, Editing
    <3>3. CASE Log("metrics")
      BY <2>0, <2>5, <3>2, <3>3, LogKeepsLines DEF Collect
    <3>4. CASE UNCHANGED <<file, logged, exposed>>
      <4>1. Quiet(t) /\ ~Editing(t)' /\ kept' = [kept EXCEPT ![t] = kept[t]] /\ kept[t] \in Seq(Line \ {Fragment})
        BY <2>5, <3>1, <3>2, <3>4 DEF Collect, Quiet, LineInv, Typed, TypeOK, Editing
      <4>2. file' = [file EXCEPT !["metrics"] = file["metrics"]] /\ file["metrics"] \in Seq(Line)
            /\ TrueTo(logged["metrics"], file["metrics"])
        BY <2>0, <3>4 DEF LineInv, Typed
      <4> QED BY <2>0, <4>1, <4>2, QuietKeepsLines
    <3> QED BY <2>5, <3>3, <3>4 DEF Collect
  <2>6. ASSUME NEW t \in Trimmers, NextRound(t) \/ StartTool(t) PROVE LineInv'
    BY <2>6, BeginKeepsLines DEF NextRound, StartTool, LineInv, Typed, TypeOK
  <2>7. ASSUME NEW t \in Trimmers, WriteFails(t) PROVE LineInv'
    BY <2>7, FailKeepsLines
  <2>8. ASSUME NEW t \in Trimmers, Kill(t) PROVE LineInv'
    BY <2>8, RestKeepsLines
  <2>9. CASE UNCHANGED vars
    BY <2>9 DEF vars, LineInv, Typed, TypeOK, Editing, FileOf, TrueTo, Recs
  <2> QED BY <2>1, <2>2, <2>3, <2>4, <2>5, <2>6, <2>7, <2>8, <2>9 DEF Next, Run
<1> QED BY <1>1, <1>2, PTL DEF Spec

(* Every state of the processes and the logs is of its type.               *)
THEOREM TypeCorrect == Spec => []TypeOK
  BY LineInvHolds, PTL DEF LineInv, Typed
-----------------------------------------------------------------------------
(* The order of the records.                                               *)

(* Records in the order they were logged, each once.                       *)
Sorted(s) == \A i, j \in Recs(s) : i < j => s[i].n < s[j].n

(* What a trim holds back is older than what was written since.            *)
Before(s, lines) == \A i \in Recs(s), j \in Recs(lines) : s[i].n < lines[j].n

(* One trim at a time: the text it is to write is in order, and goes       *)
(* before all that the file has got since it was emptied.                  *)
Calm ==
  /\ \A s, t \in Busy : s = t
  /\ \A f \in Files : Sorted(file[f])
  /\ \A t \in Trimmers : Editing(t) => Sorted(kept[t])
  /\ \A t \in Trimmers : pc[t] = "write" => Before(kept[t], file[FileOf(t)])

OrderInv == "overlap" \notin incidents => Calm

LEMMA SplicedSorted ==
  ASSUME NEW r \in Seq(Line), NEW text \in Seq(Line), NEW lines \in Seq(Line),
         NEW n \in Nat, NEW d \in Int, Spliced(r, text, lines, n, d),
         Sorted(text), Sorted(lines), Before(text, lines)
  PROVE  Sorted(r)
<1> SUFFICES ASSUME NEW i \in Recs(r), NEW j \in Recs(r), i < j
             PROVE  r[i].n < r[j].n
  BY DEF Sorted
<1>0. \A k \in Recs(r) : k \in Int /\ k \in 1..Len(r) /\ r[k].kind = "record"
  BY DEF Recs
<1>1. \A k \in Recs(r) : k <= n => k \in Recs(text) /\ r[k] = text[k]
  BY <1>0 DEF Spliced, Recs
<1>2. \A k \in Recs(r) : ~(k <= n) => k - d \in Recs(lines) /\ r[k] = lines[k - d]
  BY <1>0, NotRecords DEF Spliced, Recs
<1>3. i \in Int /\ j \in Int
  BY <1>0
<1>4. CASE j <= n
  <2>1. i <= n
    BY <1>3, <1>4
  <2> QED BY <1>1, <1>4, <2>1 DEF Sorted
<1>5. CASE i <= n /\ ~(j <= n)
  BY <1>1, <1>2, <1>5 DEF Before
<1>6. CASE ~(i <= n)
  <2>1. ~(j <= n) /\ i - d < j - d
    BY <1>3, <1>6
  <2> QED BY <1>2, <1>6, <2>1 DEF Sorted
<1> QED BY <1>3, <1>4, <1>5, <1>6

(* A step of the one trim.                                                 *)
LEMMA TrimKeepsCalm ==
  ASSUME LineInv, Calm, NEW t \in Busy, Quiet(t),
         NEW k, kept' = [kept EXCEPT ![t] = k],
         NEW r, file' = [file EXCEPT ![FileOf(t)] = r], Sorted(r),
         Editing(t)' => at'[t] = at[t] /\ Sorted(k),
         pc'[t] = "write" => Before(k, r)
  PROVE  Calm'
<1>1. t \in Trimmers /\ FileOf(t) \in Files
  BY FilesAre DEF Busy, LineInv
<1>2. \A s \in Trimmers \ {t} : s \notin Busy /\ pc'[s] = pc[s] /\ ~Editing(s) /\ ~Editing(s)'
  BY DEF Calm, Quiet, Busy, Editing
<1>3. \A s \in Busy' : s = t
  BY <1>2 DEF Busy
<1>4. \A f \in Files : Sorted(file'[f])
  BY <1>1 DEF Calm, LineInv, Typed
<1>5. ASSUME Editing(t)' PROVE Sorted(kept'[t]) /\ (pc'[t] = "write" => Before(kept'[t], file'[FileOf(t)']))
  BY <1>1, <1>5 DEF FileOf, LineInv, Typed
<1>6. \A s \in Trimmers : pc'[s] = "write" => Editing(s)'
  BY DEF Editing
<1> QED BY <1>2, <1>3, <1>4, <1>5, <1>6 DEF Calm

LEMMA BeginIsCalm ==
  ASSUME LineInv, Calm, NEW t \in Trimmers, Begin(t), "overlap" \notin incidents'
  PROVE  Calm'
<1>1. Busy \ {t} = {}
  BY DEF Begin
<1>2. \A s \in Trimmers : s # t => s \notin Busy /\ pc'[s] = pc[s] /\ ~Editing(s)'
  BY <1>1 DEF Begin, Busy, Editing, LineInv, Typed, TypeOK
<1>3. pc'[t] = "read" /\ UNCHANGED file /\ ~Editing(t)'
  BY DEF Begin, Editing, LineInv, Typed, TypeOK
<1>4. \A s \in Busy' : s = t
  BY <1>2 DEF Busy
<1> QED BY <1>2, <1>3, <1>4 DEF Calm, Editing

LEMMA ReadIsCalm ==
  ASSUME LineInv, Calm, NEW t \in Trimmers, ReadLog(t)
  PROVE  Calm'
<1> DEFINE f == FileOf(t)
           rest == Filtered(file[f], cutoff[t])
<1>1. /\ f \in Files /\ file[f] \in Seq(Line) /\ Sorted(file[f]) /\ t \in Busy
      /\ file \in [Files -> Seq(Line)]
      /\ now \in 0..MaxTime /\ kills \in 0..MaxKills /\ incidents \subseteq {"tool", "overlap", "fail"}
      /\ cutoff \in [Trimmers -> -Retention..MaxTime]
      /\ pc \in [Trimmers -> {"off", "read", "truncate", "write", "collect", "wait"}]
      /\ at \in [Trimmers -> 1..Len(Order)] /\ up \in {"down", "boot", "serving"}
  BY FilesAre DEF LineInv, Typed, TypeOK, Calm, Busy, ReadLog
<1>2. file' = [file EXCEPT ![f] = file[f]]
  BY <1>1 DEF ReadLog
<1>3. CASE rest = file[f]
  <2>1. Advance(t) /\ pc[t] = "read"
    BY <1>3 DEF ReadLog
  <2>2. Quiet(t) /\ ~Editing(t)' /\ kept' = [kept EXCEPT ![t] = << >>]
    BY <1>1, <2>1, AdvanceIs DEF ReadLog, Quiet, Editing
  <2>3. pc'[t] # "write"
    BY <2>2 DEF Editing
  <2> QED BY <1>1, <1>2, <2>2, <2>3, TrimKeepsCalm
<1>4. CASE rest # file[f]
  <2>1. /\ kept' = [kept EXCEPT ![t] = Text(rest)]
        /\ pc' = [pc EXCEPT ![t] = "truncate"] /\ pc'[t] = "truncate"
        /\ UNCHANGED <<up, at>>
    BY <1>1, <1>4 DEF ReadLog
  <2>2. Quiet(t)
    BY <1>1, <2>1 DEF ReadLog, Quiet
  <2>3. PICK pick : rest \in Seq(Line) /\ Picks(pick, rest, file[f], cutoff[t])
    BY <1>1, FilteredKeeps
  <2> HIDE DEF rest
  <2>4. /\ DOMAIN Text(rest) = DOMAIN rest
        /\ \A i \in DOMAIN rest : Text(rest)[i] \in {rest[i], Garbled}
    BY <2>3, TextCloses
  <2>5. Sorted(Text(rest))
    <3>1. \A i \in Recs(Text(rest)) : i \in DOMAIN rest /\ pick[i] \in Recs(file[f]) /\ Text(rest)[i] = file[f][pick[i]]
      BY <2>3, <2>4, NotRecords DEF Picks, Recs
    <3>2. \A i, j \in Recs(Text(rest)) : i < j => pick[i] < pick[j]
      BY <2>3, <3>1 DEF Picks
    <3> QED BY <1>1, <3>1, <3>2 DEF Sorted
  <2> QED BY <1>1, <1>2, <2>1, <2>2, <2>5, TrimKeepsCalm
<1> QED BY <1>3, <1>4

LEMMA TruncateIsCalm ==
  ASSUME LineInv, Calm, NEW t \in Trimmers, TruncateLog(t)
  PROVE  Calm'
<1>1. t \in Busy /\ Editing(t) /\ Sorted(kept[t]) /\ kept' = [kept EXCEPT ![t] = kept[t]]
  BY DEF LineInv, Typed, TruncateLog, Busy, Editing, Calm
<1>2. Quiet(t)
  BY DEF LineInv, Typed, TypeOK, TruncateLog, Quiet
<1>3. Sorted(<< >>) /\ Before(kept[t], << >>) /\ file' = [file EXCEPT ![FileOf(t)] = << >>] /\ at' = at
  BY DEF TruncateLog, Sorted, Before, Recs
<1> QED BY <1>1, <1>2, <1>3, TrimKeepsCalm

LEMMA WriteIsCalm ==
  ASSUME LineInv, Calm, NEW t \in Trimmers, WriteLog(t) \/ WriteFails(t)
  PROVE  Calm'
<1> DEFINE f == FileOf(t)
<1>1. /\ f \in Files /\ file[f] \in Seq(Line) /\ kept[t] \in Seq(Line)
      /\ Sorted(file[f]) /\ Sorted(kept[t]) /\ Before(kept[t], file[f])
      /\ pc[t] = "write" /\ t \in Busy
  <2>1. kept[t] \in Seq(Line)
    BY SeqMonotonic DEF LineInv, Typed
  <2> QED BY <2>1, FilesAre DEF LineInv, Typed, WriteLog, WriteFails, Editing, Calm, Busy
<1>2. PICK r : /\ r \in Overwritten(file[f], kept[t]) \/ r \in Cut(file[f], kept[t])
               /\ file' = [file EXCEPT ![f] = r]
  BY DEF WriteLog, WriteFails
<1>3. Quiet(t) /\ ~Editing(t)' /\ kept' = [kept EXCEPT ![t] = << >>] /\ pc'[t] # "write"
  <2>1. CASE WriteLog(t)
    BY <1>1, <2>1, AdvanceIs DEF WriteLog, Quiet, Editing, LineInv, Typed, TypeOK
  <2>2. CASE WriteFails(t)
    BY <2>2 DEF WriteFails, Quiet, Editing, LineInv, Typed, TypeOK
  <2> QED BY <2>1, <2>2
<1> HIDE DEF f
<1>4. Sorted(r)
  <2>1. PICK n \in 0..Len(kept[t]), d \in Int : r \in Seq(Line) /\ Spliced(r, kept[t], file[f], n, d)
    <3>1. Len(kept[t]) \in 0..Len(kept[t])
      BY <1>1
    <3> QED BY <1>1, <1>2, <3>1, OverwrittenIs, CutIs
  <2>2. n \in Nat
    BY <1>1
  <2> QED BY <1>1, <2>1, <2>2, SplicedSorted
<1>5. file' = [file EXCEPT ![FileOf(t)] = r]
  BY <1>2 DEF f
<1> QED BY <1>1, <1>3, <1>4, <1>5, TrimKeepsCalm

LEMMA LogIsCalm ==
  ASSUME LineInv, Calm, NEW f \in Files, Log(f), UNCHANGED <<kept, at>>,
         \A t \in Trimmers : pc'[t] = pc[t] \/ (t \notin Busy /\ t \notin Busy')
  PROVE  Calm'
<1> DEFINE n == Len(logged[f]) + 1
           line == Record(f, n, now)
           r == Appended(file[f], line)
<1>1. line \in Line /\ file' = [file EXCEPT ![f] = r] /\ line.n = n
  BY LogIs DEF Record
<1>2. /\ file[f] \in Seq(Line) /\ Sorted(file[f]) /\ file \in [Files -> Seq(Line)]
      /\ Len(logged[f]) \in Nat /\ DOMAIN logged[f] = 1..Len(logged[f])
      /\ TrueTo(logged[f], file[f])
  BY DEF LineInv, Typed, Calm
<1>3. \A m \in DOMAIN logged[f] : m < n
  BY <1>2
<1> HIDE DEF line, n
<1>4. /\ r \in Seq(Line)
      /\ \A i \in DOMAIN r :
           \/ i \in DOMAIN file[f] /\ r[i] \in {file[f][i], Garbled}
           \/ i = Len(file[f]) + 1 /\ r[i] = line
  BY <1>1, <1>2, AppendedIs
<1> HIDE DEF r
<1>5. \A i \in Recs(r) : \/ i \in Recs(file[f]) /\ r[i] = file[f][i] /\ r[i].n < n
                         \/ i = Len(file[f]) + 1 /\ r[i].n = n
  BY <1>1, <1>2, <1>3, <1>4, NotRecords DEF Recs, TrueTo
<1>6. Sorted(r)
  <2>0. Len(file[f]) \in Nat /\ \A i \in Recs(file[f]) : i \in 1..Len(file[f])
    BY <1>2 DEF Recs
  <2>1. ASSUME NEW i \in Recs(r), NEW j \in Recs(r), i < j PROVE r[i].n < r[j].n
    <3>1. i \in Recs(file[f])
      BY <1>4, <1>5, <2>0, <2>1 DEF Recs
    <3> QED BY <1>2, <1>5, <2>0, <2>1, <3>1 DEF Sorted
  <2> QED BY <2>1 DEF Sorted
<1>7. \A s \in Trimmers : /\ (Editing(s)' <=> Editing(s)) /\ (s \in Busy' <=> s \in Busy)
                          /\ (pc'[s] = "write" <=> pc[s] = "write")
  BY DEF Editing, Busy
<1>8. \A s \in Trimmers : pc[s] = "write" => Before(kept[s], file'[FileOf(s)])
  <2> SUFFICES ASSUME NEW s \in Trimmers, pc[s] = "write" PROVE Before(kept[s], file'[FileOf(s)])
    OBVIOUS
  <2>1. FileOf(s) \in Files /\ Editing(s) /\ TrueTo(logged[FileOf(s)], kept[s]) /\ Before(kept[s], file[FileOf(s)])
    BY FilesAre DEF Editing, LineInv, Calm
  <2>2. CASE FileOf(s) # f
    BY <1>1, <1>2, <2>1, <2>2
  <2>3. CASE FileOf(s) = f
    <3>1. \A i \in Recs(kept[s]) : kept[s][i].n < n
      BY <1>3, <2>1, <2>3 DEF TrueTo
    <3> QED BY <1>1, <1>2, <1>5, <2>1, <2>3, <3>1 DEF Before
  <2> QED BY <2>2, <2>3
<1>9. \A s, u \in Busy' : s = u
  BY <1>7 DEF Calm, Busy
<1>10. \A g \in Files : Sorted(file'[g])
  BY <1>1, <1>2, <1>6 DEF Calm
<1>11. \A s \in Trimmers : Editing(s)' => Sorted(kept'[s])
  BY <1>7 DEF Calm
<1>12. \A s \in Trimmers : pc'[s] = "write" => Before(kept'[s], file'[FileOf(s)'])
  BY <1>7, <1>8 DEF FileOf
<1> QED BY <1>9, <1>10, <1>11, <1>12 DEF Calm

LEMMA OrderInvHolds == Spec => []OrderInv
<1>1. Init => OrderInv
  BY DEF Init, OrderInv, Calm, Busy, Editing, Sorted, Recs
<1>2. LineInv /\ OrderInv /\ [Next]_vars => OrderInv'
  <2> SUFFICES ASSUME LineInv, OrderInv, [Next]_vars, "overlap" \notin incidents'
               PROVE  Calm'
    BY DEF OrderInv
  <2>0. /\ "edge" \in Trimmers /\ "access" \in Files /\ "metrics" \in Files
        /\ pc \in [Trimmers -> {"off", "read", "truncate", "write", "collect", "wait"}]
        /\ kept \in [Trimmers -> Seq(Line \ {Fragment})]
    BY DEF Trimmers, Files, LineInv, Typed, TypeOK
  <2>1. incidents \subseteq incidents'
    BY DEF Next, Run, Trim, StartEdge, LogRequest, Tick, ReadLog, TruncateLog, WriteLog,
           WriteFails, Collect, NextRound, StartTool, Begin, Kill, vars
  <2>2. Calm
    BY <2>1 DEF OrderInv
  <2>3. ASSUME NEW t \in Trimmers, Begin(t) PROVE Calm'
    BY <2>2, <2>3, BeginIsCalm
  <2>4. CASE LogRequest
    <3>1. Log("access") /\ UNCHANGED <<pc, at, kept>>
      BY <2>4 DEF LogRequest
    <3>2. \A s \in Trimmers : pc'[s] = pc[s] \/ (s \notin Busy /\ s \notin Busy')
      BY <3>1
    <3> QED BY <2>0, <2>2, <3>1, <3>2, LogIsCalm
  <2>5. ASSUME UNCHANGED file, \A s \in Trimmers : s \in Busy' => /\ pc'[s] = pc[s] /\ at'[s] = at[s]
                                                                  /\ kept'[s] = kept[s]
        PROVE  Calm'
    <3>1. \A s \in Trimmers : s \in Busy' => s \in Busy
      BY <2>5 DEF Busy
    <3>2. \A s \in Trimmers : Editing(s)' \/ pc'[s] = "write" => s \in Busy'
      BY DEF Editing, Busy
    <3>3. \A s, u \in Busy' : s = u
      BY <2>2, <3>1 DEF Calm, Busy
    <3>4. \A s \in Trimmers : Editing(s)' => Sorted(kept'[s])
      BY <2>2, <2>5, <3>2 DEF Calm, Editing
    <3>5. \A s \in Trimmers : pc'[s] = "write" => Before(kept'[s], file'[FileOf(s)'])
      BY <2>2, <2>5, <3>2 DEF Calm, FileOf
    <3> QED BY <2>2, <2>5, <3>3, <3>4, <3>5 DEF Calm
  <2>6. CASE Tick
    BY <2>5, <2>6 DEF Tick
  <2>7. ASSUME NEW t \in Trimmers, Kill(t) PROVE Calm'
    BY <2>0, <2>5, <2>7 DEF Kill, Busy
  <2>8. ASSUME NEW t \in Trimmers, Collect(t) PROVE Calm'
    <3>1. PICK next \in {"wait", "off"} : pc' = [pc EXCEPT ![t] = next]
      BY <2>8 DEF Collect
    <3>2. \A s \in Trimmers : pc'[s] = pc[s] \/ (s \notin Busy /\ s \notin Busy')
      <4>1. t \notin Busy /\ t \notin Busy'
        BY <2>0, <2>8, <3>1 DEF Collect, Busy
      <4>2. \A s \in Trimmers : s # t => pc'[s] = pc[s]
        BY <2>0, <3>1
      <4> QED BY <4>1, <4>2
    <3>3. CASE Log("metrics")
      BY <2>0, <2>2, <2>8, <3>2, <3>3, LogIsCalm DEF Collect
    <3>4. CASE UNCHANGED file
      BY <2>5, <2>8, <3>2, <3>4 DEF Collect
    <3> QED BY <2>8, <3>3, <3>4 DEF Collect
  <2>9. ASSUME NEW t \in Trimmers, Trim(t) \/ WriteFails(t) PROVE Calm'
    BY <2>2, <2>9, ReadIsCalm, TruncateIsCalm, WriteIsCalm DEF Trim
  <2>10. CASE UNCHANGED vars
    BY <2>5, <2>10 DEF vars
  <2> QED BY <2>0, <2>3, <2>4, <2>6, <2>7, <2>8, <2>9, <2>10
          DEF Next, Run, StartEdge, NextRound, StartTool
<1> QED BY <1>1, <1>2, LineInvHolds, PTL DEF Spec

(* As long as no two trims overlap, each log lists its records in the      *)
(* order they were appended, each once, whatever is killed, fails to be    *)
(* written or is appended in the middle of a trim.                         *)
THEOREM RecordsInOrder == Spec => []InOrder
<1>1. LineInv /\ OrderInv => InOrder
  BY DEF OrderInv, Calm, Sorted, Recs, InOrder
<1> QED BY <1>1, LineInvHolds, OrderInvHolds, PTL
-----------------------------------------------------------------------------
(* Nothing fresh is lost.                                                  *)

(* The edge's trim is to write record n back; it is at f; it emptied f.    *)
Keeps(n) == \E i \in Recs(kept["edge"]) : kept["edge"][i].n = n
Edited(f) == Editing("edge") /\ FileOf("edge") = f
Emptied(f) == pc["edge"] = "write" /\ FileOf("edge") = f

(* Where a record that has not expired is.                                 *)
Safe(f, n) ==
  \/ (Edited(f) => Keeps(n)) /\ (~Emptied(f) => Holds(f, n))
  \/ f # "metrics" /\ n \in exposed[f]

(* The edge's process, and its cutoff, which lags behind the clock.        *)
EdgeInv ==
  /\ up = "down" <=> pc["edge"] = "off"
  /\ cutoff["edge"] <= now - Retention

(* The edge server alone: nobody else runs, no line is left in pieces, and *)
(* all that is fresh is safe.                                              *)
Alone ==
  /\ \A t \in Tools : pc[t] = "off"
  /\ \A f \in Files : Fragment \notin Range(file[f])
  /\ \A f \in Files : \A n \in DOMAIN logged[f] : Fresh(f, n) => Safe(f, n)

LossInv == EdgeInv /\ (Undisturbed => Alone)

LEMMA TrimmersAre ==
  /\ "edge" \in Trimmers /\ "edge" \notin Tools /\ Tools \subseteq Trimmers
  /\ \A t \in Trimmers : t # "edge" => t \in Tools
  /\ "access" \in Files /\ "metrics" \in Files /\ "access" # "metrics"
  BY RetentionAssumption DEF Trimmers, Files

LEMMA EdgeInvStays ==
  ASSUME LineInv, EdgeInv, [Next]_vars
  PROVE  EdgeInv'
<1>1. /\ pc \in [Trimmers -> {"off", "read", "truncate", "write", "collect", "wait"}]
      /\ cutoff \in [Trimmers -> -Retention..MaxTime]
      /\ now \in 0..MaxTime /\ Retention \in Nat /\ MaxTime \in Nat
      /\ up \in {"down", "boot", "serving"}
      /\ cutoff["edge"] \in Int
  BY RetentionAssumption, TrimmersAre DEF LineInv, Typed, TypeOK
<1>2. CASE StartEdge
  BY <1>1, <1>2, TrimmersAre DEF StartEdge, Begin, EdgeInv
<1>3. CASE LogRequest
  BY <1>3 DEF LogRequest, EdgeInv
<1>4. CASE Tick
  BY <1>1, <1>4 DEF Tick, EdgeInv
<1>5. ASSUME NEW t \in Trimmers, NextRound(t) \/ StartTool(t) PROVE EdgeInv'
  <2>1. t = "edge" => pc[t] # "off"
    BY <1>5, TrimmersAre DEF NextRound, StartTool
  <2> QED BY <1>1, <1>5, <2>1, TrimmersAre DEF NextRound, StartTool, Begin, EdgeInv
<1>6. ASSUME NEW t \in Trimmers, pc[t] \in {"read", "write"}, Advance(t), UNCHANGED <<now, cutoff>>
      PROVE  EdgeInv'
  <2>1. CASE t = "edge"
    <3>1. up # "down" /\ pc'["edge"] # "off" /\ up' \in {up, "serving"}
      BY <1>6, <2>1, AdvanceIs DEF EdgeInv
    <3> QED BY <1>1, <1>6, <3>1 DEF EdgeInv
  <2>2. CASE t # "edge"
    <3>1. pc'["edge"] = pc["edge"] /\ UNCHANGED up
      BY <1>6, <2>2, AdvanceIs, TrimmersAre
    <3> QED BY <1>6, <3>1 DEF EdgeInv
  <2> QED BY <2>1, <2>2
<1>7. ASSUME NEW t \in Trimmers, ReadLog(t) PROVE EdgeInv'
  <2>1. CASE Filtered(file[FileOf(t)], cutoff[t]) = file[FileOf(t)]
    BY <1>6, <1>7, <2>1 DEF ReadLog
  <2>2. CASE Filtered(file[FileOf(t)], cutoff[t]) # file[FileOf(t)]
    BY <1>1, <1>7, <2>2, TrimmersAre DEF ReadLog, EdgeInv
  <2> QED BY <2>1, <2>2
<1>8. ASSUME NEW t \in Trimmers, TruncateLog(t) PROVE EdgeInv'
  BY <1>1, <1>8, TrimmersAre DEF TruncateLog, EdgeInv
<1>9. ASSUME NEW t \in Trimmers, WriteLog(t) PROVE EdgeInv'
  BY <1>6, <1>9 DEF WriteLog
<1>10. ASSUME NEW t \in Trimmers, WriteFails(t) PROVE EdgeInv'
  BY <1>1, <1>10, TrimmersAre DEF WriteFails, EdgeInv
<1>11. ASSUME NEW t \in Trimmers, Collect(t) PROVE EdgeInv'
  BY <1>1, <1>11, TrimmersAre DEF Collect, EdgeInv
<1>12. ASSUME NEW t \in Trimmers, Kill(t) PROVE EdgeInv'
  BY <1>1, <1>12, TrimmersAre DEF Kill, EdgeInv
<1>13. CASE UNCHANGED vars
  BY <1>13 DEF vars, EdgeInv
<1> QED BY <1>2, <1>3, <1>4, <1>5, <1>7, <1>8, <1>9, <1>10, <1>11, <1>12, <1>13
        DEF Next, Run, Trim

(* A step that logs nothing and leaves nothing to write back.              *)
LEMMA IdleKeepsAlone ==
  ASSUME LineInv, Alone, \A f \in Files : ~Edited(f),
         UNCHANGED <<file, logged, exposed>>, now' \in {now, now + 1},
         \A t \in Tools : pc'[t] = pc[t], ~Editing("edge")'
  PROVE  Alone'
<1>1. now \in Int /\ Retention \in Int /\ \A f \in Files : \A n \in DOMAIN logged[f] : logged[f][n] \in Int
  BY RetentionAssumption DEF LineInv, Typed, TypeOK
<1>2. ASSUME NEW f \in Files, NEW n \in DOMAIN logged[f], Fresh(f, n)' PROVE Safe(f, n)'
  <2>1. Fresh(f, n)
    BY <1>1, <1>2 DEF Fresh
  <2>2. ~Edited(f)' /\ ~Emptied(f)' /\ ~Emptied(f)
    BY DEF Edited, Emptied, Editing
  <2>3. Safe(f, n) /\ (Holds(f, n) => Holds(f, n)')
    BY <2>1 DEF Alone, Holds
  <2> QED BY <2>2, <2>3 DEF Safe
<1>3. \A f \in Files : \A n \in (DOMAIN logged[f])' : Fresh(f, n)' => Safe(f, n)'
  BY <1>2
<1> QED BY <1>3 DEF Alone

LEMMA TickKeepsAlone ==
  ASSUME LineInv, Alone, UNCHANGED <<file, logged, exposed, pc, at, kept>>,
         now' \in {now, now + 1}
  PROVE  Alone'
<1>1. now \in Int /\ Retention \in Int /\ \A f \in Files : \A n \in DOMAIN logged[f] : logged[f][n] \in Int
  BY RetentionAssumption DEF LineInv, Typed, TypeOK
<1>2. ASSUME NEW f \in Files, NEW n \in DOMAIN logged[f], Fresh(f, n)' PROVE Safe(f, n)'
  <2>1. Fresh(f, n)
    BY <1>1, <1>2 DEF Fresh
  <2>2. Safe(f, n)
    BY <2>1 DEF Alone
  <2> QED BY <2>2 DEF Safe, Edited, Emptied, Editing, FileOf, Keeps, Holds, Recs
<1>3. \A f \in Files : \A n \in (DOMAIN logged[f])' : Fresh(f, n)' => Safe(f, n)'
  BY <1>2
<1> QED BY <1>3 DEF Alone

(* A record is logged: into a file that a trim has read it counts as       *)
(* exposed, and the collector never logs while it trims.                   *)
LEMMA LogKeepsAlone ==
  ASSUME LineInv, Alone, NEW f \in Files, Log(f), UNCHANGED <<now, kept, at>>,
         \A t \in Tools : pc'[t] = pc[t],
         Editing("edge")' <=> Editing("edge"),
         pc'["edge"] = "write" <=> pc["edge"] = "write",
         f = "metrics" => ~Edited(f)
  PROVE  Alone'
<1> PICK n : n = Len(logged[f]) + 1
  OBVIOUS
<1> DEFINE line == Record(f, n, now)
           r == Appended(file[f], line)
           times == Append(logged[f], now)
<1>1. /\ line \in Line /\ line.n = n /\ line.kind = "record" /\ line # Fragment
      /\ file' = [file EXCEPT ![f] = r]
      /\ logged' = [logged EXCEPT ![f] = times]
      /\ DOMAIN times = DOMAIN logged[f] \union {n}
      /\ \A m \in DOMAIN logged[f] : times[m] = logged[f][m]
      /\ exposed' = [exposed EXCEPT ![f] = @ \union IF Rewriting(f) THEN {n} ELSE {}]
  BY LogIs, NotRecords DEF Record
<1>2. /\ file[f] \in Seq(Line) /\ file \in [Files -> Seq(Line)]
      /\ logged \in [Files -> Seq(0..MaxTime)] /\ exposed \in [Files -> SUBSET Nat]
      /\ Fragment \notin Range(file[f])
  BY DEF LineInv, Typed, Alone
<1>0. n \in Nat /\ \A m \in DOMAIN logged[f] : m # n
  BY <1>2
<1> HIDE DEF line, times
<1>3. /\ r \in Seq(Line)
      /\ DOMAIN file[f] \subseteq DOMAIN r
      /\ \A i \in DOMAIN r : \/ i \in DOMAIN file[f] /\ r[i] \in {file[f][i], Garbled}
                             \/ i = Len(file[f]) + 1 /\ r[i] = line
      /\ \A i \in DOMAIN file[f] : r[i] = file[f][i]
      /\ Len(file[f]) + 1 \in DOMAIN r /\ r[Len(file[f]) + 1] = line
  <2>1. line \in Line /\ file[f] \in Seq(Line) /\ Fragment \notin Range(file[f])
    BY <1>1, <1>2
  <2> QED BY <2>1, AppendedIs
<1> HIDE DEF r
<1>4. Fragment \notin Range(r)
  BY <1>1, <1>2, <1>3, Garbling DEF Range
<1>5. /\ \A g \in Files, m \in Nat : Holds(g, m) => Holds(g, m)'
      /\ Holds(f, n)'
  <2>1. file'[f] = r /\ \A g \in Files : g # f => file'[g] = file[g]
    BY <1>1, <1>2
  <2>2. Holds(f, n)'
    BY <1>1, <1>3, <2>1 DEF Holds
  <2>3. ASSUME NEW g \in Files, NEW m \in Nat, Holds(g, m) PROVE Holds(g, m)'
    <3>1. PICK i \in DOMAIN file[g] : file[g][i].kind = "record" /\ file[g][i].n = m
      BY <2>3 DEF Holds
    <3>2. i \in DOMAIN file'[g] /\ file'[g][i] = file[g][i]
      BY <1>3, <2>1, <3>1
    <3> QED BY <3>1, <3>2 DEF Holds
  <2> QED BY <2>2, <2>3
<1>6. \A g \in Files : (Edited(g)' <=> Edited(g)) /\ (Emptied(g)' <=> Emptied(g))
  BY DEF Edited, Emptied, FileOf
<1>7. ASSUME NEW g \in Files, NEW m \in (DOMAIN logged[g])', Fresh(g, m)' PROVE Safe(g, m)'
  <2>1. CASE g # f \/ m # n
    <3>1. m \in DOMAIN logged[g] /\ logged'[g][m] = logged[g][m]
      BY <1>1, <1>2, <1>7, <2>1
    <3>2. Fresh(g, m) /\ m \in Nat
      BY <1>2, <1>7, <3>1 DEF Fresh
    <3>3. Safe(g, m)
      BY <3>1, <3>2 DEF Alone
    <3>4. exposed[g] \subseteq exposed'[g]
      BY <1>1, <1>2
    <3>5. Keeps(m) => Keeps(m)'
      BY DEF Keeps, Recs
    <3> QED BY <1>5, <1>6, <3>2, <3>3, <3>4, <3>5 DEF Safe
  <2>2. CASE g = f /\ m = n
    <3>1. CASE Edited(f)
      <4>1. Rewriting(f)
        BY <3>1, TrimmersAre DEF Edited, Editing, Rewriting
      <4>2. n \in exposed'[f]
        BY <1>1, <1>2, <4>1
      <4> QED BY <2>2, <3>1, <4>2 DEF Safe
    <3>2. CASE ~Edited(f)
      <4>1. ~Edited(f)' /\ Holds(f, n)'
        BY <1>5, <1>6, <3>2
      <4> QED BY <2>2, <4>1 DEF Safe
    <3> QED BY <3>1, <3>2
  <2> QED BY <2>1, <2>2
<1>8. \A g \in Files : Fragment \notin Range(file'[g])
  BY <1>1, <1>2, <1>4 DEF Alone
<1>9. \A g \in Files : \A m \in (DOMAIN logged[g])' : Fresh(g, m)' => Safe(g, m)'
  BY <1>7
<1> QED BY <1>8, <1>9 DEF Alone

(* What the edge reads and is to write back has all that is fresh.         *)
LEMMA ReadKeepsAlone ==
  ASSUME LineInv, EdgeInv, Alone, ReadLog("edge")
  PROVE  Alone'
<1> DEFINE f == FileOf("edge")
           rest == Filtered(file[f], cutoff["edge"])
<1>1. /\ f \in Files /\ file[f] \in Seq(Line) /\ TrueTo(logged[f], file[f])
      /\ \A g \in Files : ~Edited(g)
  BY FilesAre, TrimmersAre DEF LineInv, Typed, ReadLog, Edited, Editing
<1>2. CASE rest = file[f]
  <2>1. Advance("edge") /\ pc["edge"] = "read"
    BY <1>2 DEF ReadLog
  <2>2. ~Editing("edge")' /\ \A s \in Tools : pc'[s] = pc[s]
    BY <2>1, AdvanceIs, TrimmersAre DEF Editing
  <2> QED BY <1>1, <2>2, IdleKeepsAlone DEF ReadLog
<1>3. CASE rest # file[f]
  <2>1. /\ kept' = [kept EXCEPT !["edge"] = Text(rest)]
        /\ pc' = [pc EXCEPT !["edge"] = "truncate"]
        /\ UNCHANGED <<up, at, now, file, logged, exposed>>
    BY <1>3 DEF ReadLog
  <2>2. PICK pick : rest \in Seq(Line) /\ Picks(pick, rest, file[f], cutoff["edge"])
    BY <1>1, FilteredKeeps
  <2> HIDE DEF rest
  <2>3. /\ DOMAIN Text(rest) = DOMAIN rest
        /\ \A i \in DOMAIN rest : rest[i] # Fragment => Text(rest)[i] = rest[i]
    BY <2>2, TextCloses
  <2>4. /\ now \in Int /\ Retention \in Int /\ cutoff["edge"] \in Int
        /\ kept \in [Trimmers -> Seq(Line \ {Fragment})]
        /\ pc \in [Trimmers -> {"off", "read", "truncate", "write", "collect", "wait"}]
        /\ \A n \in DOMAIN logged[f] : logged[f][n] \in Int
    <3>1. /\ kept \in [Trimmers -> Seq(Line \ {Fragment})] /\ now \in 0..MaxTime
          /\ cutoff \in [Trimmers -> -Retention..MaxTime]
          /\ pc \in [Trimmers -> {"off", "read", "truncate", "write", "collect", "wait"}]
          /\ logged[f] \in Seq(0..MaxTime) /\ Retention \in Nat /\ MaxTime \in Nat
      BY RetentionAssumption, <1>1 DEF LineInv, Typed, TypeOK
    <3>2. \A n \in DOMAIN logged[f] : logged[f][n] \in 0..MaxTime
      BY <3>1
    <3> QED BY <3>1, <3>2, TrimmersAre
  <2>5. ASSUME NEW n \in DOMAIN logged[f], Fresh(f, n), Holds(f, n) PROVE Keeps(n)'
    <3>1. PICK i \in DOMAIN file[f] : file[f][i].kind = "record" /\ file[f][i].n = n
      BY <2>5 DEF Holds
    <3>2. file[f][i].stamp = logged[f][n]
      BY <1>1, <3>1 DEF TrueTo, Recs
    <3>3. Survives(file[f][i], cutoff["edge"])
      BY <2>4, <2>5, <3>2 DEF Fresh, Survives, EdgeInv
    <3>4. PICK k \in DOMAIN rest : pick[k] = i
      BY <2>2, <3>3 DEF Picks
    <3>5. rest[k] = file[f][i]
      BY <2>2, <3>4 DEF Picks
    <3>6. k \in Recs(Text(rest)) /\ Text(rest)[k].n = n
      BY <2>3, <3>1, <3>5, NotRecords DEF Recs
    <3>7. kept'["edge"] = Text(rest)
      BY <2>1, <2>4, TrimmersAre
    <3> QED BY <3>6, <3>7 DEF Keeps, Recs
  <2>6. ASSUME NEW g \in Files, NEW n \in DOMAIN logged[g], Fresh(g, n)' PROVE Safe(g, n)'
    <3>1. Fresh(g, n) /\ Safe(g, n)
      BY <2>1, <2>6 DEF Fresh, Alone
    <3>2. ~Emptied(g) /\ ~Emptied(g)' /\ (Edited(g)' => g = f)
      BY <1>1, <2>1, <2>4, TrimmersAre DEF Emptied, Edited, Editing, ReadLog, FileOf
    <3>3. Holds(g, n) => Holds(g, n)'
      BY <2>1 DEF Holds
    <3> QED BY <2>1, <2>5, <3>1, <3>2, <3>3 DEF Safe
  <2>7. \A g \in Files : \A n \in (DOMAIN logged[g])' : Fresh(g, n)' => Safe(g, n)'
    BY <2>1, <2>6
  <2>8. \A t \in Tools : pc'[t] = "off"
    BY <2>1, <2>4, TrimmersAre DEF Alone
  <2> QED BY <2>1, <2>7, <2>8 DEF Alone
<1> QED BY <1>2, <1>3

LEMMA TruncateKeepsAlone ==
  ASSUME LineInv, Alone, TruncateLog("edge")
  PROVE  Alone'
<1> DEFINE f == FileOf("edge")
<1>1. /\ f \in Files /\ file \in [Files -> Seq(Line)]
      /\ pc \in [Trimmers -> {"off", "read", "truncate", "write", "collect", "wait"}]
  BY FilesAre, TrimmersAre DEF LineInv, Typed, TypeOK
<1>2. /\ file' = [file EXCEPT ![f] = << >>] /\ pc' = [pc EXCEPT !["edge"] = "write"]
      /\ UNCHANGED <<now, at, kept, logged, exposed>> /\ pc["edge"] = "truncate"
  BY DEF TruncateLog
<1>3. FileOf("edge")' = f
  BY <1>2 DEF FileOf
<1> HIDE DEF f
<1>4. ASSUME NEW g \in Files, NEW n \in DOMAIN logged[g], Fresh(g, n)' PROVE Safe(g, n)'
  <2>1. Safe(g, n)
    BY <1>2, <1>4 DEF Fresh, Alone
  <2>2. (Edited(g)' <=> Edited(g)) /\ (Keeps(n)' <=> Keeps(n)) /\ (Emptied(g)' <=> g = f) /\ ~Emptied(g)
    BY <1>1, <1>2, <1>3, TrimmersAre DEF Edited, Emptied, Editing, Keeps, Recs, f
  <2>3. g # f => (Holds(g, n)' <=> Holds(g, n))
    BY <1>1, <1>2 DEF Holds
  <2> QED BY <1>2, <2>1, <2>2, <2>3 DEF Safe
<1>5. \A g \in Files : \A n \in (DOMAIN logged[g])' : Fresh(g, n)' => Safe(g, n)'
  BY <1>2, <1>4
<1>6. \A g \in Files : Fragment \notin Range(file'[g])
  BY <1>1, <1>2 DEF Alone, Range
<1>7. \A t \in Tools : pc'[t] = "off"
  BY <1>1, <1>2, TrimmersAre DEF Alone
<1> QED BY <1>5, <1>6, <1>7 DEF Alone

LEMMA WriteKeepsAlone ==
  ASSUME LineInv, Alone, WriteLog("edge")
  PROVE  Alone'
<1> PICK f, text : f = FileOf("edge") /\ text = kept["edge"]
  OBVIOUS
<1>1. /\ f \in Files /\ file \in [Files -> Seq(Line)] /\ file[f] \in Seq(Line)
      /\ text \in Seq(Line) /\ text \in Seq(Line \ {Fragment}) /\ pc["edge"] = "write"
      /\ Fragment \notin Range(file[f])
  <2>1. text \in Seq(Line \ {Fragment})
    BY TrimmersAre DEF LineInv, Typed
  <2>2. text \in Seq(Line)
    BY <2>1, SeqMonotonic
  <2> QED BY <2>1, <2>2, FilesAre, TrimmersAre DEF LineInv, Typed, WriteLog, Alone
<1>2. PICK r \in Overwritten(file[f], text) : file' = [file EXCEPT ![f] = r]
  BY DEF WriteLog
<1>3. UNCHANGED <<now, logged, exposed>> /\ Advance("edge")
  BY DEF WriteLog
<1>4. ~Editing("edge")' /\ \A t \in Tools : pc'[t] = pc[t]
  <2>1. /\ pc'["edge"] \in {"read", "wait", "off", "collect"}
        /\ \A t \in Trimmers \ {"edge"} : pc'[t] = pc[t]
    BY <1>1, <1>3, AdvanceIs, TrimmersAre
  <2> QED BY <2>1, TrimmersAre DEF Editing
<1>5. /\ r \in Seq(Line) /\ Len(text) <= Len(r)
      /\ \A i \in 1..Len(text) : r[i] = text[i]
      /\ \A i \in DOMAIN r : i > Len(text) => r[i] \in {Garbled} \union Range(file[f])
  <2>1. PICK d \in Int : Spliced(r, text, file[f], Len(text), d)
    BY <1>1, <1>2, OverwrittenIs
  <2>2. r \in Seq(Line) /\ \A i \in DOMAIN r : i > Len(text) => r[i] \in {Garbled} \union Range(file[f])
    BY <1>1, <1>2, OverwrittenIs
  <2>3. Len(text) \in Nat /\ Len(r) \in Nat /\ DOMAIN r = 1..Len(r) /\ Len(text) <= Len(r)
    BY <1>1, <2>1, <2>2 DEF Spliced
  <2>4. \A i \in 1..Len(text) : i \in DOMAIN r /\ i <= Len(text)
    BY <2>3
  <2>5. \A i \in 1..Len(text) : r[i] = text[i]
    BY <2>1, <2>4 DEF Spliced
  <2> QED BY <2>2, <2>3, <2>5
<1>6. Fragment \notin Range(r)
  <2>1. \A i \in DOMAIN r : r[i] # Fragment
    <3>1. Len(text) \in Nat /\ Len(r) \in Nat /\ DOMAIN r = 1..Len(r)
          /\ \A i \in 1..Len(text) : text[i] # Fragment
      BY <1>1, <1>5
    <3>2. \A i \in DOMAIN r : i > Len(text) \/ i \in 1..Len(text)
      BY <3>1
    <3> QED BY <1>1, <1>5, <3>1, <3>2, Garbling
  <2> QED BY <2>1 DEF Range
<1>7. \A n : Keeps(n) => Holds(f, n)'
  <2> SUFFICES ASSUME NEW n, Keeps(n) PROVE Holds(f, n)'
    OBVIOUS
  <2>1. PICK i \in DOMAIN text : text[i].kind = "record" /\ text[i].n = n
    BY DEF Keeps, Recs
  <2>2. i \in 1..Len(text) /\ i \in 1..Len(r) /\ DOMAIN r = 1..Len(r)
    <3>1. Len(text) \in Nat /\ DOMAIN text = 1..Len(text) /\ Len(r) \in Nat /\ DOMAIN r = 1..Len(r)
      BY <1>1, <1>5
    <3> QED BY <1>5, <2>1, <3>1
  <2>3. i \in DOMAIN r /\ r[i] = text[i]
    BY <1>5, <2>2
  <2> QED BY <1>1, <1>2, <2>1, <2>3 DEF Holds
<1>8. ASSUME NEW g \in Files, NEW n \in DOMAIN logged[g], Fresh(g, n)' PROVE Safe(g, n)'
  <2>1. Safe(g, n)
    BY <1>3, <1>8 DEF Fresh, Alone
  <2>2. ~Edited(g)' /\ ~Emptied(g)'
    BY <1>4 DEF Edited, Emptied, Editing
  <2>3. CASE g = f
    <3>1. Edited(f)
      BY <1>1 DEF Edited, Editing
    <3> QED BY <1>3, <1>7, <2>1, <2>2, <2>3, <3>1 DEF Safe
  <2>4. CASE g # f
    <3>1. ~Edited(g) /\ ~Emptied(g) /\ (Holds(g, n) => Holds(g, n)')
      BY <1>1, <1>2, <2>4 DEF Edited, Emptied, Holds
    <3> QED BY <1>3, <2>1, <2>2, <3>1 DEF Safe
  <2> QED BY <2>3, <2>4
<1>9. \A g \in Files : \A n \in (DOMAIN logged[g])' : Fresh(g, n)' => Safe(g, n)'
  BY <1>3, <1>8
<1>10. \A g \in Files : Fragment \notin Range(file'[g])
  BY <1>1, <1>2, <1>6 DEF Alone
<1>11. \A t \in Tools : pc'[t] = "off"
  BY <1>4 DEF Alone
<1> QED BY <1>9, <1>10, <1>11 DEF Alone

LEMMA LossInvHolds == Spec => []LossInv
<1>1. Init => LossInv
  <2> SUFFICES ASSUME Init PROVE LossInv
    OBVIOUS
  <2>1. Retention \in Int
    BY RetentionAssumption
  <2> QED BY <2>1, TrimmersAre DEF Init, LossInv, EdgeInv, Alone, Range
<1>2. LineInv /\ LossInv /\ [Next]_vars => LossInv'
  <2> SUFFICES ASSUME LineInv, LossInv, [Next]_vars, Undisturbed'
               PROVE  Alone'
    BY EdgeInvStays DEF LossInv
  <2>0. /\ pc \in [Trimmers -> {"off", "read", "truncate", "write", "collect", "wait"}]
        /\ kills \in Nat /\ incidents' = {} /\ kills' = 0
        /\ kept \in [Trimmers -> Seq(Line \ {Fragment})]
    BY RetentionAssumption DEF LineInv, Typed, TypeOK, Undisturbed
  <2>1. incidents \subseteq incidents' /\ kills = 0
    BY <2>0 DEF Next, Run, Trim, StartEdge, LogRequest, Tick, ReadLog, TruncateLog, WriteLog,
           WriteFails, Collect, NextRound, StartTool, Begin, Kill, vars
  <2>2. Alone /\ EdgeInv
    BY <2>0, <2>1 DEF LossInv, Undisturbed
  <2>3. \A t \in Tools : pc[t] = "off"
    BY <2>2 DEF Alone
  <2>4. ASSUME Begin("edge"), pc["edge"] \in {"off", "wait"} PROVE Alone'
    <3>1. \A f \in Files : ~Edited(f)
      BY <2>4 DEF Edited, Editing
    <3>2. ~Editing("edge")' /\ \A t \in Tools : pc'[t] = pc[t]
      BY <2>0, <2>4, TrimmersAre DEF Begin, Editing
    <3> QED BY <2>2, <2>4, <3>1, <3>2, IdleKeepsAlone DEF Begin
  <2>5. CASE StartEdge
    BY <2>2, <2>4, <2>5 DEF StartEdge, EdgeInv
  <2>6. CASE LogRequest
    <3>1. Log("access") /\ UNCHANGED <<pc, at, kept, now>>
      BY <2>6 DEF LogRequest
    <3>2. Editing("edge")' <=> Editing("edge")
      BY <3>1 DEF Editing
    <3> QED BY <2>2, <3>1, <3>2, LogKeepsAlone, TrimmersAre
  <2>7. CASE Tick
    BY <2>2, <2>7, TickKeepsAlone DEF Tick
  <2>8. ASSUME NEW t \in Tools, NextRound(t) \/ StartTool(t) PROVE FALSE
    BY <2>0, <2>8 DEF NextRound, StartTool, Begin
  <2>9. CASE NextRound("edge")
    BY <2>4, <2>9 DEF NextRound
  <2>10. CASE Trim("edge")
    BY <2>2, <2>10, ReadKeepsAlone, TruncateKeepsAlone, WriteKeepsAlone DEF Trim
  <2>11. ASSUME NEW t \in Tools, Trim(t) \/ Collect(t) PROVE FALSE
    BY <2>3, <2>11 DEF Trim, ReadLog, TruncateLog, WriteLog, Collect
  <2>12. CASE Collect("edge")
    <3>1. PICK next \in {"wait", "off"} : pc' = [pc EXCEPT !["edge"] = next]
      BY <2>12 DEF Collect
    <3>2. /\ pc["edge"] = "collect" /\ pc'["edge"] = next /\ UNCHANGED <<now, kept, at>>
          /\ \A t \in Tools : pc'[t] = pc[t]
      BY <2>0, <2>12, <3>1, TrimmersAre DEF Collect
    <3>3. ~Editing("edge") /\ ~Editing("edge")' /\ \A f \in Files : ~Edited(f)
      BY <3>2 DEF Editing, Edited
    <3>4. pc'["edge"] # "write" /\ pc["edge"] # "write"
      BY <3>2
    <3>5. CASE Log("metrics")
      BY <2>2, <3>2, <3>3, <3>4, <3>5, LogKeepsAlone, TrimmersAre
    <3>6. CASE UNCHANGED <<file, logged, exposed>>
      BY <2>2, <3>2, <3>3, <3>6, IdleKeepsAlone
    <3> QED BY <2>12, <3>5, <3>6 DEF Collect
  <2>13. ASSUME NEW t \in Trimmers, WriteFails(t) \/ Kill(t) PROVE FALSE
    BY <2>0, <2>1, <2>13 DEF WriteFails, Kill
  <2>14. CASE UNCHANGED vars
    BY <2>2, <2>14, TickKeepsAlone DEF vars
  <2>15. StartTool("edge") => FALSE
    BY TrimmersAre DEF StartTool
  <2> QED BY <2>5, <2>6, <2>7, <2>8, <2>9, <2>10, <2>11, <2>12, <2>13, <2>14, <2>15, TrimmersAre
          DEF Next, Run
<1> QED BY <1>1, <1>2, LineInvHolds, PTL DEF Spec

(* While only the edge server runs, and is not killed, a record that has   *)
(* not expired is in its log or about to be written back to it; only one   *)
(* that was appended to the access log while a trim was at it is lost.     *)
THEOREM NothingElseLost == Spec => []LossNeedsOverlap
<1>1. LineInv /\ LossInv => LossNeedsOverlap
  <2> SUFFICES ASSUME LossInv, Undisturbed, NEW f \in Files, NEW n \in DOMAIN logged[f], Fresh(f, n)
               PROVE  \/ Holds(f, n) \/ InHand(f, n)
                      \/ f # "metrics" /\ n \in exposed[f]
    BY DEF LossNeedsOverlap
  <2>1. Safe(f, n)
    BY DEF LossInv, Alone
  <2>2. Emptied(f) => Edited(f) /\ pc["edge"] = "write" /\ FileOf("edge") = f
    BY DEF Emptied, Edited, Editing
  <2>3. Emptied(f) /\ Keeps(n) => InHand(f, n)
    BY <2>2, TrimmersAre DEF Keeps, Recs, InHand
  <2> QED BY <2>1, <2>2, <2>3 DEF Safe
<1> QED BY <1>1, LineInvHolds, LossInvHolds, PTL
=============================================================================
