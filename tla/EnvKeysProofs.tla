---------------------------- MODULE EnvKeysProofs ----------------------------
(* Proofs about EnvKeys, for any clients, any number of commands beside    *)
(* one another, and any bounds.                                            *)
EXTENDS EnvKeys, WellFoundedInduction, TLAPS

(* A set of places has a last one.                                         *)
LEMMA LastOf ==
  ASSUME NEW n \in Nat, NEW T, T \subseteq 1..n, T # {}
  PROVE  \E i \in T : \A j \in T : j <= i
<1> DEFINE R == {ss \in Nat \X Nat : ss[1] < ss[2]}
           U == {k \in Nat : \E i \in T : k = n - i}
<1>1. IsWellFoundedOn(R, Nat)
  <2>1. R = OpToRel(<, Nat)
    BY Zenon DEF OpToRel
  <2> HIDE DEF R
  <2> QED
    BY <2>1, NatLessThanWellFounded, Zenon
<1>2. \A x, y \in Nat : x < y => <<x, y>> \in R
  OBVIOUS
<1> HIDE DEF R
<1>3. \A i \in T : i \in 1..n /\ n - i \in U
  OBVIOUS
<1>4. U \subseteq Nat /\ U # {}
  BY <1>3
<1> HIDE DEF U
<1>5. \E k \in U : \A m \in U : ~(<<m, k>> \in R)
  BY ONLY <1>1, <1>4, WFMin
<1>6. PICK k \in U : \A m \in U : ~(<<m, k>> \in R)
  BY <1>5
<1>7. PICK i \in T : k = n - i
  BY <1>6 DEF U
<1>8. ASSUME NEW j \in T PROVE j <= i
  <2>1. /\ i \in 1..n /\ j \in 1..n /\ n - j \in U
        /\ ~(n - j < n - i)
    BY <1>2, <1>3, <1>4, <1>6, <1>7
  <2> QED
    BY <2>1
<1> QED
  BY <1>8

(* Induction over the places up to n, on a set of them.                    *)
LEMMA PlaceByPlace ==
  ASSUME NEW n \in Nat, NEW T, 0 \in T, \A k \in 0..n - 1 : k \in T => k + 1 \in T
  PROVE  n \in T
<1> DEFINE U == {k \in 1..n + 1 : k - 1 \in T}
<1>1. U \subseteq 1..n + 1 /\ n + 1 \in Nat /\ 1 \in U
  OBVIOUS
<1>2. PICK i \in U : \A j \in U : j <= i
  <2> HIDE DEF U
  <2> QED
    BY <1>1, LastOf
<1>3. CASE i = n + 1
  BY <1>3
<1>4. CASE i # n + 1
  <2>1. i \in 1..n /\ i - 1 \in 0..n - 1 /\ i - 1 \in T /\ (i - 1) + 1 = i
    BY <1>4
  <2>2. i \in T /\ i + 1 \in 1..n + 1 /\ (i + 1) - 1 = i
    BY <2>1
  <2>3. i + 1 \in U
    BY <2>2
  <2> QED
    BY <1>2, <2>1, <2>3
<1> QED
  BY <1>3, <1>4
-----------------------------------------------------------------------------
(* The names, and the ids told from them.  What the first i characters     *)
(* become is the start of the name.                                        *)

LEMMA Folded == \A t : Fold(t) = "_" => t = "_"
<1> SUFFICES ASSUME NEW t, Fold(t) = "_" PROVE t = "_"
  OBVIOUS
<1>1. DOMAIN Capitals = {"A", "DASH", "DOT", "UNDERSCORE"}
  BY DEF Capitals
<1>2. /\ Capitals["A"] = "a" /\ Capitals["DASH"] = "dash" /\ Capitals["DOT"] = "dot"
      /\ Capitals["UNDERSCORE"] = "underscore"
  BY DEF Capitals
<1>3. t \notin DOMAIN Capitals
  BY <1>1, <1>2 DEF Fold
<1> QED
  BY <1>3 DEF Fold

LEMMA Short ==
  ASSUME NEW S, NEW x \in S, NEW y \in S, NEW z \in S
  PROVE  /\ <<x>> \in Seq(S) /\ Len(<<x>>) = 1
         /\ <<x, y, z>> \in Seq(S) /\ Len(<<x, y, z>>) = 3
         /\ <<x, y, z>>[1] = x
OBVIOUS

LEMMA Marks == \A t \in {"-", ".", "_"} : Fold(t) = t
BY DEF Fold, Capitals

(* The pieces, told apart: an escape, or a letter.                         *)
Escapes(s, w) == Len(s) = 3 /\ s[1] = "_" /\ s[2] = w /\ s[3] = "_"
Letter(s, x) == Len(s) = 1 /\ s[1] = x

(* A character that stands for itself.                                     *)
Stands(id, i) ==
  /\ Letter(Piece(id, i), Fold(id[i])) /\ id[i] \notin {"-", "."}
  /\ id[i] = "_" => \A w \in Words : ~StartsWith(Lower(id), i, w)

LEMMA PieceIs ==
  ASSUME NEW id \in Seq(STRING), NEW i \in 1..Len(id)
  PROVE  \/ id[i] = "-" /\ Escapes(Piece(id, i), "dash")
         \/ id[i] = "." /\ Escapes(Piece(id, i), "dot")
         \/ id[i] = "_" /\ Escapes(Piece(id, i), "underscore")
         \/ Stands(id, i)
<1>1. \A w : Escapes(Escape(w), w)
  BY DEF Escapes, Escape
<1>2. \A x : Letter(<<x>>, x)
  BY DEF Letter
<1>3. CASE id[i] = "-"
  <2>1. Piece(id, i) = Escape("dash")
    BY <1>3 DEF Piece
  <2> QED
    BY <1>1, <1>3, <2>1
<1>4. CASE id[i] = "."
  <2>1. Piece(id, i) = Escape("dot")
    BY <1>4 DEF Piece
  <2> QED
    BY <1>1, <1>4, <2>1
<1>5. CASE id[i] = "_" /\ \E w \in Words : StartsWith(Lower(id), i, w)
  <2>1. Piece(id, i) = Escape("underscore")
    BY <1>5 DEF Piece
  <2> QED
    BY <1>1, <1>5, <2>1
<1>6. CASE /\ id[i] \notin {"-", "."}
           /\ ~(id[i] = "_" /\ \E w \in Words : StartsWith(Lower(id), i, w))
  <2>1. Piece(id, i) = <<Fold(id[i])>>
    BY <1>6 DEF Piece
  <2> QED
    BY <1>2, <1>6, <2>1 DEF Stands
<1> QED
  BY <1>3, <1>4, <1>5, <1>6

LEMMA Before ==
  ASSUME NEW k \in Nat, NEW x, NEW r, r = [q \in 1..k |-> r[q]]
  PROVE  <<x>> \o r = [q \in 1..k + 1 |-> IF q = 1 THEN x ELSE r[q - 1]]
<1>1. PICK S : S = {x} \union {r[q] : q \in 1..k}
  OBVIOUS
<1>2. r \in Seq(S) /\ Len(r) = k /\ x \in S
  BY <1>1
<1> QED
  BY <1>2

(* What a name is made of.                                                 *)
Letters(id) == Words \union {"_"} \union {Fold(id[i]) : i \in 1..Len(id)}

LEMMA PieceTyped ==
  ASSUME NEW id \in Seq(STRING), NEW i \in 1..Len(id)
  PROVE  Piece(id, i) \in Seq(Letters(id)) /\ Len(Piece(id, i)) \in {1, 3}
<1>1. Fold(id[i]) \in Letters(id) /\ "_" \in Letters(id) /\ \A w \in Words : w \in Letters(id)
  BY DEF Letters
<1>2. PICK S : S = Letters(id)
  OBVIOUS
<1>3. <<Fold(id[i])>> \in Seq(S) /\ Len(<<Fold(id[i])>>) = 1
  BY <1>1, <1>2, Short
<1>4. \A w \in Words : Escape(w) \in Seq(S) /\ Len(Escape(w)) = 3
  BY <1>1, <1>2, Short DEF Escape
<1>5. \/ Piece(id, i) = <<Fold(id[i])>>
      \/ \E w \in Words : Piece(id, i) = Escape(w)
  BY DEF Piece, Words
<1>6. CASE Piece(id, i) = <<Fold(id[i])>>
  <2>1. Len(Piece(id, i)) = 1
    BY <1>3, <1>6
  <2> QED
    BY <1>2, <1>3, <1>6, <2>1
<1>7. CASE \E w \in Words : Piece(id, i) = Escape(w)
  BY <1>2, <1>4, <1>7
<1> QED
  BY <1>5, <1>6, <1>7

(* The name of the first i characters, by that of the first i - 1.         *)
Naming(id, f, i) == IF i = 0 THEN <<>> ELSE f[i - 1] \o Piece(id, i)

LEMMA NamingExists ==
  ASSUME NEW id \in Seq(STRING)
  PROVE  \E f : f = [i \in 0..Len(id) |-> Naming(id, f, i)]
<1> DEFINE Rec(f, m) == f = [i \in 0..m |-> Naming(id, f, i)]
           K == {m \in Nat : \E f : Rec(f, m)}
<1>1. 0 \in K
  <2> DEFINE g == [i \in 0..0 |-> <<>>]
  <2>1. Rec(g, 0)
    BY DEF Naming
  <2> HIDE DEF g, Rec
  <2> QED
    BY <2>1
<1>2. ASSUME NEW m \in 0..Len(id) - 1, m \in K PROVE m + 1 \in K
  <2>1. PICK f : Rec(f, m)
    BY <1>2
  <2> DEFINE g == [i \in 0..(m + 1) |-> Naming(id, f, i)]
  <2>2. \A i \in 0..m : g[i] = f[i]
    BY <2>1
  <2>3. ASSUME NEW i \in 0..(m + 1) PROVE Naming(id, f, i) = Naming(id, g, i)
    <3>1. i # 0 => i - 1 \in 0..m
      OBVIOUS
    <3> HIDE DEF g
    <3> QED
      BY <2>2, <3>1 DEF Naming
  <2>4. Rec(g, m + 1)
    BY <2>3
  <2> HIDE DEF g, Rec
  <2> QED
    BY <2>4
<1> HIDE DEF K
<1>3. Len(id) \in Nat
  OBVIOUS
<1>4. Len(id) \in K
  BY <1>1, <1>2, <1>3, PlaceByPlace
<1> QED
  BY <1>4 DEF K

(* The name, and where in it the piece of each character stands.           *)
Pieces(id, to) ==
  /\ NameOf(id) = to[Len(id)] /\ to[0] = <<>>
  /\ \A i \in 0..Len(id) : to[i] \in Seq(Letters(id))
  /\ \A i \in 1..Len(id) : to[i] = to[i - 1] \o Piece(id, i)

LEMMA NameParts ==
  ASSUME NEW id \in Seq(STRING)
  PROVE  \E to : Pieces(id, to)
<1>0. PICK n, S : n = Len(id) /\ S = Letters(id)
  OBVIOUS
<1>n. n \in Nat
  BY <1>0
<1> DEFINE to == CHOOSE f : f = [i \in 0..n |-> Naming(id, f, i)]
<1>1. NameOf(id) = to[n]
  BY <1>0 DEF NameOf, Naming
<1>2. to = [i \in 0..n |-> Naming(id, to, i)]
  BY <1>0, NamingExists
<1> HIDE DEF to
<1>3. to[0] = <<>>
  BY <1>n, <1>2 DEF Naming
<1>4. ASSUME NEW i \in 1..n PROVE to[i] = to[i - 1] \o Piece(id, i)
  <2>1. i \in 0..n /\ i # 0
    BY <1>n
  <2> QED
    BY <1>2, <2>1 DEF Naming
<1> DEFINE T == {k \in 0..n : \A i \in 0..k : to[i] \in Seq(S)}
<1>5. 0 \in T
  <2>1. <<>> \in Seq(S)
    OBVIOUS
  <2>2. to[0] \in Seq(S)
    BY <1>3, <2>1
  <2>3. \A i \in 0..0 : to[i] = to[0]
    OBVIOUS
  <2> QED
    BY <1>n, <2>2, <2>3
<1>6. ASSUME NEW k \in 0..n - 1, k \in T PROVE k + 1 \in T
  <2>1. k + 1 \in 1..n /\ (k + 1) - 1 = k /\ \A i \in 0..k + 1 : i \in 0..k \/ i = k + 1
    BY <1>n
  <2>2. to[k] \in Seq(S)
    BY <1>n, <1>6
  <2>3. Piece(id, k + 1) \in Seq(S)
    BY <1>0, <2>1, PieceTyped
  <2>4. to[k + 1] = to[k] \o Piece(id, k + 1)
    BY <1>4, <2>1
  <2>5. \A x, y \in Seq(S) : x \o y \in Seq(S)
    OBVIOUS
  <2>6. to[k + 1] \in Seq(S)
    BY <2>2, <2>3, <2>4, <2>5
  <2> QED
    BY <1>6, <1>n, <2>1, <2>6
<1> HIDE DEF T
<1>7. n \in T
  BY <1>n, <1>5, <1>6, PlaceByPlace
<1>8. \A i \in 0..n : to[i] \in Seq(S)
  BY <1>7 DEF T
<1> QED
  BY <1>0, <1>1, <1>3, <1>4, <1>8 DEF Pieces

LEMMA NameStarts ==
  ASSUME NEW id \in Seq(STRING), NEW to, Pieces(id, to), NEW i \in 0..Len(id)
  PROVE  /\ Len(to[i]) <= Len(NameOf(id))
         /\ \A q \in 1..Len(to[i]) : NameOf(id)[q] = to[i][q]
<1>0. PICK n, S : n = Len(id) /\ S = Letters(id)
  OBVIOUS
<1>n. n \in Nat /\ i \in 0..n
  BY <1>0
<1> DEFINE Starts(a, b) == Len(a) <= Len(b) /\ \A q \in 1..Len(a) : b[q] = a[q]
           T == {k \in 0..n - i : Starts(to[i], to[i + k])}
<1>1. 0 \in T
  <2>1. to[i] \in Seq(S) /\ i + 0 = i
    BY <1>0, <1>n DEF Pieces
  <2> QED
    BY <1>n, <2>1
<1>2. ASSUME NEW k \in 0..(n - i) - 1, k \in T PROVE k + 1 \in T
  <2>1. i + (k + 1) \in 1..n /\ (i + (k + 1)) - 1 = i + k /\ i + k \in 0..n /\ k + 1 \in 0..n - i
    BY <1>n
  <2>2. to[i] \in Seq(S) /\ to[i + k] \in Seq(S) /\ Piece(id, i + (k + 1)) \in Seq(S)
    BY <1>0, <2>1, PieceTyped DEF Pieces
  <2>3. to[i + (k + 1)] = to[i + k] \o Piece(id, i + (k + 1))
    BY <1>0, <2>1 DEF Pieces
  <2>4. \A a, x, y \in Seq(S) : Starts(a, x) => Starts(a, x \o y)
    OBVIOUS
  <2>5. Starts(to[i], to[i + k])
    BY <1>2
  <2> HIDE DEF Starts
  <2>6. Starts(to[i], to[i + (k + 1)])
    BY <2>2, <2>3, <2>4, <2>5
  <2> QED
    BY <2>1, <2>6
<1> HIDE DEF T
<1>3. n - i \in T
  BY <1>n, <1>1, <1>2, PlaceByPlace
<1>4. Starts(to[i], to[n])
  <2>1. i + (n - i) = n
    BY <1>n
  <2> QED
    BY <1>3, <2>1 DEF T
<1> QED
  BY <1>0, <1>4 DEF Pieces

LEMMA NamePiece ==
  ASSUME NEW id \in Seq(STRING), NEW to, Pieces(id, to), NEW i \in 1..Len(id)
  PROVE  /\ Len(to[i - 1]) \in Nat /\ Len(NameOf(id)) \in Nat
         /\ Len(to[i]) = Len(to[i - 1]) + Len(Piece(id, i))
         /\ Len(to[i]) <= Len(NameOf(id))
         /\ \A q \in 1..Len(Piece(id, i)) : NameOf(id)[Len(to[i - 1]) + q] = Piece(id, i)[q]
<1>0. PICK n, S : n = Len(id) /\ S = Letters(id)
  OBVIOUS
<1>1. n \in Nat /\ n \in 0..n /\ i \in 0..n /\ i - 1 \in 0..n /\ i \in 1..n
  BY <1>0
<1>2. /\ to[i - 1] \in Seq(S) /\ to[i] \in Seq(S) /\ to[n] \in Seq(S)
      /\ NameOf(id) = to[n] /\ to[i] = to[i - 1] \o Piece(id, i) /\ Piece(id, i) \in Seq(S)
  BY <1>0, <1>1, PieceTyped DEF Pieces
<1>3. \A x, y \in Seq(S) : /\ Len(x) \in Nat /\ Len(x \o y) = Len(x) + Len(y)
                           /\ \A q \in 1..Len(y) : /\ Len(x) + q \in 1..Len(x \o y)
                                                   /\ (x \o y)[Len(x) + q] = y[q]
  OBVIOUS
<1>4. /\ Len(to[i]) <= Len(NameOf(id))
      /\ \A q \in 1..Len(to[i]) : NameOf(id)[q] = to[i][q]
  BY <1>0, <1>1, NameStarts
<1>5. \A q \in 1..Len(Piece(id, i)) :
        /\ Len(to[i - 1]) + q \in 1..Len(to[i]) /\ to[i][Len(to[i - 1]) + q] = Piece(id, i)[q]
  BY <1>2, <1>3
<1>6. Len(to[i]) = Len(to[i - 1]) + Len(Piece(id, i)) /\ Len(to[i - 1]) \in Nat /\ Len(NameOf(id)) \in Nat
  BY <1>2, <1>3
<1> QED
  BY <1>4, <1>5, <1>6

(* The first letter of a piece.                                            *)
LEMMA PieceFirst ==
  ASSUME NEW id \in Seq(STRING), NEW i \in 1..Len(id)
  PROVE  LET x == Piece(id, i)[1]
         IN /\ x # "_" => Len(Piece(id, i)) = 1 /\ Fold(id[i]) = x
            /\ x = "_" => id[i] \in {"-", ".", "_"}
BY PieceIs, Folded DEF Escapes, Letter, Stands

-----------------------------------------------------------------------------
(* The id told from the place p of a name on, by those told from later on. *)
Telling(name, f, p) ==
  IF p > Len(name) THEN <<>>
  ELSE IF \E w \in Words : StartsWith(name, p, w)
  THEN <<Mark[name[p + 1]]>> \o f[p + 3]
  ELSE <<name[p]>> \o f[p + 1]

LEMMA TellingExists ==
  ASSUME NEW name, Len(name) \in Nat
  PROVE  \E f : f = [p \in 1..Len(name) + 3 |-> Telling(name, f, p)]
<1> DEFINE m == Len(name)
           Rec(f, k) == /\ f = [p \in 1..m + 3 |-> f[p]]
                        /\ \A p \in 1..m + 3 : p > m + 3 - k => f[p] = Telling(name, f, p)
           K == {k \in 0..m + 3 : \E f : Rec(f, k)}
<1>m. m \in Nat
  OBVIOUS
<1> HIDE DEF m
<1>1. 0 \in K
  <2> DEFINE g == [p \in 1..m + 3 |-> <<>>]
  <2>1. g = [p \in 1..m + 3 |-> g[p]] /\ \A p \in 1..m + 3 : ~(p > m + 3 - 0)
    BY <1>m
  <2>2. Rec(g, 0)
    BY <2>1
  <2> HIDE DEF g, Rec
  <2> QED
    BY <1>m, <2>2
<1>2. ASSUME NEW k \in 0..(m + 3) - 1, k \in K PROVE k + 1 \in K
  <2>1. PICK f : Rec(f, k)
    BY <1>2
  <2>2. PICK at : at = m + 3 - k
    OBVIOUS
  <2>3. at \in 1..m + 3 /\ k + 1 \in 0..m + 3 /\ \A p \in 1..m + 3 : p > m + 3 - (k + 1) => p = at \/ p > at
    BY <1>m, <2>2
  <2> DEFINE g == [f EXCEPT ![at] = Telling(name, f, at)]
  <2>4. DOMAIN g = 1..m + 3 /\ g = [p \in 1..m + 3 |-> g[p]]
    BY <2>1
  <2>5. \A p \in 1..m + 3 : p > at => g[p] = f[p]
    BY <2>1
  <2>6. g[at] = Telling(name, f, at)
    BY <2>1, <2>3
  <2>7. ASSUME NEW p \in 1..m + 3, p >= at PROVE Telling(name, f, p) = Telling(name, g, p)
    <3>1. p <= m => p + 3 \in 1..m + 3 /\ p + 1 \in 1..m + 3 /\ p + 3 > at /\ p + 1 > at
      BY <1>m, <2>3, <2>7
    <3>2. p <= m => g[p + 3] = f[p + 3] /\ g[p + 1] = f[p + 1]
      BY <2>5, <3>1
    <3>3. p <= m \/ p > m
      BY <1>m
    <3> HIDE DEF g
    <3> QED
      BY <3>2, <3>3 DEF Telling, m
  <2> HIDE DEF g
  <2>8. ASSUME NEW p \in 1..m + 3, p > m + 3 - (k + 1) PROVE g[p] = Telling(name, g, p)
    <3>1. CASE p = at
      <4>1. Telling(name, f, p) = Telling(name, g, p)
        BY <1>m, <2>3, <2>7, <3>1
      <4> QED
        BY <2>6, <3>1, <4>1
    <3>2. CASE p > at
      <4>1. Telling(name, f, p) = Telling(name, g, p) /\ g[p] = f[p]
        BY <1>m, <2>3, <2>5, <2>7, <3>2
      <4>2. f[p] = Telling(name, f, p)
        BY <2>1, <2>2, <3>2
      <4> QED
        BY <4>1, <4>2
    <3> QED
      BY <2>3, <2>8, <3>1, <3>2
  <2>9. Rec(g, k + 1)
    BY <2>4, <2>8
  <2> HIDE DEF Rec
  <2> QED
    BY <2>3, <2>9
<1> HIDE DEF K
<1>3. m + 3 \in K
  BY <1>m, <1>1, <1>2, PlaceByPlace
<1>4. PICK f : Rec(f, m + 3)
  BY <1>3 DEF K
<1>5. f = [p \in 1..m + 3 |-> f[p]] /\ \A p \in 1..m + 3 : f[p] = Telling(name, f, p)
  BY <1>m, <1>4
<1>6. f = [p \in 1..m + 3 |-> Telling(name, f, p)]
  BY <1>5
<1> QED
  BY <1>6 DEF m

(* No escape is read where a letter stands for itself: what follows a "_"  *)
(* that is none is, in a plain id, no "-" and no ".", and were it a word   *)
(* and a "_", this "_" would be escaped.                                   *)
LEMMA NoEscape ==
  ASSUME NEW id \in Seq(STRING), Plain(id), NEW to, Pieces(id, to), NEW i \in 1..Len(id),
         Stands(id, i), NEW w \in Words
  PROVE  ~StartsWith(NameOf(id), Len(to[i - 1]) + 1, w)
<1>1. PICK name, n, m : name = NameOf(id) /\ n = Len(id) /\ m = Len(name)
  OBVIOUS
<1>2. n \in Nat /\ i \in 1..n /\ m \in Nat
  <2>1. Len(NameOf(id)) \in Nat
    BY NamePiece
  <2> QED
    BY <1>1, <2>1
<1>3. ASSUME NEW j \in 1..n
      PROVE  /\ Len(to[j]) = Len(to[j - 1]) + Len(Piece(id, j)) /\ Len(to[j - 1]) \in Nat
             /\ name[Len(to[j - 1]) + 1] = Piece(id, j)[1]
  <2>1. /\ Len(to[j]) = Len(to[j - 1]) + Len(Piece(id, j)) /\ Len(to[j - 1]) \in Nat
        /\ \A q \in 1..Len(Piece(id, j)) : NameOf(id)[Len(to[j - 1]) + q] = Piece(id, j)[q]
    BY <1>1, NamePiece
  <2>2. 1 \in 1..Len(Piece(id, j))
    <3>1. PICK l : l = Len(Piece(id, j))
      OBVIOUS
    <3>2. l \in {1, 3}
      BY <1>1, <3>1, PieceTyped
    <3>3. 1 \in 1..l
      BY ONLY <3>2
    <3> QED
      BY <3>1, <3>3
  <2> QED
    BY <1>1, <2>1, <2>2
<1>4. Len(to[n]) = m
  BY <1>1 DEF Pieces
<1>5. PICK p : p = Len(to[i - 1]) + 1
  OBVIOUS
<1>6. p \in Nat /\ Len(to[i]) = p /\ name[p] = Fold(id[i])
  <2>1. Len(Piece(id, i)) = 1 /\ Piece(id, i)[1] = Fold(id[i])
    BY DEF Stands, Letter
  <2>2. /\ Len(to[i]) = Len(to[i - 1]) + Len(Piece(id, i)) /\ Len(to[i - 1]) \in Nat
        /\ name[Len(to[i - 1]) + 1] = Piece(id, i)[1]
    BY <1>2, <1>3
  <2> QED
    BY <1>5, <2>1, <2>2
<1>7. SUFFICES ASSUME StartsWith(name, p, w) PROVE FALSE
  BY <1>1, <1>5
<1>8. name[p] = "_" /\ name[p + 1] = w /\ name[p + 2] = "_" /\ w # "_"
  BY <1>7 DEF StartsWith, Words
<1>9. p + 2 <= m
  BY <1>1, <1>7 DEF StartsWith
<1>10. id[i] = "_"
  <2>1. Fold(id[i]) = "_"
    BY <1>6, <1>8
  <2> QED
    BY <2>1, Folded
<1>11. i + 1 \in 1..n /\ (i + 1) - 1 = i
  <2>1. i # n
    BY <1>2, <1>4, <1>6, <1>9
  <2> QED
    BY <1>2, <2>1
<1>12. Len(to[i + 1]) = p + Len(Piece(id, i + 1)) /\ name[p + 1] = Piece(id, i + 1)[1]
  BY <1>3, <1>6, <1>11
<1>13. Len(Piece(id, i + 1)) = 1 /\ Fold(id[i + 1]) = w
  <2>1. Piece(id, i + 1)[1] = w
    BY <1>8, <1>12
  <2> QED
    BY <1>1, <1>8, <1>11, <2>1, PieceFirst
<1>14. Len(to[i + 1]) = p + 1
  BY <1>12, <1>13
<1>15. i + 2 \in 1..n /\ (i + 2) - 1 = i + 1 /\ i \in 1..n - 2
  <2>1. i + 1 # n
    BY <1>2, <1>4, <1>6, <1>9, <1>14
  <2> QED
    BY <1>2, <1>11, <2>1
<1>16. Piece(id, i + 2)[1] = "_"
  <2>1. name[Len(to[i + 1]) + 1] = Piece(id, i + 2)[1]
    BY <1>3, <1>15
  <2>2. (p + 1) + 1 = p + 2
    BY <1>6
  <2> QED
    BY <1>8, <1>14, <2>1, <2>2
<1>17. id[i + 2] \in {"-", ".", "_"}
  BY <1>1, <1>15, <1>16, PieceFirst
<1>18. id[i + 2] = "_"
  <2>1. i \in 1..Len(id) - 2 /\ Fold(id[i + 1]) \in Words
    BY <1>1, <1>13, <1>15
  <2>2. id[i + 2] \notin {"-", "."}
    BY <1>10, <2>1 DEF Plain
  <2> QED
    BY <1>17, <2>2
<1>19. StartsWith(Lower(id), i, w)
  <2>1. DOMAIN id = 1..n /\ Lower(id) = [j \in 1..n |-> Fold(id[j])]
    BY <1>1 DEF Lower
  <2>2. Len(Lower(id)) = n /\ \A j \in 1..n : Lower(id)[j] = Fold(id[j])
    BY <1>2, <2>1
  <2>3. i + 2 <= Len(Lower(id))
    BY <1>2, <1>15, <2>2
  <2>4. /\ Lower(id)[i] = Fold(id[i]) /\ Lower(id)[i + 1] = Fold(id[i + 1])
        /\ Lower(id)[i + 2] = Fold(id[i + 2])
    BY <1>2, <1>11, <1>15, <2>2
  <2>5. Fold("_") = "_"
    BY Marks
  <2> QED
    BY <1>10, <1>13, <1>18, <2>3, <2>4, <2>5 DEF StartsWith
<1> QED
  BY <1>10, <1>19 DEF Stands

(* A plain id is told, in lower case, from the name of its variable.       *)
LEMMA IdsReadBack ==
  ASSUME NEW id \in Seq(STRING), Plain(id)
  PROVE  IdOf(NameOf(id)) = Lower(id)
<1> DEFINE n == Len(id)
           name == NameOf(id)
           m == Len(name)
           Rest(i) == [q \in 1..n - i |-> Fold(id[i + q])]
<1>1. PICK to : Pieces(id, to)
  BY NameParts
<1>2. n \in Nat /\ m \in Nat /\ \A i \in 0..n : Len(to[i]) \in 0..m
  <2>1. \A i \in 0..n : to[i] \in Seq(Letters(id)) /\ Len(to[i]) <= m
    BY <1>1, NameStarts DEF Pieces
  <2>2. n \in 0..n /\ n \in Nat
    OBVIOUS
  <2>3. m \in Nat
    BY <1>1, <2>1, <2>2 DEF Pieces
  <2>4. \A i \in 0..n : Len(to[i]) \in Nat
    BY <2>1
  <2> QED
    BY <2>1, <2>2, <2>3, <2>4
<1> DEFINE from == CHOOSE f : f = [p \in 1..m + 3 |-> Telling(name, f, p)]
<1>3. IdOf(name) = from[1]
  BY DEF IdOf, Telling
<1>4. from = [p \in 1..m + 3 |-> Telling(name, from, p)]
  BY <1>2, TellingExists
<1> HIDE DEF from
<1> DEFINE T == {k \in 0..n : from[Len(to[n - k]) + 1] = Rest(n - k)}
<1>5. 0 \in T
  <2>1. n - 0 = n /\ Len(to[n]) + 1 = m + 1 /\ m + 1 \in 1..m + 3 /\ m + 1 > m
    BY <1>1, <1>2 DEF Pieces
  <2>2. from[m + 1] = <<>>
    BY <1>4, <2>1 DEF Telling
  <2>3. Rest(n) = <<>>
    <3>1. 1..n - n = {}
      BY <1>2
    <3> QED
      BY <3>1
  <2> QED
    BY <1>2, <2>1, <2>2, <2>3
<1>6. ASSUME NEW k \in 0..n - 1, k \in T PROVE k + 1 \in T
  <2> DEFINE i == n - k
             p == Len(to[i - 1]) + 1
             l == Len(Piece(id, i))
  <2>1. i \in 1..n /\ n - (k + 1) = i - 1 /\ k + 1 \in 0..n /\ i - 1 \in 0..n /\ i \in 0..n
    BY <1>2
  <2>2. from[Len(to[i]) + 1] = Rest(i)
    BY <1>6
  <2> HIDE DEF i
  <2>3. /\ p \in 1..m + 3 /\ l \in {1, 3} /\ Len(to[i]) + 1 = p + l /\ p + l <= m + 1 /\ p \in Nat
        /\ \A q \in 1..l : name[(p - 1) + q] = Piece(id, i)[q]
    <3>1. l \in {1, 3}
      BY <2>1, PieceTyped
    <3>2. /\ Len(to[i]) = Len(to[i - 1]) + l /\ Len(to[i - 1]) \in Nat /\ Len(to[i]) <= m
          /\ \A q \in 1..l : name[Len(to[i - 1]) + q] = Piece(id, i)[q]
      BY <1>1, <2>1, NamePiece
    <3>3. p - 1 = Len(to[i - 1])
      BY <3>2
    <3> QED
      BY <1>2, <3>1, <3>2, <3>3
  <2> HIDE DEF l
  <2>4. Rest(i - 1) = <<Fold(id[i])>> \o Rest(i)
    <3>1. n - (i - 1) = (n - i) + 1 /\ n - i \in Nat
      BY <1>2, <2>1
    <3>2. PICK k1, x, r : k1 = n - i /\ x = Fold(id[i]) /\ r = Rest(i)
      OBVIOUS
    <3>3. k1 \in Nat /\ r = [q \in 1..k1 |-> r[q]] /\ \A q \in 1..k1 : r[q] = Fold(id[i + q])
      BY <3>1, <3>2
    <3>4. <<x>> \o r = [q \in 1..k1 + 1 |-> IF q = 1 THEN x ELSE r[q - 1]]
      BY <3>3, Before
    <3>i. i \in Nat /\ k1 \in Nat
      BY <1>2, <2>1, <3>3
    <3>5. \A q \in 1..k1 + 1 : q # 1 => q - 1 \in 1..k1 /\ (i - 1) + q = i + (q - 1)
      BY ONLY <3>i
    <3>6. (i - 1) + 1 = i
      BY <2>1
    <3>7. ASSUME NEW q \in 1..k1 + 1
          PROVE  Fold(id[(i - 1) + q]) = IF q = 1 THEN x ELSE r[q - 1]
      <4>1. q # 1 => r[q - 1] = Fold(id[i + (q - 1)])
        BY <3>3, <3>5
      <4>2. CASE q = 1
        BY <3>2, <3>6, <4>2
      <4>3. CASE q # 1
        BY <3>5, <4>1, <4>3
      <4> QED
        BY <4>2, <4>3
    <3>8. Rest(i - 1) = [q \in 1..k1 + 1 |-> IF q = 1 THEN x ELSE r[q - 1]]
      BY <3>1, <3>2, <3>7
    <3> QED
      BY <3>2, <3>4, <3>8
  <2> HIDE DEF p
  <2>p. p \in Nat /\ p <= m /\ p + l <= m + 1 /\ p \in 1..m + 3
    <3>1. p \in Nat /\ p + l <= m + 1 /\ l \in {1, 3} /\ p \in 1..m + 3
      BY <2>3
    <3> QED
      BY <1>2, <3>1
  <2>5. (p - 1) + 1 = p /\ (p - 1) + 2 = p + 1 /\ (p - 1) + 3 = p + 2
    BY ONLY <2>p
  <2>6. from[p] = Telling(name, from, p) /\ ~(p > m)
    <3>1. from[p] = Telling(name, from, p)
      BY <1>4, <2>p
    <3> QED
      BY <1>2, <2>p, <3>1
  <2>7. ASSUME NEW t, NEW w \in Words, t = Mark[w], t = Fold(id[i]),
               Escapes(Piece(id, i), w)
        PROVE  from[p] = <<Fold(id[i])>> \o Rest(i)
    <3>1. /\ Len(Piece(id, i)) = 3 /\ Piece(id, i)[1] = "_" /\ Piece(id, i)[2] = w
          /\ Piece(id, i)[3] = "_"
      BY <2>7 DEF Escapes
    <3>l. l = 3
      BY <3>1 DEF l
    <3>2. l = 3 /\ p + 2 <= m
      BY <1>2, <2>p, <3>l
    <3>a. 1 \in 1..l /\ 2 \in 1..l /\ 3 \in 1..l
      BY <3>2
    <3>b. name[p] = Piece(id, i)[1] /\ name[p + 1] = Piece(id, i)[2] /\ name[p + 2] = Piece(id, i)[3]
      BY <2>3, <2>5, <3>a
    <3>3. name[p] = "_" /\ name[p + 1] = w /\ name[p + 2] = "_" /\ p + 2 <= m
      BY <3>1, <3>2, <3>b
    <3>4. StartsWith(name, p, w)
      BY <3>3 DEF StartsWith
    <3>5. from[p] = <<t>> \o from[p + 3]
      BY <2>6, <2>7, <3>3, <3>4 DEF Telling
    <3> QED
      BY <2>2, <2>3, <2>7, <3>2, <3>5
  <2>8. ASSUME Stands(id, i)
        PROVE  from[p] = <<Fold(id[i])>> \o Rest(i)
    <3>1. Len(Piece(id, i)) = 1 /\ Piece(id, i)[1] = Fold(id[i])
      BY <2>8 DEF Stands, Letter
    <3>2. l = 1 /\ 1 \in 1..l
      BY <3>1 DEF l
    <3>3. name[p] = Fold(id[i])
      BY <2>3, <2>5, <3>1, <3>2
    <3>4. \A w \in Words : ~StartsWith(name, p, w)
      BY <1>1, <2>1, <2>8, NoEscape DEF p
    <3>5. from[p] = <<Fold(id[i])>> \o from[p + 1]
      BY <2>6, <3>3, <3>4 DEF Telling
    <3> QED
      BY <2>2, <2>3, <3>2, <3>5
  <2>9. from[p] = <<Fold(id[i])>> \o Rest(i)
    <3>1. \A t \in {"-", ".", "_"} : Fold(t) = t
      BY Marks
    <3>2. Mark["dash"] = "-" /\ Mark["dot"] = "." /\ Mark["underscore"] = "_"
      BY DEF Mark
    <3>3. "dash" \in Words /\ "dot" \in Words /\ "underscore" \in Words
      BY DEF Words
    <3>4. CASE id[i] = "-" /\ Escapes(Piece(id, i), "dash")
      BY <2>7, <3>1, <3>2, <3>3, <3>4
    <3>5. CASE id[i] = "." /\ Escapes(Piece(id, i), "dot")
      BY <2>7, <3>1, <3>2, <3>3, <3>5
    <3>6. CASE id[i] = "_" /\ Escapes(Piece(id, i), "underscore")
      BY <2>7, <3>1, <3>2, <3>3, <3>6
    <3> QED
      BY <2>1, <2>8, <3>4, <3>5, <3>6, PieceIs
  <2> QED
    BY <2>1, <2>4, <2>9 DEF p
<1> HIDE DEF T
<1>7. n \in T
  BY <1>2, <1>5, <1>6, PlaceByPlace
<1>8. from[1] = Rest(0)
  <2>1. n - n = 0 /\ to[0] = <<>> /\ Len(<<>>) + 1 = 1
    BY <1>1, <1>2 DEF Pieces
  <2> QED
    BY <1>7, <2>1 DEF T
<1>9. Rest(0) = Lower(id)
  <2>1. DOMAIN id = 1..n /\ n - 0 = n /\ \A q \in 1..n : 0 + q = q
    BY <1>2
  <2> QED
    BY <2>1 DEF Lower
<1> QED
  BY <1>3, <1>8, <1>9
-----------------------------------------------------------------------------
(* The lines of .env.                                                      *)

Names == {Name[c] : c \in Clients} \union {<<>>}
EnvLines == [name : Names, lower : BOOLEAN, key : Nat]

Command == [pc : {"idle", "ensure", "read", "open", "written"}, kind : Kinds,
            client : Clients \union {<<>>}, lines : Seq(EnvLines)]

Typed ==
  /\ env \in Seq(EnvLines)
  /\ cmd \in [Commands -> Command]
  /\ \A p \in Commands : cmd[p].pc # "idle" => cmd[p].client \in Clients
  /\ editor \in [open : BOOLEAN, lines : Seq(EnvLines)]
  /\ keys \in Nat

(* A line with a value, or of another setting.                             *)
Counted(l) == l.key # 0 \/ ~IsUser(l)

LEMMA NamesOfClients == \A c \in Clients : Name[c] \in Names /\ Name[c] # <<>>
<1> SUFFICES ASSUME NEW c \in Clients PROVE Name[c] \in Names /\ Name[c] # <<>>
  OBVIOUS
<1>1. c \in Seq(STRING) /\ c # <<>>
  BY EnvAssumption
<1>2. Name[c] = NameOf(c)
  BY DEF Name
<1>3. PICK to : Pieces(c, to)
  BY <1>1, NameParts
<1>4. 1 \in 1..Len(c)
  BY <1>1
<1>5. /\ Len(to[1]) = Len(to[1 - 1]) + Len(Piece(c, 1)) /\ Len(to[1]) <= Len(NameOf(c))
      /\ Len(to[1 - 1]) \in Nat /\ Len(NameOf(c)) \in Nat
  BY <1>1, <1>3, <1>4, NamePiece
<1>6. Len(Piece(c, 1)) \in {1, 3}
  BY <1>1, <1>4, PieceTyped
<1>7. PICK a, b, m : a = Len(to[1 - 1]) /\ b = Len(Piece(c, 1)) /\ m = Len(NameOf(c))
  OBVIOUS
<1>8. a \in Nat /\ m \in Nat /\ b \in {1, 3} /\ a + b <= m
  BY <1>5, <1>6, <1>7
<1>9. m # 0
  BY ONLY <1>8
<1>10. NameOf(c) # <<>>
  BY <1>7, <1>9
<1> QED
  BY <1>2, <1>10 DEF Names

LEMMA LineTyped ==
  ASSUME NEW name \in Names, NEW lower \in BOOLEAN, NEW key \in Nat
  PROVE  Line(name, lower, key) \in EnvLines
BY DEF Line, EnvLines

(* What ensure_edge_api_keys makes of a file has every line of value the   *)
(* file had: it fills an empty line or adds one.                           *)
LEMMA EnsureKeeps ==
  ASSUME NEW lines \in Seq(EnvLines), NEW c \in Clients, NEW key \in Nat
  PROVE  LET new == ensure_edge_api_keys(lines, Name[c], key)
         IN /\ new \in Seq(EnvLines)
            /\ \A l \in Range(lines) : Counted(l) => l \in Range(new)
<1> DEFINE new == ensure_edge_api_keys(lines, Name[c], key)
           mine == {i \in DOMAIN lines : lines[i].name = Name[c] /\ ~lines[i].lower}
           fill == {i \in mine : lines[i].key = 0 /\ \A j \in mine : i <= j}
           added == Line(Name[c], FALSE, key)
<1>0. Name[c] \in Names /\ Name[c] # <<>>
  BY NamesOfClients
<1>1. added \in EnvLines
  BY <1>0, LineTyped
<1>2. \/ new = Append(lines, added)
      \/ new = [i \in DOMAIN lines |-> IF i \in fill THEN [lines[i] EXCEPT !.key = key]
                                       ELSE lines[i]]
  BY DEF ensure_edge_api_keys
<1>3. \A i \in DOMAIN lines : Counted(lines[i]) => i \notin fill
  BY <1>0 DEF Counted, IsUser
<1>4. DOMAIN lines = 1..Len(lines) /\ Len(lines) \in Nat /\ \A i \in DOMAIN lines : lines[i] \in EnvLines
  OBVIOUS
<1> HIDE DEF new, mine, fill, added
<1>5. CASE new = Append(lines, added)
  <2>1. new \in Seq(EnvLines)
    BY <1>1, <1>5
  <2>2. \A i \in DOMAIN lines : i \in DOMAIN new /\ new[i] = lines[i]
    BY <1>1, <1>4, <1>5
  <2> QED
    BY <2>1, <2>2 DEF Range, new
<1>6. CASE new = [i \in DOMAIN lines |-> IF i \in fill THEN [lines[i] EXCEPT !.key = key]
                                         ELSE lines[i]]
  <2>1. \A i \in DOMAIN lines : [lines[i] EXCEPT !.key = key] \in EnvLines
    BY <1>4 DEF EnvLines
  <2>2. new \in [1..Len(lines) -> EnvLines]
    BY <1>4, <1>6, <2>1
  <2>3. new \in Seq(EnvLines)
    BY <1>4, <2>2
  <2>4. \A i \in DOMAIN lines : i \in DOMAIN new /\ (Counted(lines[i]) => new[i] = lines[i])
    BY <1>3, <1>6
  <2>5. ASSUME NEW l \in Range(lines), Counted(l) PROVE l \in Range(new)
    <3>1. PICK i \in DOMAIN lines : l = lines[i]
      BY DEF Range
    <3> QED
      BY <2>4, <2>5, <3>1 DEF Range
  <2> QED
    BY <2>3, <2>5 DEF new
<1> QED
  BY <1>2, <1>5, <1>6
-----------------------------------------------------------------------------
(* Types, as far as the property needs them.                               *)

LEMMA InitTyped == EnvInit => Typed
<1> SUFFICES ASSUME EnvInit PROVE Typed
  OBVIOUS
<1>1. Other \in EnvLines
  BY LineTyped DEF Other, Names
<1>2. Idle \in Command
  BY DEF Idle, Command, Kinds
<1>3. <<>> \in Seq(EnvLines)
  OBVIOUS
<1> QED
  BY <1>1, <1>2, <1>3 DEF EnvInit, Typed, Idle

LEMMA PcTyped ==
  ASSUME Typed, NEW p \in Commands, NEW pc \in {"idle", "ensure", "read", "open", "written"},
         cmd[p].pc # "idle", cmd' = [cmd EXCEPT ![p].pc = pc], UNCHANGED editor,
         env' \in Seq(EnvLines), keys' \in Nat
  PROVE  Typed'
BY DEF Typed, Command

(* What the operator saves is what was opened and one line more.           *)
LEMMA SaveTyped ==
  ASSUME Typed, NEW c \in Clients, Save(c)
  PROVE  Typed' /\ \E l \in EnvLines : Holds(Append(editor.lines, l))
<1>0. editor.lines \in Seq(EnvLines) /\ keys \in Nat
  BY DEF Typed
<1>1. PICK k \in Nat, b \in BOOLEAN :
        Holds(Append(editor.lines, Line(Name[c], b, k))) /\ keys' \in Nat
  <2>1. CASE Holds(Append(editor.lines, Line(Name[c], FALSE, 0))) /\ UNCHANGED keys
    BY <1>0, <2>1
  <2>2. ASSUME NEW l \in Range(editor.lines), UNCHANGED keys,
               Holds(Append(editor.lines, Line(Name[c], FALSE, l.key)))
        PROVE  \E k \in Nat, b \in BOOLEAN :
                 Holds(Append(editor.lines, Line(Name[c], b, k))) /\ keys' \in Nat
    <3>1. l.key \in Nat
      <4>1. \A i \in DOMAIN editor.lines : editor.lines[i] \in EnvLines
        BY <1>0
      <4> QED
        BY <4>1 DEF Range, EnvLines
    <3> QED
      BY <1>0, <2>2, <3>1
  <2>3. CASE keys' = keys + 1 /\ Holds(Append(editor.lines, Line(Name[c], TRUE, keys + 1)))
    <3>1. keys + 1 \in Nat
      BY <1>0
    <3> QED
      BY <2>3, <3>1
  <2> QED
    BY <2>1, <2>2, <2>3 DEF Save
<1>2. Line(Name[c], b, k) \in EnvLines
  BY LineTyped, NamesOfClients
<1>3. env' \in Seq(EnvLines)
  BY <1>0, <1>1, <1>2 DEF Holds
<1>4. editor' \in [open : BOOLEAN, lines : Seq(EnvLines)] /\ UNCHANGED cmd
  <2>1. <<>> \in Seq(EnvLines)
    OBVIOUS
  <2> QED
    BY <2>1 DEF Save
<1> QED
  BY <1>1, <1>2, <1>3, <1>4 DEF Typed

(* A write that fails leaves the first i lines, and of the next one its    *)
(* variable, without a value or with a new one, or nothing.                *)
LEMMA FailedWrite ==
  ASSUME Typed, NEW p \in Commands, WriteFails(p)
  PROVE  /\ keys' = keys \/ (keys' = keys + 1 /\ keys < MaxKeys)
         /\ \E i \in 0..Len(cmd[p].lines) - 1 :
              \/ Holds(SubSeq(cmd[p].lines, 1, i))
              \/ \E k \in {0, keys'} :
                   Holds(Append(SubSeq(cmd[p].lines, 1, i),
                                [cmd[p].lines[i + 1] EXCEPT !.key = k]))
<1>1. PICK i \in 0..Len(cmd[p].lines) - 1 :
        \/ Holds(SubSeq(cmd[p].lines, 1, i)) /\ UNCHANGED keys
        \/ /\ Holds(Append(SubSeq(cmd[p].lines, 1, i), [cmd[p].lines[i + 1] EXCEPT !.key = 0]))
           /\ UNCHANGED keys
        \/ /\ keys < MaxKeys /\ keys' = keys + 1
           /\ Holds(Append(SubSeq(cmd[p].lines, 1, i),
                           [cmd[p].lines[i + 1] EXCEPT !.key = keys + 1]))
  BY DEF WriteFails
<1> DEFINE Left(k) == Holds(Append(SubSeq(cmd[p].lines, 1, i),
                                   [cmd[p].lines[i + 1] EXCEPT !.key = k]))
<1>2. \/ keys' = keys /\ (Holds(SubSeq(cmd[p].lines, 1, i)) \/ Left(0))
      \/ keys' = keys + 1 /\ keys < MaxKeys /\ Left(keys')
  BY <1>1
<1> HIDE DEF Left
<1>3. keys' = keys \/ (keys' = keys + 1 /\ keys < MaxKeys)
  BY <1>2
<1>4. Holds(SubSeq(cmd[p].lines, 1, i)) \/ \E k \in {0, keys'} : Left(k)
  <2>1. Holds(SubSeq(cmd[p].lines, 1, i)) \/ Left(0) \/ Left(keys')
    BY <1>2
  <2> QED
    BY <2>1, Zenon
<1> QED
  BY <1>3, <1>4 DEF Left

LEMMA WriteFailsTyped ==
  ASSUME Typed, NEW p \in Commands, WriteFails(p)
  PROVE  Typed'
<1>1. cmd[p].lines \in Seq(EnvLines) /\ keys \in Nat
  BY DEF Typed, Command
<1>2. PICK i \in 0..Len(cmd[p].lines) - 1 :
        \/ Holds(SubSeq(cmd[p].lines, 1, i))
        \/ \E k \in {0, keys'} :
             Holds(Append(SubSeq(cmd[p].lines, 1, i), [cmd[p].lines[i + 1] EXCEPT !.key = k]))
  BY FailedWrite
<1>3. keys' \in Nat
  BY <1>1, FailedWrite
<1>4. SubSeq(cmd[p].lines, 1, i) \in Seq(EnvLines)
  BY <1>1
<1>5. \A k \in {0, keys'} : [cmd[p].lines[i + 1] EXCEPT !.key = k] \in EnvLines
  <2>1. cmd[p].lines[i + 1] \in EnvLines
    BY <1>1
  <2> QED
    BY <1>3, <2>1 DEF EnvLines
<1>6. \A x \in Seq(EnvLines), y \in EnvLines : Append(x, y) \in Seq(EnvLines)
  OBVIOUS
<1>7. env' \in Seq(EnvLines)
  BY <1>2, <1>4, <1>5, <1>6 DEF Holds
<1> QED
  BY <1>3, <1>7, PcTyped DEF WriteFails, Proceeds

LEMMA StepTyped == Typed /\ [EnvNext]_envVars => Typed'
<1> SUFFICES ASSUME Typed, [EnvNext]_envVars PROVE Typed'
  OBVIOUS
<1>1. ASSUME NEW p \in Commands, NEW kind \in Kinds, NEW c \in Clients, Begin(p, kind, c)
      PROVE  Typed'
  <2>1. PICK s \in {"ensure", "idle"} :
          cmd' = [cmd EXCEPT ![p] = [pc |-> s, kind |-> kind, client |-> c, lines |-> <<>>]]
    BY <1>1 DEF Begin
  <2>2. [pc |-> s, kind |-> kind, client |-> c, lines |-> <<>>] \in Command
    BY DEF Command
  <2>3. cmd' \in [Commands -> Command]
    BY <2>1, <2>2 DEF Typed
  <2>4. \A q \in Commands : cmd'[q].pc # "idle" => cmd'[q].client \in Clients
    BY <2>1, <2>2 DEF Typed
  <2> QED
    BY <1>1, <2>3, <2>4 DEF Begin, Typed
<1>2. ASSUME NEW p \in Commands, Read(p) PROVE Typed'
  <2>1. /\ cmd[p].client \in Clients /\ env \in Seq(EnvLines)
        /\ keys' = keys + 1 /\ keys + 1 \in Nat
    BY <1>2 DEF Read, Typed
  <2> DEFINE new == ensure_edge_api_keys(env, Name[cmd[p].client], keys + 1)
  <2>2. new \in Seq(EnvLines)
    BY <2>1, EnsureKeeps
  <2>3. cmd' = [cmd EXCEPT ![p].pc = "read", ![p].lines = new]
    BY <1>2 DEF Read
  <2> HIDE DEF new
  <2>4. [cmd[p] EXCEPT !.pc = "read", !.lines = new] \in Command
    BY <2>2 DEF Typed, Command
  <2>5. cmd' = [cmd EXCEPT ![p] = [cmd[p] EXCEPT !.pc = "read", !.lines = new]]
    BY <2>3 DEF Typed, Command
  <2> QED
    BY <1>2, <2>1, <2>4, <2>5 DEF Read, Typed, Command
<1>3. ASSUME NEW p \in Commands, Open(p) PROVE Typed'
  <2>1. cmd[p].pc # "idle" /\ cmd' = [cmd EXCEPT ![p].pc = "open"]
    BY <1>3 DEF Open, Proceeds
  <2>2. env' \in Seq(EnvLines) /\ keys' \in Nat /\ UNCHANGED editor
    BY <1>3 DEF Open, Holds, Typed
  <2> QED
    BY <2>1, <2>2, PcTyped
<1>4. ASSUME NEW p \in Commands, Write(p) PROVE Typed'
  <2>1. cmd[p].lines \in Seq(EnvLines)
    BY DEF Typed, Command
  <2> QED
    BY <1>4, <2>1, PcTyped DEF Write, Proceeds, Holds, Typed
<1>5. ASSUME NEW p \in Commands, HandOut(p) \/ Kill(p) PROVE Typed'
  BY <1>5, PcTyped DEF HandOut, Kill, Proceeds, Typed
<1>6. ASSUME NEW c \in Clients, Save(c) PROVE Typed'
  BY <1>6, SaveTyped
<1>7. CASE OpenEditor
  BY <1>7 DEF OpenEditor, Typed
<1>8. ASSUME NEW p \in Commands, WriteFails(p) PROVE Typed'
  BY <1>8, WriteFailsTyped
<1>9. CASE Start \/ Stop \/ UNCHANGED envVars
  BY <1>9 DEF Start, Stop, envVars, Typed
<1> QED
  BY <1>1, <1>2, <1>3, <1>4, <1>5, <1>6, <1>7, <1>8, <1>9 DEF EnvNext
-----------------------------------------------------------------------------
(* LineLossNeedsOverlap.  Until two writers overlap, or a command is       *)
(* killed or cannot write, the one command that writes has in hand every   *)
(* line of value there ever was, and while none has the file open, the     *)
(* file has.                                                               *)

OnlyWriter == \A p, q \in Commands : p \in Writing /\ q \in Writing => p = q

NothingLost ==
  /\ \A p \in Writing : ever \subseteq Range(cmd[p].lines)
  /\ (\A p \in Commands : cmd[p].pc # "open") => ever \subseteq Range(env)

IInv == /\ Typed
        /\ \A l \in ever : Counted(l)
        /\ mangled \in BOOLEAN
        /\ ~mangled => OnlyWriter /\ NothingLost

LEMMA HoldsCounted ==
  ASSUME NEW lines, Holds(lines), \A l \in ever : Counted(l)
  PROVE  /\ \A l \in ever' : Counted(l)
         /\ \A l \in ever' : l \in ever \/ l \in Range(lines)
BY DEF Holds, Counted

LEMMA StepKeeps == IInv /\ [EnvNext]_envVars => IInv'
<1> SUFFICES ASSUME IInv, [EnvNext]_envVars PROVE IInv'
  OBVIOUS
<1>0. Typed /\ Typed'
  BY StepTyped DEF IInv
<1>t. cmd \in [Commands -> Command] /\ \A l \in ever : Counted(l)
  BY DEF IInv, Typed
<1> USE DEF Writing
<1>1. ASSUME NEW p \in Commands, NEW kind \in Kinds, NEW c \in Clients, Begin(p, kind, c)
      PROVE  IInv'
  <2>1. PICK s \in {"ensure", "idle"} :
          cmd' = [cmd EXCEPT ![p] = [pc |-> s, kind |-> kind, client |-> c, lines |-> <<>>]]
    BY <1>1 DEF Begin
  <2>2. UNCHANGED <<env, ever, mangled>> /\ cmd[p].pc = "idle"
    BY <1>1 DEF Begin
  <2>3. Writing' = Writing /\ \A q \in Writing : cmd'[q] = cmd[q]
    BY <1>t, <2>1, <2>2
  <2>4. (\A q \in Commands : cmd'[q].pc # "open") => \A q \in Commands : cmd[q].pc # "open"
    BY <1>t, <2>1, <2>2
  <2> QED
    BY <1>0, <2>2, <2>3, <2>4 DEF IInv, OnlyWriter, NothingLost
<1>2. ASSUME NEW p \in Commands, Read(p) PROVE IInv'
  <2> DEFINE new == ensure_edge_api_keys(env, Name[cmd[p].client], keys + 1)
  <2>1. /\ UNCHANGED <<env, ever>> /\ cmd[p].pc = "ensure"
        /\ cmd' = [cmd EXCEPT ![p].pc = "read", ![p].lines = new]
        /\ mangled' = (mangled \/ Writing # {})
    BY <1>2 DEF Read
  <2>2. \A l \in Range(env) : Counted(l) => l \in Range(new)
    <3>1. cmd[p].client \in Clients /\ env \in Seq(EnvLines) /\ keys + 1 \in Nat
      BY <1>0, <2>1 DEF Typed
    <3> QED
      BY <3>1, EnsureKeeps
  <2> HIDE DEF new
  <2>3. ASSUME ~mangled' PROVE (OnlyWriter /\ NothingLost)'
    <3>1. ~mangled /\ Writing = {}
      BY <2>1, <2>3
    <3>2. \A q \in Commands : cmd[q].pc \notin {"read", "open"}
      BY <3>1
    <3>3. ever \subseteq Range(env)
      BY <3>1, <3>2 DEF IInv, NothingLost
    <3>4. ever \subseteq Range(new)
      BY <1>t, <2>2, <3>3
    <3>5. /\ cmd'[p].pc = "read" /\ cmd'[p].lines = new
          /\ \A q \in Commands : q # p => cmd'[q] = cmd[q]
      BY <1>t, <2>1 DEF Command
    <3>6. Writing' = {p}
      BY <3>2, <3>5
    <3> QED
      BY <2>1, <3>3, <3>4, <3>5, <3>6 DEF OnlyWriter, NothingLost
  <2> QED
    BY <1>0, <1>t, <2>1, <2>3 DEF IInv
<1>3. ASSUME NEW p \in Commands, Open(p) PROVE IInv'
  <2>1. /\ Holds(<<>>) /\ UNCHANGED mangled /\ cmd[p].pc = "read"
        /\ cmd' = [cmd EXCEPT ![p].pc = "open"]
    BY <1>3 DEF Open, Proceeds
  <2>2. ever' = ever
    BY <2>1 DEF Holds, Range
  <2>3. /\ cmd'[p].pc = "open"
        /\ \A q \in Commands : cmd'[q].lines = cmd[q].lines /\ (q # p => cmd'[q] = cmd[q])
    BY <1>t, <2>1 DEF Command
  <2>4. Writing' = Writing
    BY <2>1, <2>3
  <2> QED
    BY <1>0, <1>t, <2>1, <2>2, <2>3, <2>4 DEF IInv, OnlyWriter, NothingLost
<1>4. ASSUME NEW p \in Commands, Write(p) PROVE IInv'
  <2>1. /\ Holds(cmd[p].lines) /\ UNCHANGED mangled /\ cmd[p].pc = "open"
        /\ \E s \in {"written", "idle"} : cmd' = [cmd EXCEPT ![p].pc = s]
    BY <1>4 DEF Write, Proceeds
  <2>2. /\ \A l \in ever' : Counted(l)
        /\ \A l \in ever' : l \in ever \/ l \in Range(cmd[p].lines)
    BY <1>t, <2>1, HoldsCounted
  <2>3. /\ cmd'[p].pc \in {"written", "idle"}
        /\ \A q \in Commands : q # p => cmd'[q] = cmd[q]
    BY <1>t, <2>1 DEF Command
  <2>4. ASSUME ~mangled PROVE Writing' = {} /\ ever' \subseteq Range(env')
    <3>1. OnlyWriter /\ NothingLost /\ p \in Writing
      BY <2>1, <2>4 DEF IInv
    <3>2. Writing' = {}
      BY <2>3, <3>1 DEF OnlyWriter
    <3>3. ever \subseteq Range(cmd[p].lines)
      BY <3>1 DEF NothingLost
    <3>4. env' = cmd[p].lines
      BY <2>1 DEF Holds
    <3> QED
      BY <2>2, <3>2, <3>3, <3>4
  <2> QED
    BY <1>0, <2>1, <2>2, <2>4 DEF IInv, OnlyWriter, NothingLost
<1>5. ASSUME NEW p \in Commands, HandOut(p) PROVE IInv'
  <2>1. /\ UNCHANGED <<env, ever, mangled>> /\ cmd[p].pc = "written"
        /\ cmd' = [cmd EXCEPT ![p].pc = "idle"]
    BY <1>5 DEF HandOut, Proceeds
  <2>2. cmd'[p].pc = "idle" /\ \A q \in Commands : q # p => cmd'[q] = cmd[q]
    BY <1>t, <2>1 DEF Command
  <2>3. Writing' = Writing /\ \A q \in Writing : cmd'[q] = cmd[q]
    BY <2>1, <2>2
  <2> QED
    BY <1>0, <2>1, <2>2, <2>3 DEF IInv, OnlyWriter, NothingLost
<1>6. ASSUME NEW p \in Commands, Kill(p) PROVE IInv'
  BY <1>0, <1>t, <1>6 DEF Kill, IInv
<1>7. ASSUME NEW c \in Clients, Save(c) PROVE IInv'
  <2>1. UNCHANGED cmd /\ mangled' = (mangled \/ Writing # {} \/ env # editor.lines)
    BY <1>7 DEF Save
  <2>2. PICK l \in EnvLines : Holds(Append(editor.lines, l))
    BY <1>0, <1>7, SaveTyped
  <2>3. \A m \in Range(editor.lines) : m \in Range(Append(editor.lines, l))
    <3>1. editor.lines \in Seq(EnvLines)
      BY <1>0 DEF Typed
    <3>2. PICK lines \in Seq(EnvLines) : lines = editor.lines
      BY <3>1
    <3>3. \A i \in DOMAIN lines : i \in DOMAIN Append(lines, l) /\ Append(lines, l)[i] = lines[i]
      OBVIOUS
    <3> QED
      BY <3>2, <3>3 DEF Range
  <2>4. /\ \A m \in ever' : Counted(m)
        /\ \A m \in ever' : m \in ever \/ m \in Range(Append(editor.lines, l))
    BY <1>t, <2>2, HoldsCounted
  <2>5. ASSUME ~mangled' PROVE OnlyWriter' /\ NothingLost'
    <3>1. ~mangled /\ Writing = {} /\ env = editor.lines
      BY <2>1, <2>5
    <3>2. \A p \in Commands : cmd[p].pc # "open"
      BY <3>1
    <3>3. ever \subseteq Range(editor.lines)
      BY <3>1, <3>2 DEF IInv, NothingLost
    <3>4. ever' \subseteq Range(env')
      BY <2>2, <2>3, <2>4, <3>3 DEF Holds
    <3> QED
      BY <2>1, <3>1, <3>4 DEF OnlyWriter, NothingLost
  <2>6. mangled' \in BOOLEAN
    BY <2>1 DEF IInv
  <2> QED
    BY <1>0, <2>4, <2>5, <2>6 DEF IInv
<1>8. ASSUME NEW p \in Commands, WriteFails(p) PROVE IInv'
  <2>1. mangled' = TRUE /\ \E lines : Holds(lines)
    BY <1>0, <1>8, FailedWrite DEF WriteFails
  <2>2. \A l \in ever' : Counted(l)
    BY <1>t, <2>1, HoldsCounted
  <2> QED
    BY <1>0, <2>1, <2>2 DEF IInv
<1>9. CASE OpenEditor \/ Start \/ Stop \/ UNCHANGED envVars
  BY <1>0, <1>t, <1>9 DEF OpenEditor, Start, Stop, envVars, IInv, OnlyWriter, NothingLost
<1> QED
  BY <1>1, <1>2, <1>3, <1>4, <1>5, <1>6, <1>7, <1>8, <1>9 DEF EnvNext

LEMMA InitKeeps == EnvInit => IInv
<1> SUFFICES ASSUME EnvInit PROVE IInv
  OBVIOUS
<1>1. Counted(Other) /\ Other \in Range(<<Other>>)
  <2>1. Counted(Other)
    BY DEF Counted, IsUser, Other, Line
  <2>2. 1 \in DOMAIN <<Other>> /\ <<Other>>[1] = Other
    OBVIOUS
  <2> QED
    BY <2>1, <2>2 DEF Range
<1>2. Writing = {}
  BY DEF EnvInit, Writing, Idle
<1> QED
  BY <1>1, <1>2, InitTyped DEF EnvInit, IInv, OnlyWriter, NothingLost

(* A line of value leaves .env only when two of those that write it, the   *)
(* operator's editor among them, overlapped, or a command was killed or    *)
(* could not write to the end.                                             *)
THEOREM LinesKept == EnvSpec => []LineLossNeedsOverlap
<1>1. EnvInit => IInv
  BY InitKeeps
<1>2. IInv => LineLossNeedsOverlap
  BY DEF IInv, NothingLost, Writing, LineLossNeedsOverlap
<1> QED
  BY <1>1, <1>2, StepKeeps, PTL DEF EnvSpec
-----------------------------------------------------------------------------
(* The keys.  A file names no variable twice and holds no key but those    *)
(* generated so far; every line of value in .env has been recorded; while  *)
(* the one command that writes has the file open, it is empty.             *)

Unique(lines) ==
  \A i, j \in DOMAIN lines :
    lines[i].name = lines[j].name /\ lines[i].lower = lines[j].lower => i = j

Bounded(lines, k) == \A i \in DOMAIN lines : lines[i].key <= k

FileInv ==
  /\ Unique(env) /\ Bounded(env, keys)
  /\ Unique(editor.lines) /\ Bounded(editor.lines, keys)
  /\ \A p \in Commands : Unique(cmd[p].lines) /\ Bounded(cmd[p].lines, keys)
  /\ \A i \in DOMAIN env : Counted(env[i]) => env[i] \in ever
  /\ (~mangled /\ \E p \in Commands : cmd[p].pc = "open") => env = <<>>
  /\ keys <= MaxKeys

(* Every key handed out is one of those generated.                         *)
HandedTyped == \A h \in handed : h.client \in Clients /\ h.key \in 1..keys

(* Every key handed out has stood in .env, on a line of its client.        *)
HandedRecorded ==
  \A h \in handed : \E l \in ever :
    /\ IsUser(l) /\ l.key = h.key
    /\ l.name = Name[h.client] \/ Id[l.name] = h.client

EdgeInv ==
  edge.up => /\ DOMAIN edge.users # {}
             /\ \A c, d \in DOMAIN edge.users : edge.users[c] = edge.users[d] => c = d

Accepted(users, h) ==
  \/ \E l \in ever : IsUser(l) /\ Clashes(l, h.client)
  \/ ReadAs(h.client) \in DOMAIN users /\ users[ReadAs(h.client)] = h.key

(* A key that is found is that of a line.                                  *)
LEMMA ValueFound ==
  ASSUME NEW lines, NEW name, _dotenv_value(lines, name) # 0
  PROVE  \E i \in DOMAIN lines : /\ lines[i].name = name /\ ~lines[i].lower
                                 /\ lines[i].key = _dotenv_value(lines, name)
BY DEF _dotenv_value, Range

LEMMA UserFound ==
  ASSUME NEW lines \in Seq(EnvLines), NEW c,
         c \in DOMAIN load_edge_user_keys_from_env(lines)
  PROVE  \E i \in Users(lines) :
           /\ Id[lines[i].name] = c
           /\ load_edge_user_keys_from_env(lines)[c] = lines[i].key
<1> DEFINE of == {i \in Users(lines) : Id[lines[i].name] = c}
           IsLast(i) == /\ Id[lines[i].name] = c
                        /\ \A j \in Users(lines) : Id[lines[j].name] = c => j <= i
           k == CHOOSE i \in Users(lines) : IsLast(i)
<1>1. of # {}
  BY DEF load_edge_user_keys_from_env
<1>2. of \subseteq 1..Len(lines) /\ Len(lines) \in Nat
  BY DEF Users
<1>3. PICK i \in of : \A j \in of : j <= i
  <2> HIDE DEF of
  <2> QED
    BY <1>1, <1>2, LastOf
<1>4. i \in Users(lines) /\ IsLast(i)
  BY <1>3
<1>5. k \in Users(lines) /\ IsLast(k)
  BY <1>4
<1>6. load_edge_user_keys_from_env(lines)[c] = lines[k].key
  BY DEF load_edge_user_keys_from_env
<1> QED
  BY <1>5, <1>6

(* The edge reads a client's variable as the client it takes it for.       *)
LEMMA ReadsAs ==
  ASSUME NEW c \in Clients
  PROVE  Id[Name[c]] = ReadAs(c)
<1>1. Id[Name[c]] = IdOf(NameOf(c)) /\ c \in Seq(STRING)
  BY EnvAssumption DEF Id, Name
<1>2. CASE Plain(c)
  BY <1>1, <1>2, IdsReadBack DEF ReadAs
<1>3. CASE ~Plain(c)
  BY <1>3 DEF ReadAs
<1> QED
  BY <1>2, <1>3

LEMMA KeyFound ==
  ASSUME NEW lines \in Seq(EnvLines), NEW c \in Clients, KeyOf(lines, c) # 0
  PROVE  \E i \in DOMAIN lines :
           /\ IsUser(lines[i]) /\ lines[i].key = KeyOf(lines, c)
           /\ lines[i].name = Name[c] \/ Id[lines[i].name] = c
<1>1. CASE c \in DOMAIN load_edge_user_keys_from_env(lines)
  <2>1. PICK i \in Users(lines) :
          /\ Id[lines[i].name] = c
          /\ load_edge_user_keys_from_env(lines)[c] = lines[i].key
    BY <1>1, UserFound
  <2>2. KeyOf(lines, c) = lines[i].key
    BY <1>1, <2>1 DEF KeyOf
  <2>3. i \in DOMAIN lines /\ IsUser(lines[i])
    BY DEF Users
  <2> QED
    BY <2>1, <2>2, <2>3
<1>2. CASE c \notin DOMAIN load_edge_user_keys_from_env(lines)
  <2>1. KeyOf(lines, c) = _dotenv_value(lines, Name[c])
    BY <1>2 DEF KeyOf
  <2>2. Name[c] # <<>>
    BY NamesOfClients
  <2> QED
    BY <2>1, <2>2, ValueFound DEF IsUser
<1> QED
  BY <1>1, <1>2

(* What is written names no variable twice.                                *)
LEMMA AppendUnique ==
  ASSUME NEW lines \in Seq(EnvLines), NEW l \in EnvLines, NEW k \in Nat,
         Unique(lines), Bounded(lines, k), l.key <= k,
         \A i \in DOMAIN lines : lines[i].name # l.name \/ lines[i].lower # l.lower
  PROVE  Unique(Append(lines, l)) /\ Bounded(Append(lines, l), k)
<1> DEFINE new == Append(lines, l)
           n == Len(lines) + 1
<1>1. /\ DOMAIN new = DOMAIN lines \union {n} /\ n \notin DOMAIN lines
      /\ new[n] = l /\ \A i \in DOMAIN lines : new[i] = lines[i]
  OBVIOUS
<1> HIDE DEF new, n
<1>2. Unique(new)
  BY <1>1 DEF Unique
<1>3. Bounded(new, k)
  BY <1>1 DEF Bounded
<1> QED
  BY <1>2, <1>3 DEF new

LEMMA BoundedMore ==
  ASSUME NEW lines \in Seq(EnvLines), NEW k \in Nat, Bounded(lines, k)
  PROVE  Bounded(lines, k + 1)
<1>1. ASSUME NEW i \in DOMAIN lines PROVE lines[i].key <= k + 1
  <2>1. lines[i] \in EnvLines /\ lines[i].key <= k
    BY DEF Bounded
  <2>2. lines[i].key \in Nat
    BY <2>1 DEF EnvLines
  <2> QED
    BY <2>1, <2>2
<1> QED
  BY <1>1 DEF Bounded

LEMMA EnsureUnique ==
  ASSUME NEW lines \in Seq(EnvLines), NEW c \in Clients, NEW k \in Nat,
         Unique(lines), Bounded(lines, k)
  PROVE  LET new == ensure_edge_api_keys(lines, Name[c], k + 1)
         IN Unique(new) /\ Bounded(new, k + 1)
<1> DEFINE new == ensure_edge_api_keys(lines, Name[c], k + 1)
           mine == {i \in DOMAIN lines : lines[i].name = Name[c] /\ ~lines[i].lower}
           fill == {i \in mine : lines[i].key = 0 /\ \A j \in mine : i <= j}
           added == Line(Name[c], FALSE, k + 1)
<1>1. \A i \in DOMAIN lines : lines[i] \in EnvLines
  OBVIOUS
<1>2. Bounded(lines, k + 1)
  BY BoundedMore
<1>3. CASE mine = {}
  <2>1. added \in EnvLines /\ added.name = Name[c] /\ added.lower = FALSE /\ added.key = k + 1
    <3>1. Name[c] \in Names /\ k + 1 \in Nat /\ FALSE \in BOOLEAN
      BY NamesOfClients
    <3>2. added \in EnvLines
      BY <3>1, LineTyped
    <3> QED
      BY <3>2 DEF Line
  <2>2. \A i \in DOMAIN lines : lines[i].name # added.name \/ lines[i].lower # added.lower
    BY <1>1, <1>3, <2>1 DEF EnvLines
  <2>3. new = Append(lines, added)
    BY <1>3 DEF ensure_edge_api_keys
  <2> HIDE DEF added, new
  <2>4. Unique(Append(lines, added)) /\ Bounded(Append(lines, added), k + 1)
    BY <1>2, <2>1, <2>2, AppendUnique
  <2> QED
    BY <2>3, <2>4 DEF new
<1>4. CASE mine # {}
  <2>1. new = [i \in DOMAIN lines |-> IF i \in fill THEN [lines[i] EXCEPT !.key = k + 1]
                                      ELSE lines[i]]
    BY <1>4 DEF ensure_edge_api_keys
  <2> HIDE DEF new, fill
  <2>2. DOMAIN new = DOMAIN lines
    BY <2>1
  <2>3. ASSUME NEW i \in DOMAIN lines
        PROVE  /\ new[i].name = lines[i].name /\ new[i].lower = lines[i].lower
               /\ new[i].key <= k + 1
    <3>1. lines[i] \in EnvLines /\ lines[i].key <= k + 1
      BY <1>1, <1>2 DEF Bounded
    <3>2. CASE i \in fill
      <4>1. new[i] = [lines[i] EXCEPT !.key = k + 1]
        BY <2>1, <3>2
      <4> QED
        BY <3>1, <4>1 DEF EnvLines
    <3>3. CASE i \notin fill
      <4>1. new[i] = lines[i]
        BY <2>1, <3>3
      <4> QED
        BY <3>1, <4>1
    <3> QED
      BY <3>2, <3>3
  <2>4. Unique(new)
    BY <2>2, <2>3 DEF Unique
  <2>5. Bounded(new, k + 1)
    BY <2>2, <2>3 DEF Bounded
  <2> QED
    BY <2>4, <2>5 DEF new
<1> QED
  BY <1>3, <1>4
-----------------------------------------------------------------------------
(* A line is added only for a client that has none.                        *)
LEMMA SaveUnique ==
  ASSUME Typed, FileInv, NEW c \in Clients, Save(c)
  PROVE  /\ Unique(env') /\ Bounded(env', keys') /\ keys' \in {keys, keys + 1}
         /\ keys' <= MaxKeys
         /\ \A i \in DOMAIN env' : Counted(env'[i]) => env'[i] \in ever'
<1>s. PICK lines : lines = editor.lines
  OBVIOUS
<1>0. keys \in Nat /\ lines \in Seq(EnvLines) /\ Unique(lines) /\ Bounded(lines, keys)
  BY <1>s DEF Typed, FileInv
<1>1. PICK k \in Nat, b \in BOOLEAN :
        /\ Holds(Append(lines, Line(Name[c], b, k)))
        /\ keys' \in {keys, keys + 1} /\ k <= keys' /\ keys' <= MaxKeys
  <2>0. keys <= MaxKeys /\ MaxKeys \in Nat /\ 0 <= keys /\ keys + 1 \in Nat
    BY <1>0, EnvAssumption DEF FileInv
  <2>1. CASE Holds(Append(lines, Line(Name[c], FALSE, 0))) /\ UNCHANGED keys
    <3>1. Holds(Append(lines, Line(Name[c], FALSE, 0))) /\ keys' = keys
      BY <2>1
    <3> QED
      BY <2>0, <3>1
  <2>2. ASSUME NEW l \in Range(lines), Holds(Append(lines, Line(Name[c], FALSE, l.key))),
               UNCHANGED keys
        PROVE  \E k \in Nat, b \in BOOLEAN :
                 /\ Holds(Append(lines, Line(Name[c], b, k)))
                 /\ keys' \in {keys, keys + 1} /\ k <= keys' /\ keys' <= MaxKeys
    <3>1. PICK i \in DOMAIN lines : l = lines[i]
      BY DEF Range
    <3>2. lines[i] \in EnvLines /\ lines[i].key <= keys
      BY <1>0 DEF Bounded
    <3>3. l.key \in Nat /\ l.key <= keys
      BY <3>1, <3>2 DEF EnvLines
    <3> QED
      BY <2>2, <3>3 DEF FileInv
  <2>3. CASE keys < MaxKeys /\ keys' = keys + 1 /\ Holds(Append(lines, Line(Name[c], TRUE, keys + 1)))
    <3>1. /\ keys + 1 \in Nat /\ keys + 1 <= MaxKeys /\ keys + 1 <= keys'
          /\ keys' \in {keys, keys + 1} /\ keys' <= MaxKeys
      BY <1>0, <2>0, <2>3
    <3>2. Holds(Append(lines, Line(Name[c], TRUE, keys + 1)))
      BY <2>3
    <3> QED
      BY <3>1, <3>2
  <2> QED
    BY <1>s, <2>1, <2>2, <2>3 DEF Save
<1> DEFINE l == Line(Name[c], b, k)
<1>2. l \in EnvLines /\ l.name = Name[c] /\ l.key = k
  BY LineTyped, NamesOfClients DEF Line
<1>3. \A i \in DOMAIN lines : lines[i].name # Name[c]
  BY <1>s DEF Save, Range
<1>4. Bounded(lines, keys')
  BY <1>0, <1>1, BoundedMore
<1>5. keys' \in Nat
  BY <1>0, <1>1
<1>6. env' = Append(lines, l) /\ ever' = ever \union {m \in Range(env') : Counted(m)}
  BY <1>1 DEF Holds, Counted
<1> HIDE DEF l
<1>7. Unique(env') /\ Bounded(env', keys')
  BY <1>0, <1>1, <1>2, <1>3, <1>4, <1>5, <1>6, AppendUnique
<1>8. \A i \in DOMAIN env' : Counted(env'[i]) => env'[i] \in ever'
  BY <1>6 DEF Range
<1> QED
  BY <1>1, <1>7, <1>8

(* A write that fails names no variable twice, either.                     *)
LEMMA CutUnique ==
  ASSUME NEW lines \in Seq(EnvLines), NEW i \in 0..Len(lines) - 1, NEW k \in Nat, NEW n \in Nat,
         k <= n, Unique(lines), Bounded(lines, n)
  PROVE  LET whole == SubSeq(lines, 1, i)
             new == Append(whole, [lines[i + 1] EXCEPT !.key = k])
         IN Unique(whole) /\ Bounded(whole, n) /\ Unique(new) /\ Bounded(new, n)
<1>1. PICK whole, l : whole = SubSeq(lines, 1, i) /\ l = [lines[i + 1] EXCEPT !.key = k]
  OBVIOUS
<1>2. /\ whole \in Seq(EnvLines) /\ DOMAIN whole = 1..i
      /\ \A j \in 1..i : whole[j] = lines[j] /\ j \in DOMAIN lines /\ j # i + 1
  BY <1>1
<1>3. i + 1 \in DOMAIN lines /\ lines[i + 1] \in EnvLines
  OBVIOUS
<1>4. l \in EnvLines /\ l.name = lines[i + 1].name /\ l.lower = lines[i + 1].lower /\ l.key = k
  BY <1>1, <1>3 DEF EnvLines
<1>5. Unique(whole) /\ Bounded(whole, n)
  BY <1>2 DEF Unique, Bounded
<1>6. \A j \in DOMAIN whole : whole[j].name # l.name \/ whole[j].lower # l.lower
  BY <1>2, <1>3, <1>4 DEF Unique
<1>7. Unique(Append(whole, l)) /\ Bounded(Append(whole, l), n)
  BY <1>2, <1>4, <1>5, <1>6, AppendUnique
<1> QED
  BY <1>1, <1>5, <1>7

LEMMA WriteFailsUnique ==
  ASSUME Typed, FileInv, NEW p \in Commands, WriteFails(p)
  PROVE  /\ Unique(env') /\ Bounded(env', keys') /\ keys' \in {keys, keys + 1}
         /\ keys' <= MaxKeys
         /\ \A i \in DOMAIN env' : Counted(env'[i]) => env'[i] \in ever'
<1>1. PICK lines : lines = cmd[p].lines
  OBVIOUS
<1>2. /\ lines \in Seq(EnvLines) /\ keys \in Nat /\ MaxKeys \in Nat /\ keys <= MaxKeys
      /\ Unique(lines) /\ Bounded(lines, keys)
  BY <1>1, EnvAssumption DEF Typed, Command, FileInv
<1>3. PICK i \in 0..Len(lines) - 1 :
        \/ Holds(SubSeq(lines, 1, i))
        \/ \E k \in {0, keys'} :
             Holds(Append(SubSeq(lines, 1, i), [lines[i + 1] EXCEPT !.key = k]))
  BY <1>1, FailedWrite
<1>4. keys' \in Nat /\ keys' <= MaxKeys /\ keys' \in {keys, keys + 1}
  <2>1. keys' = keys \/ (keys' = keys + 1 /\ keys < MaxKeys)
    BY FailedWrite
  <2> QED
    BY <1>2, <2>1
<1>5. Bounded(lines, keys')
  BY <1>2, <1>4, BoundedMore
<1>6. \A k \in {0, keys'} :
        LET whole == SubSeq(lines, 1, i)
            new == Append(whole, [lines[i + 1] EXCEPT !.key = k])
        IN Unique(whole) /\ Bounded(whole, keys') /\ Unique(new) /\ Bounded(new, keys')
  <2>1. \A k \in {0, keys'} : k \in Nat /\ k <= keys'
    BY <1>4
  <2> QED
    BY <1>2, <1>4, <1>5, <2>1, CutUnique
<1>7. Unique(env') /\ Bounded(env', keys')
  BY <1>3, <1>6 DEF Holds
<1>8. \E all : Holds(all)
  BY <1>3
<1>9. \A j \in DOMAIN env' : Counted(env'[j]) => env'[j] \in ever'
  BY <1>8 DEF Holds, Range, Counted
<1> QED
  BY <1>4, <1>7, <1>9

LEMMA FilesKeep ==
  ASSUME IInv, FileInv, [EnvNext]_envVars
  PROVE  FileInv'
<1>0. /\ keys \in Nat /\ env \in Seq(EnvLines) /\ cmd \in [Commands -> Command]
      /\ editor.lines \in Seq(EnvLines) /\ \A p \in Commands : cmd[p].lines \in Seq(EnvLines)
  BY DEF IInv, Typed, Command
<1>1. ASSUME NEW p \in Commands, NEW kind \in Kinds, NEW c \in Clients, Begin(p, kind, c)
      PROVE  FileInv'
  <2>1. PICK s \in {"ensure", "idle"} :
          cmd' = [cmd EXCEPT ![p] = [pc |-> s, kind |-> kind, client |-> c, lines |-> <<>>]]
    BY <1>1 DEF Begin
  <2>2. UNCHANGED <<env, ever, editor, keys, mangled>>
    BY <1>1 DEF Begin
  <2>3. Unique(<<>>) /\ Bounded(<<>>, keys)
    BY DEF Unique, Bounded
  <2>4. /\ cmd'[p].lines = <<>> /\ cmd'[p].pc # "open"
        /\ \A q \in Commands : q # p => cmd'[q] = cmd[q]
    BY <1>0, <2>1
  <2>5. \A q \in Commands : Unique(cmd'[q].lines) /\ Bounded(cmd'[q].lines, keys)
    BY <2>3, <2>4 DEF FileInv
  <2> QED
    BY <2>2, <2>4, <2>5 DEF FileInv
<1>2. ASSUME NEW p \in Commands, Read(p) PROVE FileInv'
  <2> DEFINE new == ensure_edge_api_keys(env, Name[cmd[p].client], keys + 1)
  <2>1. /\ UNCHANGED <<env, ever, editor>> /\ cmd[p].pc = "ensure"
        /\ cmd' = [cmd EXCEPT ![p].pc = "read", ![p].lines = new]
        /\ keys' = keys + 1 /\ keys < MaxKeys
        /\ mangled' = (mangled \/ Writing # {})
    BY <1>2 DEF Read
  <2>2. cmd[p].client \in Clients
    BY <2>1 DEF IInv, Typed
  <2>3. Unique(new) /\ Bounded(new, keys + 1)
    BY <1>0, <2>2, EnsureUnique DEF FileInv
  <2> HIDE DEF new
  <2>4. /\ cmd'[p].lines = new /\ cmd'[p].pc = "read"
        /\ \A q \in Commands : q # p => cmd'[q] = cmd[q]
    BY <1>0, <2>1 DEF Command
  <2>5. \A q \in Commands : Unique(cmd'[q].lines) /\ Bounded(cmd'[q].lines, keys')
    BY <1>0, <2>1, <2>3, <2>4, BoundedMore DEF FileInv
  <2>6. Bounded(env', keys') /\ Bounded(editor.lines, keys') /\ keys' <= MaxKeys
    BY <1>0, <2>1, BoundedMore, EnvAssumption DEF FileInv
  <2>7. (~mangled' /\ \E q \in Commands : cmd'[q].pc = "open") => env' = <<>>
    BY <2>1, <2>4 DEF FileInv
  <2> QED
    BY <2>1, <2>5, <2>6, <2>7 DEF FileInv
<1>3. ASSUME NEW p \in Commands, Open(p) PROVE FileInv'
  <2>1. /\ env' = <<>> /\ UNCHANGED <<editor, keys, mangled>>
        /\ cmd' = [cmd EXCEPT ![p].pc = "open"]
    BY <1>3 DEF Open, Proceeds, Holds
  <2>2. \A q \in Commands : cmd'[q].lines = cmd[q].lines
    BY <1>0, <2>1 DEF Command
  <2>3. Unique(<<>>) /\ Bounded(<<>>, keys) /\ DOMAIN <<>> = {}
    BY DEF Unique, Bounded
  <2> QED
    BY <2>1, <2>2, <2>3 DEF FileInv
<1>4. ASSUME NEW p \in Commands, Write(p) PROVE FileInv'
  <2>1. /\ Holds(cmd[p].lines) /\ UNCHANGED <<editor, keys, mangled>> /\ cmd[p].pc = "open"
        /\ \E s \in {"written", "idle"} : cmd' = [cmd EXCEPT ![p].pc = s]
    BY <1>4 DEF Write, Proceeds
  <2>2. /\ cmd'[p].pc # "open"
        /\ \A q \in Commands : cmd'[q].lines = cmd[q].lines /\ (q # p => cmd'[q] = cmd[q])
    BY <1>0, <2>1 DEF Command
  <2>3. env' = cmd[p].lines /\ \A i \in DOMAIN env' : Counted(env'[i]) => env'[i] \in ever'
    BY <2>1 DEF Holds, Range, Counted
  <2>4. ~mangled => \A q \in Commands : cmd'[q].pc # "open"
    BY <2>1, <2>2 DEF IInv, OnlyWriter, Writing
  <2> QED
    BY <2>1, <2>2, <2>3, <2>4 DEF FileInv
<1>5. ASSUME NEW p \in Commands, HandOut(p) \/ Kill(p) PROVE FileInv'
  <2>1. /\ UNCHANGED <<env, ever, editor, keys>> /\ mangled' \in {mangled, TRUE}
        /\ cmd' = [cmd EXCEPT ![p].pc = "idle"]
    BY <1>5 DEF HandOut, Kill, Proceeds
  <2>2. /\ cmd'[p].pc # "open"
        /\ \A q \in Commands : cmd'[q].lines = cmd[q].lines /\ (q # p => cmd'[q] = cmd[q])
    BY <1>0, <2>1 DEF Command
  <2> QED
    BY <2>1, <2>2 DEF FileInv
<1>6. ASSUME NEW c \in Clients, Save(c) PROVE FileInv'
  <2>1. UNCHANGED cmd /\ mangled' = (mangled \/ Writing # {} \/ env # editor.lines)
    BY <1>6 DEF Save
  <2>2. /\ Unique(env') /\ Bounded(env', keys') /\ keys' \in {keys, keys + 1}
        /\ keys' <= MaxKeys
        /\ \A i \in DOMAIN env' : Counted(env'[i]) => env'[i] \in ever'
    BY <1>6, SaveUnique DEF IInv
  <2>3. \A p \in Commands : Unique(cmd[p].lines) /\ Bounded(cmd[p].lines, keys')
    BY <1>0, <2>2, BoundedMore DEF FileInv
  <2>4. ~mangled' => \A p \in Commands : cmd[p].pc # "open"
    BY <2>1 DEF Writing
  <2>5. editor'.lines = <<>> /\ Unique(<<>>) /\ Bounded(<<>>, keys')
    BY <1>6 DEF Save, Unique, Bounded
  <2> QED
    BY <2>1, <2>2, <2>3, <2>4, <2>5 DEF FileInv
<1>7. ASSUME NEW p \in Commands, WriteFails(p) PROVE FileInv'
  <2>1. mangled' = TRUE /\ UNCHANGED editor /\ cmd' = [cmd EXCEPT ![p].pc = "idle"]
    BY <1>7 DEF WriteFails, Proceeds
  <2>2. \A q \in Commands : cmd'[q].lines = cmd[q].lines
    BY <1>0, <2>1 DEF Command
  <2>3. /\ Unique(env') /\ Bounded(env', keys') /\ keys' \in {keys, keys + 1}
        /\ keys' <= MaxKeys
        /\ \A i \in DOMAIN env' : Counted(env'[i]) => env'[i] \in ever'
    BY <1>7, WriteFailsUnique DEF IInv
  <2>4. \A q \in Commands : Unique(cmd'[q].lines) /\ Bounded(cmd'[q].lines, keys')
    BY <1>0, <2>2, <2>3, BoundedMore DEF FileInv
  <2>5. Unique(editor'.lines) /\ Bounded(editor'.lines, keys')
    BY <1>0, <2>1, <2>3, BoundedMore DEF FileInv
  <2> QED
    BY <2>1, <2>3, <2>4, <2>5 DEF FileInv
<1>8. CASE OpenEditor
  <2>1. UNCHANGED <<env, ever, cmd, keys, mangled>> /\ editor' = [open |-> TRUE, lines |-> env]
    BY <1>8 DEF OpenEditor
  <2> QED
    BY <2>1 DEF FileInv
<1>9. CASE Start \/ Stop \/ UNCHANGED envVars
  BY <1>9 DEF Start, Stop, envVars, FileInv
<1> QED
  BY <1>1, <1>2, <1>3, <1>4, <1>5, <1>6, <1>7, <1>8, <1>9 DEF EnvNext

(* A step hands out no key but one of a line of .env.                      *)
LEMMA HandsOut ==
  ASSUME Typed, [EnvNext]_envVars
  PROVE  \/ handed' = handed
         \/ \E c \in Clients, i \in DOMAIN env :
              /\ handed' = handed \union {[client |-> c, key |-> env[i].key]}
              /\ env[i].key # 0 /\ IsUser(env[i])
              /\ env[i].name = Name[c] \/ Id[env[i].name] = c
              /\ UNCHANGED <<ever, keys>>
<1>0. env \in Seq(EnvLines)
  BY DEF Typed
<1>1. ASSUME NEW p \in Commands, NEW kind \in Kinds, NEW c \in Clients, Begin(p, kind, c),
             handed' # handed
      PROVE  \E i \in DOMAIN env :
               /\ handed' = handed \union {[client |-> c, key |-> env[i].key]}
               /\ env[i].key # 0 /\ IsUser(env[i])
               /\ env[i].name = Name[c] \/ Id[env[i].name] = c
               /\ UNCHANGED <<ever, keys>>
  <2>1. /\ KeyOf(env, c) # 0 /\ handed' = handed \union {[client |-> c, key |-> KeyOf(env, c)]}
        /\ UNCHANGED <<ever, keys>>
    BY <1>1 DEF Begin, Give
  <2>2. PICK i \in DOMAIN env : /\ env[i].key = KeyOf(env, c) /\ IsUser(env[i])
                                /\ env[i].name = Name[c] \/ Id[env[i].name] = c
    BY <1>0, <2>1, KeyFound
  <2> QED
    BY <2>1, <2>2
<1>2. ASSUME NEW p \in Commands, HandOut(p), handed' # handed
      PROVE  \E c \in Clients, i \in DOMAIN env :
               /\ handed' = handed \union {[client |-> c, key |-> env[i].key]}
               /\ env[i].key # 0 /\ IsUser(env[i]) /\ env[i].name = Name[c]
               /\ UNCHANGED <<ever, keys>>
  <2> DEFINE c == cmd[p].client
             k == _dotenv_value(env, Name[c])
  <2>1. /\ k # 0 /\ handed' = handed \union {[client |-> c, key |-> k]}
        /\ UNCHANGED <<ever, keys>>
    BY <1>2 DEF HandOut, Give
  <2>2. c \in Clients
    BY <1>2 DEF HandOut, Typed
  <2>3. PICK i \in DOMAIN env : env[i].name = Name[c] /\ env[i].key = k
    BY <2>1, ValueFound
  <2>4. IsUser(env[i])
    BY <2>2, <2>3, NamesOfClients DEF IsUser
  <2> HIDE DEF c, k
  <2> QED
    BY <2>1, <2>2, <2>3, <2>4
<1>3. ASSUME NEW p \in Commands, Read(p) \/ Open(p) \/ Write(p) \/ WriteFails(p) \/ Kill(p)
      PROVE  handed' = handed
  BY <1>3 DEF Read, Open, Write, WriteFails, Kill
<1>4. ASSUME NEW c \in Clients, Save(c) PROVE handed' = handed
  BY <1>4 DEF Save
<1>5. CASE OpenEditor \/ Start \/ Stop \/ UNCHANGED envVars
  BY <1>5 DEF OpenEditor, Start, Stop, envVars
<1> QED
  BY <1>1, <1>2, <1>3, <1>4, <1>5 DEF EnvNext

LEMMA KeysGrow ==
  ASSUME Typed, [EnvNext]_envVars
  PROVE  keys' \in Nat /\ keys' >= keys /\ ever \subseteq ever'
<1>1. keys' \in {keys, keys + 1}
  BY DEF EnvNext, Begin, Read, Open, Write, WriteFails, HandOut, Kill,
         OpenEditor, Save, Start, Stop, envVars
<1>2. ever \subseteq ever'
  BY DEF EnvNext, Begin, Read, Open, Write, WriteFails, HandOut, Kill,
         OpenEditor, Save, Start, Stop, envVars, Holds
<1> QED
  BY <1>1, <1>2 DEF Typed

LEMMA HandedKeeps ==
  ASSUME Typed, FileInv, HandedTyped, [EnvNext]_envVars
  PROVE  HandedTyped' /\ (HandedRecorded => HandedRecorded')
<1>1. keys' \in Nat /\ keys \in Nat /\ keys' >= keys /\ ever \subseteq ever'
  BY KeysGrow DEF Typed
<1>2. CASE handed' = handed
  BY <1>1, <1>2 DEF HandedTyped, HandedRecorded
<1>3. ASSUME NEW c \in Clients, NEW i \in DOMAIN env,
             handed' = handed \union {[client |-> c, key |-> env[i].key]},
             env[i].key # 0, IsUser(env[i]), env[i].name = Name[c] \/ Id[env[i].name] = c,
             UNCHANGED <<ever, keys>>
      PROVE  HandedTyped' /\ (HandedRecorded => HandedRecorded')
  <2>1. env[i] \in EnvLines /\ env[i].key <= keys
    BY DEF Typed, FileInv, Bounded
  <2>2. env[i].key \in 1..keys
    BY <1>1, <1>3, <2>1 DEF EnvLines
  <2>3. env[i] \in ever
    BY <1>3 DEF FileInv, Counted
  <2>4. HandedTyped'
    BY <1>3, <2>2 DEF HandedTyped
  <2>5. HandedRecorded => HandedRecorded'
    BY <1>3, <2>3 DEF HandedRecorded
  <2> QED
    BY <2>4, <2>5
<1> QED
  BY <1>2, <1>3, HandsOut

(* An edge that starts from a whole file knows the keys handed out.        *)
LEMMA StartAccepts ==
  ASSUME IInv, FileInv, HandedTyped, HandedRecorded, ~mangled, Loadable(env),
         NEW h \in handed
  PROVE  Accepted(load_edge_user_keys_from_env(env), h)
<1> DEFINE users == load_edge_user_keys_from_env(env)
           c == h.client
<1>0. /\ env \in Seq(EnvLines) /\ c \in Clients /\ h.key # 0
      /\ \A i \in DOMAIN env : env[i] \in EnvLines
  BY DEF IInv, Typed, HandedTyped
<1>1. env # <<>>
  <2>1. PICK d \in DOMAIN users : TRUE
    BY DEF Loadable
  <2>2. PICK i \in Users(env) : TRUE
    BY <2>1 DEF load_edge_user_keys_from_env
  <2>3. i \in DOMAIN env
    BY DEF Users
  <2> QED
    BY <2>3
<1>2. ever \subseteq Range(env)
  BY <1>1 DEF IInv, FileInv, NothingLost
<1>3. PICK l \in ever : IsUser(l) /\ l.key = h.key /\ (l.name = Name[c] \/ Id[l.name] = c)
  BY DEF HandedRecorded
<1>4. PICK i \in DOMAIN env : env[i] = l
  BY <1>2 DEF Range
<1>5. Id[Name[c]] = ReadAs(c)
  BY <1>0, ReadsAs
<1>6. CASE l.name # Name[c]
  BY <1>3, <1>6 DEF Accepted, Clashes
<1>7. CASE l.name = Name[c] /\ l.lower
  BY <1>3, <1>5, <1>7 DEF Accepted, Clashes
<1>8. CASE l.name = Name[c] /\ ~l.lower
  <2>1. i \in Users(env) /\ Id[env[i].name] = ReadAs(c)
    BY <1>0, <1>3, <1>4, <1>5, <1>8 DEF Users
  <2>2. ReadAs(c) \in DOMAIN users
    BY <2>1 DEF load_edge_user_keys_from_env
  <2>3. PICK k \in Users(env) : Id[env[k].name] = ReadAs(c) /\ users[ReadAs(c)] = env[k].key
    BY <1>0, <2>2, UserFound
  <2>4. k \in DOMAIN env /\ env[k].key # 0 /\ IsUser(env[k]) /\ env[k] \in ever
    BY DEF Users, FileInv, Counted
  <2>5. CASE env[k].lower \/ env[k].name # Name[c]
    BY <2>3, <2>4, <2>5 DEF Accepted, Clashes
  <2>6. CASE ~env[k].lower /\ env[k].name = Name[c]
    <3>1. env[k].lower = FALSE /\ env[i].lower = FALSE
      BY <1>0, <1>4, <1>8, <2>4, <2>6 DEF EnvLines
    <3>2. i = k
      BY <1>4, <1>8, <2>4, <2>6, <3>1 DEF FileInv, Unique
    <3> QED
      BY <1>3, <1>4, <2>2, <2>3, <3>2 DEF Accepted
  <2> QED
    BY <2>5, <2>6
<1> QED
  BY <1>6, <1>7, <1>8

LEMMA EdgeKeeps ==
  ASSUME IInv, FileInv, HandedTyped, EdgeInv, [EnvNext]_envVars
  PROVE  /\ EdgeInv'
         /\ HandedRecorded /\ HandedOutAccepted => HandedOutAccepted'
<1>0. ever \subseteq ever' /\ (~mangled' => ~mangled)
  <2>1. ~mangled' => ~mangled
    BY DEF EnvNext, Begin, Read, Open, Write, WriteFails, HandOut, Kill,
         OpenEditor, Save, Start, Stop, envVars
  <2> QED
    BY <2>1, KeysGrow DEF IInv
<1>1. CASE Start
  <2>1. /\ Loadable(env) /\ UNCHANGED <<env, ever, mangled>>
        /\ edge'.users = load_edge_user_keys_from_env(env) /\ edge'.since = handed
    BY <1>1 DEF Start
  <2>2. EdgeInv'
    BY <2>1 DEF EdgeInv, Loadable
  <2>3. ASSUME HandedRecorded PROVE HandedOutAccepted'
    <3>1. ASSUME ~mangled, NEW h \in handed PROVE Accepted(edge'.users, h)
      BY <2>1, <2>3, <3>1, StartAccepts
    <3> QED
      BY <2>1, <3>1 DEF HandedOutAccepted, Accepted
  <2> QED
    BY <2>2, <2>3
<1>2. CASE Stop
  <2>1. ~edge'.up
    BY <1>2 DEF Stop
  <2> QED
    BY <2>1 DEF EdgeInv, HandedOutAccepted
<1>3. CASE edge' = edge
  <2>1. EdgeInv'
    BY <1>3 DEF EdgeInv
  <2>2. HandedOutAccepted => HandedOutAccepted'
    BY <1>0, <1>3 DEF HandedOutAccepted
  <2> QED
    BY <2>1, <2>2
<1>4. Start \/ Stop \/ edge' = edge
  BY DEF EnvNext, Begin, Read, Open, Write, WriteFails, HandOut, Kill,
         OpenEditor, Save, envVars
<1> QED
  BY <1>1, <1>2, <1>3, <1>4

KeysInv == IInv /\ FileInv /\ HandedTyped /\ EdgeInv

LEMMA InitKeys ==
  ASSUME EnvInit
  PROVE  KeysInv /\ HandedRecorded /\ HandedOutAccepted
<1>1. IInv
  BY InitKeeps
<1>2. FileInv
  <2>1. /\ DOMAIN env = {1} /\ env[1] = Other /\ Other \in ever /\ Other.key = 0 /\ keys = 0
        /\ editor.lines = <<>>
        /\ \A p \in Commands : cmd[p].lines = <<>> /\ cmd[p].pc = "idle"
    BY DEF EnvInit, Idle, Other, Line
  <2>2. Unique(<<>>) /\ Bounded(<<>>, keys)
    BY DEF Unique, Bounded
  <2>3. Unique(env) /\ Bounded(env, keys) /\ keys <= MaxKeys
    BY <2>1, EnvAssumption DEF Unique, Bounded
  <2> QED
    BY <2>1, <2>2, <2>3 DEF FileInv
<1>3. handed = {} /\ ~edge.up
  BY DEF EnvInit
<1> QED
  BY <1>1, <1>2, <1>3 DEF KeysInv, HandedTyped, EdgeInv, HandedRecorded, HandedOutAccepted

LEMMA KeysKeep == KeysInv /\ [EnvNext]_envVars => KeysInv'
BY StepKeeps, FilesKeep, HandedKeeps, EdgeKeeps DEF KeysInv, IInv

LEMMA KeysTyped == KeysInv => EnvTypeOK
<1> SUFFICES ASSUME KeysInv PROVE EnvTypeOK
  OBVIOUS
<1>1. Typed /\ FileInv /\ HandedTyped /\ EdgeInv /\ mangled \in BOOLEAN
  BY DEF KeysInv, IInv
<1> DEFINE Unset == [name : Range(Name), lower : BOOLEAN, key : {0}]
<1>2. ASSUME NEW i \in DOMAIN env PROVE env[i] \in ever \union Unset
  <2>1. env[i] \in EnvLines
    BY <1>1 DEF Typed
  <2>2. CASE Counted(env[i])
    BY <1>1, <2>2 DEF FileInv
  <2>3. CASE ~Counted(env[i])
    <3>1. env[i].key = 0 /\ env[i].name # <<>>
      BY <2>3 DEF Counted, IsUser
    <3>2. PICK c \in Clients : env[i].name = Name[c]
      BY <2>1, <3>1 DEF EnvLines, Names
    <3>3. env[i].name \in Range(Name)
      BY <3>2 DEF Range, Name
    <3> QED
      BY <2>1, <3>1, <3>3 DEF EnvLines
  <2> QED
    BY <2>2, <2>3
<1>3. env \in Seq(ever \union Unset)
  <2>1. env \in [1..Len(env) -> ever \union Unset] /\ Len(env) \in Nat
    BY <1>1, <1>2 DEF Typed
  <2> QED
    BY <2>1
<1>4. \A p \in Commands : cmd[p].pc \in {"idle", "ensure", "read", "open", "written"}
  BY <1>1 DEF Typed, Command
<1>5. keys \in 0..MaxKeys
  BY <1>1, EnvAssumption DEF Typed, FileInv
<1> HIDE DEF Unset
<1> QED
  BY <1>1, <1>3, <1>4, <1>5 DEF EnvTypeOK, HandedTyped, EdgeInv, Unset

(* The types: no key that was not generated is handed out, and an edge     *)
(* that serves knows at least one client, and no two by the same key.      *)
THEOREM KeysTypeCorrect == EnvSpec => []EnvTypeOK
<1>1. EnvInit => KeysInv
  BY InitKeys
<1> QED
  BY <1>1, KeysKeep, KeysTyped, PTL DEF EnvSpec

(* The edge accepts, and takes for that client's, the key a client was     *)
(* given before it started, unless .env was mangled or has had another     *)
(* line for the client.                                                    *)
THEOREM HandedKeysWork == EnvSpec => []HandedOutAccepted
<1> DEFINE Inv == KeysInv /\ HandedRecorded /\ HandedOutAccepted
<1>1. EnvInit => Inv
  BY InitKeys
<1>2. Inv /\ [EnvNext]_envVars => Inv'
  BY KeysKeep, HandedKeeps, EdgeKeeps DEF KeysInv, IInv
<1>3. Inv => HandedOutAccepted
  OBVIOUS
<1> QED
  BY <1>1, <1>2, <1>3, PTL DEF EnvSpec
=============================================================================
