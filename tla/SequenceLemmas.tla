--------------------------- MODULE SequenceLemmas ---------------------------
(***************************************************************************)
(* Facts that the proofs about several modules need: induction on the      *)
(* naturals, what \o and SubSeq compute index by index, and FlattenSeq,    *)
(* which the modules use for the bytes of a queue and the paths of a list. *)
(***************************************************************************)
EXTENDS Integers, Sequences, SequencesExt, WellFoundedInduction, TLAPS

-----------------------------------------------------------------------------
(* Induction.                                                              *)

\* a nonempty set of naturals has a least
LEMMA Least ==
  ASSUME NEW T, T \subseteq Nat, T # {}
  PROVE  \E x \in T : \A y \in T : x <= y
<1> DEFINE LT == {ss \in Nat \X Nat : ss[1] < ss[2]}
<1>1. IsWellFoundedOn(LT, Nat)
  BY NatLessThanWellFounded DEF OpToRel
<1>2. PICK x \in T : \A y \in T : ~ (<<y, x>> \in LT)
  <2> HIDE DEF LT
  <2> QED BY <1>1, WFMin, Zenon
<1>3. \A y \in T : ~(y < x)
  BY <1>2
<1> QED BY <1>3

\* induction on a set of naturals
LEMMA NatSteps ==
  ASSUME NEW G, 0 \in G, \A n \in Nat : n \in G => n + 1 \in G
  PROVE  \A n \in Nat : n \in G
<1> SUFFICES ASSUME NEW m \in Nat, m \notin G PROVE FALSE
  OBVIOUS
<1> DEFINE T == {n \in Nat : n \notin G}
<1>1. PICK x \in T : \A y \in T : x <= y
  <2>1. T \subseteq Nat /\ T # {}
    OBVIOUS
  <2> HIDE DEF T
  <2> QED BY <2>1, Least
<1>2. x - 1 \in Nat /\ x - 1 \notin T
  BY <1>1
<1> QED BY <1>2

-----------------------------------------------------------------------------
(* Sequences.                                                              *)

\* what is in a sequence, and where
LEMMA InRange ==
  ASSUME NEW X, NEW s \in Seq(X)
  PROVE  /\ \A i \in 1 .. Len(s) : s[i] \in Range(s) /\ s[i] \in X
         /\ \A x \in Range(s) : x \in X /\ \E i \in 1 .. Len(s) : s[i] = x
BY DEF Range

\* what \o computes, index by index
LEMMA Concatenated ==
  ASSUME NEW X, NEW a \in Seq(X), NEW b \in Seq(X)
  PROVE  /\ a \o b \in Seq(X) /\ Len(a \o b) = Len(a) + Len(b)
         /\ \A j \in 1 .. Len(a) : (a \o b)[j] = a[j]
         /\ \A j \in Len(a) + 1 .. Len(a) + Len(b) : (a \o b)[j] = b[j - Len(a)]
OBVIOUS

\* where an element of a concatenation is from
LEMMA FromEither ==
  ASSUME NEW X, NEW a \in Seq(X), NEW b \in Seq(X), NEW j \in 1 .. Len(a \o b)
  PROVE  \/ j \in 1 .. Len(a) /\ (a \o b)[j] = a[j]
         \/ j > Len(a) /\ j - Len(a) \in 1 .. Len(b) /\ (a \o b)[j] = b[j - Len(a)]
<1> DEFINE m == Len(a)
           n == Len(b)
           t == a \o b
<1>1. m \in Nat /\ n \in Nat
  OBVIOUS
<1>2. j \in 1 .. m + n
  BY Concatenated
<1>3. /\ \A k \in 1 .. m : t[k] = a[k]
      /\ \A k \in m + 1 .. m + n : t[k] = b[k - m]
  BY Concatenated
<1> HIDE DEF m, n, t
<1>4. CASE j <= m
  <2>1. j \in 1 .. m
    BY <1>1, <1>2, <1>4
  <2> QED BY <1>3, <2>1 DEF m, t
<1>5. CASE j > m
  <2>1. j \in m + 1 .. m + n /\ j - m \in 1 .. n
    BY <1>1, <1>2, <1>5
  <2> QED BY <1>3, <1>5, <2>1 DEF m, n, t
<1> QED BY <1>1, <1>2, <1>4, <1>5

\* a concatenation has what its parts have
LEMMA RangeOfBoth ==
  ASSUME NEW X, NEW a \in Seq(X), NEW b \in Seq(X)
  PROVE  Range(a \o b) = Range(a) \cup Range(b)
<1> DEFINE t == a \o b
<1>1. t \in Seq(X) /\ Len(t) = Len(a) + Len(b)
  BY Concatenated
<1>2. ASSUME NEW x \in Range(t) PROVE x \in Range(a) \cup Range(b)
  <2>0. t \in Seq(X)
    BY <1>1
  <2>1. PICK j \in 1 .. Len(t) : t[j] = x
    <3> HIDE DEF t
    <3> QED BY <2>0, InRange
  <2>2. \/ j \in 1 .. Len(a) /\ t[j] = a[j]
        \/ j - Len(a) \in 1 .. Len(b) /\ t[j] = b[j - Len(a)]
    BY FromEither
  <2> HIDE DEF t
  <2> QED BY <2>1, <2>2, InRange
<1>3. ASSUME NEW x \in Range(a) PROVE x \in Range(t)
  <2>1. PICK j \in 1 .. Len(a) : a[j] = x
    BY InRange
  <2>2. t[j] = x
    BY <2>1, Concatenated
  <2> HIDE DEF t
  <2>3. j \in 1 .. Len(t)
    BY <1>1
  <2> QED BY <1>1, <2>2, <2>3, InRange
<1>4. ASSUME NEW x \in Range(b) PROVE x \in Range(t)
  <2>1. PICK j \in 1 .. Len(b) : b[j] = x
    BY InRange
  <2> DEFINE m == Len(a)
             n == Len(b)
  <2>2. m \in Nat /\ n \in Nat
    OBVIOUS
  <2>3. \A k \in m + 1 .. m + n : t[k] = b[k - m]
    BY Concatenated
  <2> HIDE DEF t, m, n
  <2>4. j + m \in m + 1 .. m + n /\ (j + m) - m = j /\ j + m \in 1 .. m + n
    BY <2>2 DEF n
  <2>5. t[j + m] = x
    BY <2>1, <2>3, <2>4
  <2>6. j + m \in 1 .. Len(t)
    BY <1>1, <2>4 DEF m, n
  <2> QED BY <1>1, <2>5, <2>6, InRange
<1> QED BY <1>2, <1>3, <1>4

\* what SubSeq computes, index by index
LEMMA Piece ==
  ASSUME NEW X, NEW s \in Seq(X), NEW m \in Nat \ {0}, NEW n \in Nat, m <= n + 1, n <= Len(s)
  PROVE  /\ SubSeq(s, m, n) \in Seq(X) /\ Len(SubSeq(s, m, n)) = n - m + 1
         /\ \A i \in 1 .. n - m + 1 : SubSeq(s, m, n)[i] = s[m + i - 1]
OBVIOUS

\* sequences that agree at every index are the same
LEMMA SameSeq ==
  ASSUME NEW X, NEW a \in Seq(X), NEW b \in Seq(X), Len(a) = Len(b),
         \A i \in 1 .. Len(a) : a[i] = b[i]
  PROVE  a = b
OBVIOUS

\* \o is associative
LEMMA ConcatAssoc ==
  ASSUME NEW X, NEW a \in Seq(X), NEW b \in Seq(X), NEW c \in Seq(X)
  PROVE  (a \o b) \o c = a \o (b \o c)
OBVIOUS

\* the empty sequence adds nothing
LEMMA ConcatEmpty ==
  ASSUME NEW X, NEW a \in Seq(X)
  PROVE  a \o <<>> = a /\ <<>> \o a = a
OBVIOUS

\* appending to the second of two is appending to both
LEMMA ConcatSnoc ==
  ASSUME NEW X, NEW a \in Seq(X), NEW b \in Seq(X), NEW x \in X
  PROVE  a \o Append(b, x) = Append(a \o b, x)
OBVIOUS

\* a sequence is what comes before its last element, and that element
LEMMA SnocOf ==
  ASSUME NEW X, NEW s \in Seq(X), NEW n \in Nat, Len(s) = n + 1
  PROVE  /\ SubSeq(s, 1, n) \in Seq(X) /\ Len(SubSeq(s, 1, n)) = n /\ s[n + 1] \in X
         /\ s = Append(SubSeq(s, 1, n), s[n + 1])
OBVIOUS

\* the start of a start
LEMMA PrefixOfPrefix ==
  ASSUME NEW X, NEW s \in Seq(X), NEW m \in 0 .. Len(s), NEW n \in 0 .. m
  PROVE  SubSeq(SubSeq(s, 1, m), 1, n) = SubSeq(s, 1, n)
OBVIOUS

\* a sequence is its two parts
LEMMA CutAt ==
  ASSUME NEW X, NEW s \in Seq(X), NEW i \in 0 .. Len(s)
  PROVE  s = SubSeq(s, 1, i) \o SubSeq(s, i + 1, Len(s))
<1> DEFINE n == Len(s)
           a == SubSeq(s, 1, i)
           b == SubSeq(s, i + 1, n)
<1>1. n \in Nat /\ i \in 0 .. n
  OBVIOUS
<1>2. a \in Seq(X) /\ Len(a) = i /\ \A j \in 1 .. i : a[j] = s[j]
  BY Piece
<1>3. b \in Seq(X) /\ Len(b) = n - i /\ \A j \in 1 .. n - i : b[j] = s[i + j]
  BY Piece
<1> HIDE DEF n, a, b
<1>4. /\ a \o b \in Seq(X) /\ Len(a \o b) = n
      /\ \A j \in 1 .. i : (a \o b)[j] = a[j]
      /\ \A j \in i + 1 .. n : (a \o b)[j] = b[j - i]
  <2>1. /\ a \o b \in Seq(X) /\ Len(a \o b) = Len(a) + Len(b)
        /\ \A j \in 1 .. Len(a) : (a \o b)[j] = a[j]
        /\ \A j \in Len(a) + 1 .. Len(a) + Len(b) : (a \o b)[j] = b[j - Len(a)]
    <3>1. a \in Seq(X) /\ b \in Seq(X)
      BY <1>2, <1>3
    <3> QED BY <3>1, Concatenated
  <2>2. Len(a) = i /\ Len(b) = n - i /\ i + (n - i) = n
    BY <1>1, <1>2, <1>3
  <2> QED BY <2>1, <2>2
<1>5. ASSUME NEW j \in 1 .. n PROVE s[j] = (a \o b)[j]
  <2>1. CASE j <= i
    <3>1. j \in 1 .. i
      BY <1>1, <2>1
    <3> QED BY <1>2, <1>4, <3>1
  <2>2. CASE i < j
    <3>1. j \in i + 1 .. n /\ j - i \in 1 .. n - i /\ i + (j - i) = j
      BY <1>1, <2>2
    <3> QED BY <1>3, <1>4, <3>1
  <2>3. j <= i \/ i < j
    BY <1>1
  <2> QED BY <2>1, <2>2, <2>3
<1>6. s = a \o b
  BY <1>4, <1>5, SameSeq DEF n
<1> QED BY <1>6 DEF a, b, n

\* a piece of the middle of three is a piece of them all
LEMMA MiddlePiece ==
  ASSUME NEW X, NEW a \in Seq(X), NEW b \in Seq(X), NEW c \in Seq(X),
         NEW m \in Nat \ {0}, NEW n \in Nat, m <= n + 1, n <= Len(b)
  PROVE  SubSeq((a \o b) \o c, Len(a) + m, Len(a) + n) = SubSeq(b, m, n)
<1> DEFINE k == Len(a)
           t == (a \o b) \o c
           u == SubSeq(t, k + m, k + n)
           v == SubSeq(b, m, n)
<1>1. k \in Nat /\ Len(b) \in Nat /\ Len(c) \in Nat
  OBVIOUS
<1>2. /\ t \in Seq(X) /\ Len(t) = k + Len(b) + Len(c)
      /\ \A j \in 1 .. Len(b) : t[k + j] = b[j]
  <2>1. a \o b \in Seq(X) /\ Len(a \o b) = k + Len(b)
    BY Concatenated
  <2>2. \A j \in 1 .. k + Len(b) : t[j] = (a \o b)[j]
    BY <2>1, Concatenated
  <2>3. \A j \in k + 1 .. k + Len(b) : (a \o b)[j] = b[j - k]
    BY Concatenated
  <2>4. t \in Seq(X) /\ Len(t) = k + Len(b) + Len(c)
    BY <1>1, <2>1, Concatenated
  <2> HIDE DEF t, k
  <2>5. ASSUME NEW j \in 1 .. Len(b) PROVE t[k + j] = b[j]
    <3>1. k + j \in 1 .. k + Len(b) /\ k + j \in k + 1 .. k + Len(b) /\ (k + j) - k = j
      BY <1>1
    <3> QED BY <2>2, <2>3, <3>1
  <2> QED BY <2>4, <2>5
<1> HIDE DEF t, k, u, v
<1>3. /\ u \in Seq(X) /\ Len(u) = n - m + 1
      /\ \A i \in 1 .. n - m + 1 : u[i] = t[k + m + i - 1]
  <2>1. k + m \in Nat \ {0} /\ k + n \in Nat /\ k + m <= k + n + 1 /\ k + n <= Len(t)
        /\ (k + n) - (k + m) + 1 = n - m + 1
    BY <1>1, <1>2
  <2> DEFINE p == k + m
             r == k + n
  <2>2. p \in Nat \ {0} /\ r \in Nat /\ p <= r + 1 /\ r <= Len(t)
    BY <2>1
  <2> HIDE DEF p, r
  <2>3. /\ SubSeq(t, p, r) \in Seq(X) /\ Len(SubSeq(t, p, r)) = r - p + 1
        /\ \A i \in 1 .. r - p + 1 : SubSeq(t, p, r)[i] = t[p + i - 1]
    BY <1>2, <2>2, Piece
  <2> QED BY <2>1, <2>3 DEF p, r, u
<1>4. /\ v \in Seq(X) /\ Len(v) = n - m + 1
      /\ \A i \in 1 .. n - m + 1 : v[i] = b[m + i - 1]
  BY Piece DEF v
<1>5. ASSUME NEW i \in 1 .. n - m + 1 PROVE u[i] = v[i]
  <2>1. m + i - 1 \in 1 .. Len(b) /\ k + m + i - 1 = k + (m + i - 1)
    BY <1>1
  <2> QED BY <1>2, <1>3, <1>4, <2>1
<1>6. u = v
  BY <1>3, <1>4, <1>5, SameSeq
<1> QED BY <1>6 DEF u, v, t, k

-----------------------------------------------------------------------------
(* FlattenSeq.                                                             *)

\* f is the function FlattenSeq(s) is defined by
Flattens(f, s) == f = [i \in 1 .. Len(s) |-> IF i = 1 THEN s[i] ELSE f[i - 1] \o s[i]]

\* there is such a function: each index follows from the one before
LEMMA FlattensExists ==
  ASSUME NEW s, Len(s) \in Nat
  PROVE  \E f : Flattens(f, s)
<1> DEFINE Eq(g, i) == g[i] = IF i = 1 THEN s[i] ELSE g[i - 1] \o s[i]
           UpTo(g, n) == \A i \in 1 .. Len(s) : i <= n => Eq(g, i)
           N == {n \in Nat : \E g : UpTo(g, n)}
<1>1. 0 \in N
  OBVIOUS
<1>2. ASSUME NEW n \in Nat, n \in N PROVE n + 1 \in N
  <2>1. PICK g : UpTo(g, n)
    BY <1>2
  <2> DEFINE h == [i \in 1 .. Len(s) |-> IF i = 1 THEN s[i] ELSE g[i - 1] \o s[i]]
  <2>2. ASSUME NEW i \in 1 .. Len(s), i <= n PROVE h[i] = g[i]
    BY <2>1, <2>2
  <2>3. ASSUME NEW i \in 1 .. Len(s), i <= n + 1 PROVE Eq(h, i)
    <3>1. CASE i = 1
      BY <3>1
    <3>2. CASE i # 1
      <4>1. i - 1 \in 1 .. Len(s) /\ i - 1 <= n
        BY <2>3, <3>2
      <4>2. h[i - 1] = g[i - 1]
        BY <4>1, <2>2
      <4> QED BY <3>2, <4>2
    <3> QED BY <3>1, <3>2
  <2>4. UpTo(h, n + 1)
    BY <2>3
  <2>5. \E g1 : UpTo(g1, n + 1)
    <3> HIDE DEF h, UpTo
    <3> QED BY <2>4
  <2> HIDE DEF UpTo, h
  <2> QED BY <2>5
<1>3. Len(s) \in N
  <2> HIDE DEF N
  <2> QED BY <1>1, <1>2, NatSteps
<1>4. PICK g : UpTo(g, Len(s))
  BY <1>3
<1> DEFINE f == [i \in 1 .. Len(s) |-> g[i]]
<1>5. \A i \in 1 .. Len(s) : f[i] = IF i = 1 THEN s[i] ELSE f[i - 1] \o s[i]
  <2> SUFFICES ASSUME NEW i \in 1 .. Len(s)
               PROVE  f[i] = IF i = 1 THEN s[i] ELSE f[i - 1] \o s[i]
    OBVIOUS
  <2>1. i # 1 => i - 1 \in 1 .. Len(s)
    OBVIOUS
  <2> QED BY <1>4, <2>1
<1>6. Flattens(f, s)
  BY <1>5 DEF Flattens
<1> QED BY <1>6

\* so FlattenSeq is its last value
LEMMA FlattenIs ==
  ASSUME NEW s, Len(s) \in Nat, Len(s) # 0
  PROVE  \E f : Flattens(f, s) /\ FlattenSeq(s) = f[Len(s)]
<1> DEFINE f == CHOOSE g : Flattens(g, s)
<1>1. FlattenSeq(s) = f[Len(s)]
  BY DEF FlattenSeq, Flattens
<1>2. Flattens(f, s)
  BY FlattensExists
<1> QED BY <1>1, <1>2

\* nothing gives nothing
LEMMA FlattenNone == FlattenSeq(<<>>) = <<>>
BY DEF FlattenSeq

\* the sequences of s and one more: what s gives and then that one
LEMMA FlattenSnoc ==
  ASSUME NEW X, NEW s \in Seq(Seq(X)), NEW x \in Seq(X)
  PROVE  FlattenSeq(Append(s, x)) = FlattenSeq(s) \o x
<1> DEFINE t == Append(s, x)
           n == Len(s)
<1>1. /\ n \in Nat /\ Len(t) = n + 1 /\ t[n + 1] = x
      /\ \A i \in 1 .. n : t[i] = s[i]
  OBVIOUS
<1>2. PICK g : Flattens(g, t) /\ FlattenSeq(t) = g[n + 1]
  <2> HIDE DEF t, n
  <2>1. Len(t) \in Nat /\ Len(t) # 0
    BY <1>1
  <2> QED BY <1>1, <2>1, FlattenIs
<1>3. CASE n = 0
  <2>1. s = <<>> /\ <<>> \o x = x
    BY <1>3
  <2>2. g[1] = x
    BY <1>1, <1>2, <1>3 DEF Flattens
  <2> QED BY <1>2, <1>3, <2>1, <2>2, FlattenNone
<1>4. CASE n # 0
  <2>1. PICK f : Flattens(f, s) /\ FlattenSeq(s) = f[n]
    BY <1>1, <1>4, FlattenIs
  <2> DEFINE G == {k \in Nat : k \in 1 .. n => f[k] = g[k]}
  <2> HIDE DEF t, n
  <2>2. ASSUME NEW i \in 1 .. n PROVE f[i] = IF i = 1 THEN s[i] ELSE f[i - 1] \o s[i]
    BY <2>1 DEF Flattens, n
  <2>3. ASSUME NEW i \in 1 .. n + 1 PROVE g[i] = IF i = 1 THEN t[i] ELSE g[i - 1] \o t[i]
    BY <1>1, <1>2 DEF Flattens
  <2>4. 0 \in G
    OBVIOUS
  <2>5. ASSUME NEW k \in Nat, k \in G PROVE k + 1 \in G
    <3> SUFFICES ASSUME k + 1 \in 1 .. n PROVE f[k + 1] = g[k + 1]
      OBVIOUS
    <3>1. k + 1 \in 1 .. n + 1 /\ (k + 1) - 1 = k /\ (k + 1 # 1 => k \in 1 .. n)
      BY <1>1
    <3>2. k + 1 # 1 => f[k] = g[k]
      BY <2>5, <3>1
    <3> QED BY <1>1, <2>2, <2>3, <3>1, <3>2
  <2>6. n \in G
    <3> HIDE DEF G
    <3> QED BY <1>1, <2>4, <2>5, NatSteps
  <2>7. f[n] = g[n]
    BY <1>1, <1>4, <2>6
  <2>8. g[n + 1] = g[n] \o x
    <3>1. n + 1 \in 1 .. n + 1 /\ n + 1 # 1 /\ (n + 1) - 1 = n
      BY <1>1, <1>4
    <3> QED BY <1>1, <2>3, <3>1
  <2> QED BY <1>2, <2>1, <2>7, <2>8 DEF t
<1> QED BY <1>3, <1>4

\* FlattenSeq of sequences over X is one
LEMMA FlattenType ==
  ASSUME NEW X
  PROVE  \A s \in Seq(Seq(X)) : FlattenSeq(s) \in Seq(X)
<1> DEFINE G == {n \in Nat : \A s \in Seq(Seq(X)) : Len(s) = n => FlattenSeq(s) \in Seq(X)}
<1>1. 0 \in G
  <2>1. ASSUME NEW s \in Seq(Seq(X)), Len(s) = 0 PROVE FlattenSeq(s) \in Seq(X)
    <3>1. s = <<>> /\ <<>> \in Seq(X)
      BY <2>1
    <3> QED BY <3>1, FlattenNone
  <2> QED BY <2>1
<1>2. ASSUME NEW n \in Nat, n \in G PROVE n + 1 \in G
  <2>1. ASSUME NEW s \in Seq(Seq(X)), Len(s) = n + 1 PROVE FlattenSeq(s) \in Seq(X)
    <3> DEFINE a == SubSeq(s, 1, n)
               x == s[n + 1]
    <3>1. a \in Seq(Seq(X)) /\ Len(a) = n /\ x \in Seq(X) /\ s = Append(a, x)
      BY <2>1, SnocOf
    <3> HIDE DEF a, x
    <3>2. FlattenSeq(a) \in Seq(X)
      BY <1>2, <3>1
    <3>3. FlattenSeq(s) = FlattenSeq(a) \o x
      BY <3>1, FlattenSnoc
    <3>4. FlattenSeq(a) \o x \in Seq(X)
      BY <3>1, <3>2, Concatenated
    <3> QED BY <3>3, <3>4
  <2> QED BY <2>1
<1> HIDE DEF G
<1>3. \A n \in Nat : n \in G
  BY <1>1, <1>2, NatSteps
<1> QED
  <2> SUFFICES ASSUME NEW s \in Seq(Seq(X)) PROVE FlattenSeq(s) \in Seq(X)
    OBVIOUS
  <2>1. Len(s) \in Nat
    OBVIOUS
  <2>2. Len(s) \in G
    BY <1>3, <2>1
  <2> QED BY <2>2 DEF G

\* the sequences of s and those of t
LEMMA FlattenBoth ==
  ASSUME NEW X, NEW s \in Seq(Seq(X))
  PROVE  \A t \in Seq(Seq(X)) : FlattenSeq(s \o t) = FlattenSeq(s) \o FlattenSeq(t)
<1> DEFINE G == {n \in Nat : \A t \in Seq(Seq(X)) :
                   Len(t) = n => FlattenSeq(s \o t) = FlattenSeq(s) \o FlattenSeq(t)}
<1>0. FlattenSeq(s) \in Seq(X)
  BY FlattenType
<1>1. 0 \in G
  <2>1. ASSUME NEW t \in Seq(Seq(X)), Len(t) = 0
        PROVE  FlattenSeq(s \o t) = FlattenSeq(s) \o FlattenSeq(t)
    <3>1. t = <<>> /\ s \o t = s
      BY <2>1
    <3>2. FlattenSeq(s) \o <<>> = FlattenSeq(s)
      BY <1>0, ConcatEmpty
    <3> QED BY <3>1, <3>2, FlattenNone
  <2> QED BY <2>1
<1>2. ASSUME NEW n \in Nat, n \in G PROVE n + 1 \in G
  <2>1. ASSUME NEW t \in Seq(Seq(X)), Len(t) = n + 1
        PROVE  FlattenSeq(s \o t) = FlattenSeq(s) \o FlattenSeq(t)
    <3> DEFINE a == SubSeq(t, 1, n)
               x == t[n + 1]
    <3>1. a \in Seq(Seq(X)) /\ Len(a) = n /\ x \in Seq(X) /\ t = Append(a, x)
      BY <2>1, SnocOf
    <3> HIDE DEF a, x
    <3>2. FlattenSeq(s \o a) = FlattenSeq(s) \o FlattenSeq(a)
      BY <1>2, <3>1
    <3>3. s \o t = Append(s \o a, x) /\ s \o a \in Seq(Seq(X))
      <4>1. s \o t = Append(s \o a, x)
        BY <3>1, ConcatSnoc
      <4>2. s \o a \in Seq(Seq(X))
        BY <3>1, Concatenated
      <4> QED BY <4>1, <4>2
    <3>4. FlattenSeq(s \o t) = FlattenSeq(s \o a) \o x
      BY <3>1, <3>3, FlattenSnoc
    <3>5. FlattenSeq(t) = FlattenSeq(a) \o x
      BY <3>1, FlattenSnoc
    <3>6. (FlattenSeq(s) \o FlattenSeq(a)) \o x = FlattenSeq(s) \o (FlattenSeq(a) \o x)
      <4>1. FlattenSeq(a) \in Seq(X) /\ x \in Seq(X)
        BY <3>1, FlattenType
      <4> QED BY <1>0, <4>1, ConcatAssoc
    <3> QED BY <3>2, <3>4, <3>5, <3>6
  <2> QED BY <2>1
<1> HIDE DEF G
<1>3. \A n \in Nat : n \in G
  BY <1>1, <1>2, NatSteps
<1> QED
  <2> SUFFICES ASSUME NEW t \in Seq(Seq(X))
               PROVE  FlattenSeq(s \o t) = FlattenSeq(s) \o FlattenSeq(t)
    OBVIOUS
  <2>1. Len(t) \in Nat
    OBVIOUS
  <2>2. Len(t) \in G
    BY <1>3, <2>1
  <2> QED BY <2>2 DEF G

\* empty sequences give nothing
LEMMA FlattenEmpties ==
  ASSUME NEW X
  PROVE  \A s \in Seq(Seq(X)) : (\A i \in 1 .. Len(s) : s[i] = <<>>) => FlattenSeq(s) = <<>>
<1> DEFINE G == {n \in Nat : \A s \in Seq(Seq(X)) :
                   Len(s) = n /\ (\A i \in 1 .. n : s[i] = <<>>) => FlattenSeq(s) = <<>>}
<1>1. 0 \in G
  <2>1. ASSUME NEW s \in Seq(Seq(X)), Len(s) = 0 PROVE FlattenSeq(s) = <<>>
    <3>1. s = <<>>
      BY <2>1
    <3> QED BY <3>1, FlattenNone
  <2> QED BY <2>1
<1>2. ASSUME NEW n \in Nat, n \in G PROVE n + 1 \in G
  <2>1. ASSUME NEW s \in Seq(Seq(X)), Len(s) = n + 1, \A i \in 1 .. n + 1 : s[i] = <<>>
        PROVE  FlattenSeq(s) = <<>>
    <3> DEFINE a == SubSeq(s, 1, n)
    <3>1. a \in Seq(Seq(X)) /\ Len(a) = n /\ s[n + 1] \in Seq(X) /\ s = Append(a, s[n + 1])
      BY <2>1, SnocOf
    <3>2. \A i \in 1 .. n : a[i] = s[i]
      BY <2>1, Piece
    <3> HIDE DEF a
    <3>3. n + 1 \in 1 .. n + 1 /\ \A i \in 1 .. n : i \in 1 .. n + 1
      OBVIOUS
    <3>4. FlattenSeq(a) = <<>>
      BY <1>2, <2>1, <3>1, <3>2, <3>3
    <3>5. FlattenSeq(s) = FlattenSeq(a) \o s[n + 1] /\ s[n + 1] = <<>>
      BY <2>1, <3>1, <3>3, FlattenSnoc
    <3> QED BY <3>4, <3>5
  <2> QED BY <2>1
<1> HIDE DEF G
<1>3. \A n \in Nat : n \in G
  BY <1>1, <1>2, NatSteps
<1> QED
  <2> SUFFICES ASSUME NEW s \in Seq(Seq(X)), \A i \in 1 .. Len(s) : s[i] = <<>>
               PROVE  FlattenSeq(s) = <<>>
    OBVIOUS
  <2>1. Len(s) \in Nat
    OBVIOUS
  <2>2. Len(s) \in G
    BY <1>3, <2>1
  <2> QED BY <2>2 DEF G
=============================================================================
