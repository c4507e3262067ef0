---------------------------- MODULE LibraryProofs ----------------------------
(***************************************************************************)
(* Theorems about the library's small objects, for any parameters: the     *)
(* list of nlru and its indexes agree and the entries kept are the newest; *)
(* the object pool lends an object to one user at a time; the circular     *)
(* vector keeps the last objects added; the event loop sleeps through no   *)
(* timer.                                                                  *)
(*                                                                         *)
(* The list of nlru is in order, so no id is in it twice, its last is the  *)
(* oldest, and it has as many ids as it is long; with that, what inserted  *)
(* and remove make of indexes that agree are indexes that agree            *)
(* (AddAgrees, RemoveAgrees), and the steps only choose among the two.     *)
(***************************************************************************)
EXTENDS Nlru, ObjPool, CircularVector, EvrTimers, SequenceLemmas,
        FiniteSetTheorems, FunctionTheorems

-----------------------------------------------------------------------------
(* nlru: sequences of ids.                                                 *)

\* what RemoveAt computes
LEMMA SubSeqParts ==
  ASSUME NEW s \in Seq(Nat), NEW i \in 1 .. Len(s)
  PROVE  /\ RemoveAt(s, i) \in Seq(Nat) /\ Len(RemoveAt(s, i)) = Len(s) - 1
         /\ \A j \in 1 .. Len(s) - 1 : RemoveAt(s, i)[j] = IF j < i THEN s[j] ELSE s[j + 1]
<1> DEFINE n == Len(s)
           a == SubSeq(s, 1, i - 1)
           b == SubSeq(s, i + 1, n)
<1>1. a \in Seq(Nat) /\ Len(a) = i - 1 /\ \A j \in 1 .. i - 1 : a[j] = s[j]
  OBVIOUS
<1>2. b \in Seq(Nat) /\ Len(b) = n - i /\ \A j \in 1 .. n - i : b[j] = s[i + j]
  OBVIOUS
<1>3. RemoveAt(s, i) = a \o b
  BY DEF RemoveAt
<1>4. n \in Nat /\ i \in Int /\ 1 <= i /\ i <= n
  OBVIOUS
<1> DEFINE t == a \o b
<1> HIDE DEF a, b, n
<1>5. /\ t \in Seq(Nat) /\ Len(t) = Len(a) + Len(b)
      /\ \A j \in 1 .. Len(a) : t[j] = a[j]
      /\ \A j \in Len(a) + 1 .. Len(a) + Len(b) : t[j] = b[j - Len(a)]
  <2>1. a \in Seq(Nat) /\ b \in Seq(Nat)
    BY <1>1, <1>2
  <2> QED BY <2>1, Concatenated
<1> HIDE DEF t
<1>6. \A j \in 1 .. i - 1 : t[j] = a[j]
  BY <1>1, <1>5
<1>7. \A j \in (i - 1) + 1 .. (i - 1) + (n - i) : t[j] = b[j - (i - 1)]
  BY <1>1, <1>2, <1>5
<1>8. Len(t) = n - 1
  BY <1>1, <1>2, <1>4, <1>5
<1>9. ASSUME NEW j \in 1 .. n - 1
      PROVE  t[j] = IF j < i THEN s[j] ELSE s[j + 1]
  <2>1. CASE j < i
    <3>1. j \in 1 .. i - 1
      BY <1>4, <2>1
    <3> QED BY <1>1, <1>6, <2>1, <3>1
  <2>2. CASE ~(j < i)
    <3>1. /\ j \in (i - 1) + 1 .. (i - 1) + (n - i)
          /\ j - (i - 1) \in 1 .. n - i /\ i + (j - (i - 1)) = j + 1
      BY <1>4, <2>2
    <3>2. t[j] = b[j - (i - 1)] /\ b[j - (i - 1)] = s[i + (j - (i - 1))]
      BY <1>2, <1>7, <3>1
    <3> QED BY <2>2, <3>1, <3>2
  <2> QED BY <2>1, <2>2
<1> QED BY <1>3, <1>5, <1>8, <1>9 DEF n, t

\* newest first
Ordered(s) == \A i, j \in 1 .. Len(s) : i < j => s[i] > s[j]

\* RemoveFirst looks for the first of equal entries: here there is one
LEMMA RemoveOnly ==
  ASSUME NEW s \in Seq(Nat), Ordered(s), NEW i \in 1 .. Len(s)
  PROVE  RemoveFirst(s, s[i]) = RemoveAt(s, i)
<1> DEFINE I == {j \in 1 .. Len(s) : s[j] = s[i]}
<1>1. I = {i}
  BY DEF Ordered
<1>2. RemoveFirst(s, s[i]) = RemoveAt(s, IF I # {} THEN Min(I) ELSE 0)
  BY DEF RemoveFirst, SelectInSeq
<1>3. Min({i}) = i
  BY DEF Min
<1> QED BY <1>1, <1>2, <1>3

\* taking one entry out of an ordered list
Gone(s, t, i) ==
  /\ t \in Seq(Nat) /\ Len(t) = Len(s) - 1
  /\ \A j \in 1 .. Len(t) : t[j] = s[IF j < i THEN j ELSE j + 1]

\* every entry but that one is still there
LEMMA GoneFrom ==
  ASSUME NEW s \in Seq(Nat), NEW i \in 1 .. Len(s), NEW t, Gone(s, t, i)
  PROVE  /\ \A j \in 1 .. Len(t) : \E m \in 1 .. Len(s) :
              t[j] = s[m] /\ m = (IF j < i THEN j ELSE j + 1)
         /\ \A m \in 1 .. Len(s) : m # i => \E j \in 1 .. Len(t) : t[j] = s[m]
<1> DEFINE n == Len(s)
           k == Len(t)
<1>1. n \in Nat /\ k = n - 1 /\ i \in Int /\ 1 <= i /\ i <= n
  BY DEF Gone
<1>2. \A j \in 1 .. k : t[j] = s[IF j < i THEN j ELSE j + 1]
  BY DEF Gone
<1> HIDE DEF n, k
<1>3. ASSUME NEW j \in 1 .. k
      PROVE  \E m \in 1 .. n : t[j] = s[m] /\ m = (IF j < i THEN j ELSE j + 1)
  <2>1. (IF j < i THEN j ELSE j + 1) \in 1 .. n
    BY <1>1
  <2> QED BY <1>2, <2>1
<1>4. ASSUME NEW m \in 1 .. n, m # i
      PROVE  \E j \in 1 .. k : t[j] = s[m]
  <2> DEFINE j == IF m < i THEN m ELSE m - 1
  <2>1. j \in 1 .. k /\ (IF j < i THEN j ELSE j + 1) = m
    BY <1>1, <1>4
  <2> HIDE DEF j
  <2> QED BY <1>2, <2>1
<1> QED BY <1>3, <1>4 DEF n, k

\* RemoveFirst takes out one entry
LEMMA RemoveFirstOf ==
  ASSUME NEW s \in Seq(Nat), Ordered(s), NEW id \in Range(s)
  PROVE  /\ RemoveFirst(s, id) \in Seq(Nat) /\ Ordered(RemoveFirst(s, id))
         /\ Len(RemoveFirst(s, id)) = Len(s) - 1
         /\ Range(RemoveFirst(s, id)) = Range(s) \ {id}
<1>1. PICK i \in 1 .. Len(s) : s[i] = id
  BY InRange
<1> DEFINE t == RemoveAt(s, i)
<1>2. RemoveFirst(s, id) = t
  BY <1>1, RemoveOnly
<1>3. Gone(s, t, i)
  BY SubSeqParts DEF Gone
<1> HIDE DEF t
<1>4. t \in Seq(Nat) /\ Len(t) = Len(s) - 1
  BY <1>3 DEF Gone
<1>5. Ordered(t)
  <2> SUFFICES ASSUME NEW j \in 1 .. Len(t), NEW k \in 1 .. Len(t), j < k PROVE t[j] > t[k]
    BY DEF Ordered
  <2>1. PICK m \in 1 .. Len(s) : t[j] = s[m] /\ m = IF j < i THEN j ELSE j + 1
    BY <1>3, GoneFrom
  <2>2. PICK n \in 1 .. Len(s) : t[k] = s[n] /\ n = IF k < i THEN k ELSE k + 1
    BY <1>3, GoneFrom
  <2>3. m < n
    BY <2>1, <2>2
  <2> QED BY <2>1, <2>2, <2>3 DEF Ordered
<1>6. ASSUME NEW m \in 1 .. Len(s), m # i PROVE s[m] # s[i]
  <2>1. s[m] \in Nat /\ s[i] \in Nat /\ (m < i \/ i < m)
    BY <1>6
  <2>2. s[m] > s[i] \/ s[i] > s[m]
    BY <2>1 DEF Ordered
  <2> QED BY <2>1, <2>2
<1>7. ASSUME NEW x \in Range(t) PROVE x \in Range(s) \ {id}
  <2>1. PICK j \in 1 .. Len(t) : t[j] = x
    BY <1>4, InRange
  <2>2. PICK m \in 1 .. Len(s) : t[j] = s[m] /\ m = IF j < i THEN j ELSE j + 1
    BY <1>3, GoneFrom
  <2>3. m # i
    BY <2>2
  <2> QED BY <1>1, <1>6, <2>1, <2>2, <2>3, InRange
<1>8. ASSUME NEW x \in Range(s) \ {id} PROVE x \in Range(t)
  <2>1. PICK m \in 1 .. Len(s) : s[m] = x
    BY InRange
  <2>2. m # i
    BY <1>1, <2>1
  <2>3. PICK j \in 1 .. Len(t) : t[j] = s[m]
    BY <1>3, <2>2, GoneFrom
  <2> QED BY <1>4, <2>1, <2>3, InRange
<1>9. Range(t) = Range(s) \ {id}
  BY <1>7, <1>8
<1> QED BY <1>2, <1>4, <1>5, <1>9

\* a newer entry in front of an ordered list
LEMMA AddFirst ==
  ASSUME NEW s \in Seq(Nat), Ordered(s), NEW id \in Nat, \A x \in Range(s) : x < id
  PROVE  /\ <<id>> \o s \in Seq(Nat) /\ Ordered(<<id>> \o s)
         /\ Len(<<id>> \o s) = Len(s) + 1
         /\ Range(<<id>> \o s) = Range(s) \cup {id}
<1> DEFINE t == <<id>> \o s
           n == Len(s)
<1>1. t \in Seq(Nat) /\ Len(t) = n + 1 /\ t[1] = id /\ n \in Nat
  <2>1. <<id>> \in Seq(Nat) /\ Len(<<id>>) = 1 /\ <<id>>[1] = id /\ 1 \in 1 .. 1
    OBVIOUS
  <2>2. t \in Seq(Nat) /\ Len(t) = 1 + n /\ t[1] = id
    BY <2>1, Concatenated
  <2> QED BY <2>2
<1>2. \A j \in 1 .. n : t[j + 1] = s[j]
  <2>1. <<id>> \in Seq(Nat) /\ Len(<<id>>) = 1
    OBVIOUS
  <2>2. \A k \in 1 + 1 .. 1 + n : t[k] = s[k - 1]
    BY <2>1, Concatenated
  <2> HIDE DEF t, n
  <2>3. \A j \in 1 .. n : j + 1 \in 1 + 1 .. 1 + n /\ (j + 1) - 1 = j
    BY <1>1
  <2> QED BY <2>2, <2>3
<1> HIDE DEF t
<1>3. /\ \A j \in 1 .. n : j \in 1 .. Len(s) /\ s[j] \in Nat /\ s[j] < id
      /\ \A j, k \in 1 .. n : j < k => s[j] > s[k]
  BY InRange DEF Ordered
<1> HIDE DEF n
<1>4. ASSUME NEW j \in 1 .. n + 1, j # 1 PROVE j - 1 \in 1 .. n /\ t[j] = s[j - 1]
  <2>1. j - 1 \in 1 .. n /\ (j - 1) + 1 = j
    BY <1>1, <1>4
  <2> QED BY <1>2, <2>1
<1>5. Ordered(t)
  <2> SUFFICES ASSUME NEW j \in 1 .. n + 1, NEW k \in 1 .. n + 1, j < k PROVE t[j] > t[k]
    BY <1>1 DEF Ordered
  <2>1. k # 1
    BY <1>1
  <2>2. k - 1 \in 1 .. n /\ t[k] = s[k - 1]
    BY <1>4, <2>1
  <2>3. CASE j = 1
    BY <1>1, <1>3, <2>2, <2>3
  <2>4. CASE j # 1
    <3>1. j - 1 \in 1 .. n /\ t[j] = s[j - 1]
      BY <1>4, <2>4
    <3>2. j - 1 < k - 1
      BY <1>1
    <3> QED BY <1>3, <2>2, <3>1, <3>2
  <2> QED BY <2>3, <2>4
<1>6. ASSUME NEW x \in Range(t) PROVE x \in Range(s) \cup {id}
  <2>1. PICK j \in 1 .. n + 1 : t[j] = x
    BY <1>1, InRange
  <2>2. CASE j = 1
    BY <1>1, <2>1, <2>2
  <2>3. CASE j # 1
    BY <1>3, <1>4, <2>1, <2>3, InRange
  <2> QED BY <2>2, <2>3
<1>7. ASSUME NEW x \in Range(s) PROVE x \in Range(t)
  <2>1. PICK j \in 1 .. n : s[j] = x
    BY InRange DEF n
  <2>2. j + 1 \in 1 .. n + 1
    BY <1>1
  <2> QED BY <1>1, <1>2, <2>1, <2>2, InRange
<1>8. id \in Range(t)
  <2>1. 1 \in 1 .. n + 1
    BY <1>1
  <2> QED BY <1>1, <2>1, InRange
<1>9. Range(t) = Range(s) \cup {id}
  BY <1>6, <1>7, <1>8
<1> QED BY <1>1, <1>5, <1>9 DEF t, n

\* an ordered list has as many ids as it is long
LEMMA OrderedCount ==
  ASSUME NEW s \in Seq(Nat), Ordered(s)
  PROVE  Cardinality(Range(s)) = Len(s)
<1> DEFINE f == [i \in 1 .. Len(s) |-> s[i]]
<1>1. f \in Bijection(1 .. Len(s), Range(s))
  <2>1. f \in [1 .. Len(s) -> Range(s)]
    BY InRange
  <2>2. ASSUME NEW i \in 1 .. Len(s), NEW j \in 1 .. Len(s), f[i] = f[j] PROVE i = j
    <3>1. s[i] \in Nat /\ s[i] = s[j]
      BY <2>2
    <3> QED BY <3>1 DEF Ordered
  <2>3. \A x \in Range(s) : \E i \in 1 .. Len(s) : f[i] = x
    BY InRange
  <2> HIDE DEF f
  <2> QED BY <2>1, <2>2, <2>3, Fun_IsBij
<1>2. Len(s) \in Nat /\ IsFiniteSet(1 .. Len(s)) /\ Cardinality(1 .. Len(s)) = Len(s)
  <2> DEFINE n == Len(s)
  <2>1. n \in Nat /\ n \in Int /\ 1 \in Int
    OBVIOUS
  <2> HIDE DEF n
  <2>2. IsFiniteSet(1 .. n) /\ Cardinality(1 .. n) = IF 1 > n THEN 0 ELSE n - 1 + 1
    BY <2>1, FS_Interval
  <2>3. Cardinality(1 .. n) = n
    BY <2>1, <2>2
  <2> QED BY <2>1, <2>2, <2>3 DEF n
<1> HIDE DEF f
<1>3. ExistsBijection(1 .. Len(s), Range(s))
  BY <1>1 DEF ExistsBijection
<1> QED BY <1>2, <1>3, FS_Bijection

\* and its last is the oldest
LEMMA LastOldest ==
  ASSUME NEW s \in Seq(Nat), Ordered(s), s # <<>>
  PROVE  /\ Last(s) \in Range(s)
         /\ \A x \in Range(s) : x # Last(s) => Last(s) < x
<1> DEFINE n == Len(s)
<1>1. n \in 1 .. n /\ n \in Nat
  OBVIOUS
<1>2. Last(s) = s[n] /\ s[n] \in Range(s) /\ s[n] \in Nat
  BY <1>1, InRange DEF Last
<1>3. ASSUME NEW x \in Range(s), x # s[n] PROVE s[n] < x
  <2>1. PICK i \in 1 .. n : s[i] = x /\ i # n
    BY <1>3, InRange
  <2>2. i < n
    BY <1>1, <2>1
  <2>3. s[i] > s[n]
    BY <1>1, <2>1, <2>2 DEF Ordered
  <2> QED BY <1>2, <2>1, <2>3, InRange
<1> QED BY <1>2, <1>3

-----------------------------------------------------------------------------
(* The list and its indexes.                                               *)

\* the ids of a label, as the label of an id has it
ids_of(c, l) == {id \in DOMAIN c.label : c.label[id] = l}

\* the list, its count and the two indexes by id speak of the same entries
Listed(c) ==
  /\ c.list \in Seq(Nat) /\ Ordered(c.list)
  /\ c.size = Len(c.list)
  /\ c.map = Range(c.list)
  /\ DOMAIN c.label = Range(c.list)

\* and so does the index by label
Labelled(c) ==
  /\ \A id \in DOMAIN c.label : c.label[id] \in Labels
  /\ DOMAIN c.ids \subseteq Labels
  /\ \A l \in Labels : ids_of(c, l) = IF l \in DOMAIN c.ids THEN c.ids[l] ELSE {}
  /\ \A l \in DOMAIN c.ids : c.ids[l] # {}

Agree(c) == Listed(c) /\ Labelled(c)

\* where the indexes agree, an id is found if and only if it is in the list
LEMMA FoundListed ==
  ASSUME NEW c, Agree(c), NEW id
  PROVE  found(c, id) <=> id \in Range(c.list)
BY DEF Agree, Listed, Labelled, found, ids_of

\* adding a new id leaves the indexes in agreement
LEMMA AddAgrees ==
  ASSUME NEW c, Agree(c), NEW l \in Labels, NEW id \in Nat, \A x \in Range(c.list) : x < id
  PROVE  /\ Agree(inserted(c, l, id))
         /\ Range(inserted(c, l, id).list) = Range(c.list) \cup {id}
         /\ Len(inserted(c, l, id).list) = Len(c.list) + 1
<1> DEFINE d == inserted(c, l, id)
<1>1. /\ d.list = <<id>> \o c.list /\ d.size = c.size + 1 /\ d.map = c.map \cup {id}
      /\ d.label = With(c.label, id, l)
      /\ d.ids = With(c.ids, l, IF l \in DOMAIN c.ids THEN c.ids[l] \cup {id} ELSE {id})
  BY DEF inserted
<1> HIDE DEF d
<1>2. /\ d.list \in Seq(Nat) /\ Ordered(d.list) /\ Len(d.list) = Len(c.list) + 1
      /\ Range(d.list) = Range(c.list) \cup {id}
  BY <1>1, AddFirst DEF Agree, Listed
<1>3. id \notin DOMAIN c.label
  BY DEF Agree, Listed
<1>4. /\ DOMAIN d.label = DOMAIN c.label \cup {id} /\ d.label[id] = l
      /\ \A x \in DOMAIN c.label : d.label[x] = c.label[x]
  BY <1>1, <1>3 DEF With
<1>5. /\ DOMAIN d.ids = DOMAIN c.ids \cup {l}
      /\ d.ids[l] = IF l \in DOMAIN c.ids THEN c.ids[l] \cup {id} ELSE {id}
      /\ \A k \in DOMAIN c.ids : k # l => d.ids[k] = c.ids[k]
  BY <1>1 DEF With
<1>6. /\ ids_of(d, l) = ids_of(c, l) \cup {id}
      /\ \A k \in Labels : k # l => ids_of(d, k) = ids_of(c, k)
  BY <1>3, <1>4 DEF ids_of
<1>7. \A k \in Labels : ids_of(d, k) = IF k \in DOMAIN d.ids THEN d.ids[k] ELSE {}
  BY <1>5, <1>6 DEF Agree, Labelled
<1>8. Listed(d)
  <2>1. c.size = Len(c.list) /\ c.map = Range(c.list) /\ DOMAIN c.label = Range(c.list)
    BY DEF Agree, Listed
  <2> QED BY <1>1, <1>2, <1>4, <2>1 DEF Listed
<1>9. Labelled(d)
  BY <1>4, <1>5, <1>7 DEF Agree, Labelled
<1> QED BY <1>2, <1>8, <1>9 DEF d, Agree

\* and so does taking one out
LEMMA RemoveAgrees ==
  ASSUME NEW c, Agree(c), NEW id
  PROVE  /\ Agree(remove(c, id))
         /\ Range(remove(c, id).list) = Range(c.list) \ {id}
         /\ Len(remove(c, id).list) = IF id \in Range(c.list) THEN Len(c.list) - 1 ELSE Len(c.list)
<1>1. CASE ~found(c, id)
  BY <1>1, FoundListed DEF remove
<1>2. CASE found(c, id)
  <2> DEFINE d == remove(c, id)
             l == c.label[id]
             left == c.ids[l] \ {id}
  <2>1. /\ d.list = RemoveFirst(c.list, id) /\ d.size = c.size - 1 /\ d.map = c.map \ {id}
        /\ d.label = Without(c.label, id)
        /\ d.ids = IF left = {} THEN Without(c.ids, l) ELSE With(c.ids, l, left)
    BY <1>2 DEF remove
  <2>2. id \in DOMAIN c.label /\ l \in DOMAIN c.ids /\ l \in Labels /\ id \in Range(c.list)
    BY <1>2, FoundListed DEF found, Agree, Labelled
  <2> HIDE DEF d, l, left
  <2>3. /\ d.list \in Seq(Nat) /\ Ordered(d.list) /\ Len(d.list) = Len(c.list) - 1
        /\ Range(d.list) = Range(c.list) \ {id}
    BY <2>1, <2>2, RemoveFirstOf DEF Agree, Listed
  <2>4. /\ DOMAIN d.label = DOMAIN c.label \ {id}
        /\ \A x \in DOMAIN d.label : d.label[x] = c.label[x]
    BY <2>1 DEF Without
  <2>5. /\ ids_of(d, l) = ids_of(c, l) \ {id}
        /\ \A k \in Labels : k # l => ids_of(d, k) = ids_of(c, k)
    BY <2>2, <2>4 DEF ids_of, l
  <2>6. ids_of(c, l) = c.ids[l]
    BY <2>2 DEF Agree, Labelled
  <2>10. Listed(d)
    <3>1. c.size = Len(c.list) /\ c.map = Range(c.list) /\ DOMAIN c.label = Range(c.list)
      BY DEF Agree, Listed
    <3> QED BY <2>1, <2>3, <2>4, <3>1 DEF Listed
  <2>11. \A x \in DOMAIN d.label : d.label[x] \in Labels
    BY <2>4 DEF Agree, Labelled
  <2>7. ASSUME left = {} PROVE Labelled(d)
    <3>1. DOMAIN d.ids = DOMAIN c.ids \ {l} /\ \A k \in DOMAIN d.ids : d.ids[k] = c.ids[k]
      BY <2>1, <2>7 DEF Without
    <3>2. \A k \in Labels : ids_of(d, k) = IF k \in DOMAIN d.ids THEN d.ids[k] ELSE {}
      BY <2>5, <2>6, <2>7, <3>1 DEF Agree, Labelled, left
    <3> QED BY <2>11, <3>1, <3>2 DEF Agree, Labelled
  <2>8. ASSUME left # {} PROVE Labelled(d)
    <3>1. /\ DOMAIN d.ids = DOMAIN c.ids /\ d.ids[l] = left
          /\ \A k \in DOMAIN d.ids : k # l => d.ids[k] = c.ids[k]
      BY <2>1, <2>2, <2>8 DEF With
    <3>2. \A k \in Labels : ids_of(d, k) = IF k \in DOMAIN d.ids THEN d.ids[k] ELSE {}
      BY <2>2, <2>5, <2>6, <3>1 DEF Agree, Labelled, left
    <3> QED BY <2>8, <2>11, <3>1, <3>2 DEF Agree, Labelled
  <2>9. Agree(d)
    BY <2>7, <2>8, <2>10 DEF Agree
  <2> QED BY <2>2, <2>3, <2>9 DEF d
<1> QED BY <1>1, <1>2

-----------------------------------------------------------------------------
(* The steps.                                                              *)

\* ids are given out in order, and what was deleted was older than all that is kept
Aged == /\ m_next_id \in Nat
        /\ \A id \in Range(m_item_list) : id < m_next_id
        /\ \A id \in deleted : id \in Nat /\ id < m_next_id
        /\ \A id \in deleted, kept \in Range(m_item_list) : id < kept

\* the invariant
Kept == Agree(cache) /\ Len(m_item_list) <= MaxEntries /\ Aged

\* it holds at first
LEMMA KeptInit == LruAssumption => (NlruInit => Kept)
<1> SUFFICES ASSUME LruAssumption, NlruInit PROVE Kept
  OBVIOUS
<1>1. Range(<<>>) = {} /\ Len(<<>>) = 0 /\ <<>> \in Seq(Nat)
  BY DEF Range
<1>2. DOMAIN EmptyMap = {}
  BY DEF EmptyMap
<1>3. Listed(cache)
  BY <1>1, <1>2 DEF NlruInit, cache, Listed, Ordered
<1>4. Labelled(cache)
  BY <1>2 DEF NlruInit, cache, Labelled, ids_of
<1>5. Len(m_item_list) <= MaxEntries /\ Aged
  BY <1>1 DEF NlruInit, Aged, LruAssumption
<1> QED BY <1>3, <1>4, <1>5 DEF Kept, Agree

\* what the actions assign is what cache is then
LEMMA CacheBecomes ==
  ASSUME NEW c, NlruBecomes(c), Agree(c)
  PROVE  Agree(cache)' /\ m_item_list' = c.list
<1>1. /\ (cache').list = c.list /\ (cache').size = c.size /\ (cache').map = c.map
      /\ (cache').label = c.label /\ (cache').ids = c.ids
  BY DEF NlruBecomes, cache
<1>2. Listed(cache)'
  BY <1>1 DEF Agree, Listed
<1>3. Labelled(cache)'
  BY <1>1 DEF Agree, Labelled, ids_of
<1> QED BY <1>2, <1>3 DEF Agree, NlruBecomes

\* get and remove take an entry out
LEMMA KeptTaken ==
  ASSUME LruAssumption, Kept, NEW id, NlruBecomes(remove(cache, id)), UNCHANGED <<m_next_id, deleted>>
  PROVE  Kept'
<1> DEFINE d == remove(cache, id)
<1>1. /\ Agree(d) /\ Range(d.list) = Range(m_item_list) \ {id}
      /\ Len(d.list) = IF id \in Range(m_item_list) THEN Len(m_item_list) - 1 ELSE Len(m_item_list)
  BY RemoveAgrees DEF Kept, cache
<1> HIDE DEF d
<1>2. Agree(cache)' /\ m_item_list' = d.list
  BY <1>1, CacheBecomes DEF d
<1>3. Len(m_item_list) \in Nat
  BY DEF Kept, Agree, Listed, cache
<1>4. Len(m_item_list') <= MaxEntries
  BY <1>1, <1>2, <1>3 DEF Kept, LruAssumption
<1>5. Aged'
  BY <1>1, <1>2 DEF Kept, Aged
<1> QED BY <1>2, <1>4, <1>5 DEF Kept

\* insert puts an entry in front, and makes room if it must
LEMMA KeptInserted ==
  ASSUME LruAssumption, Kept, NEW l \in Labels, Insert(l)
  PROVE  Kept'
<1> DEFINE c == inserted(cache, l, m_next_id)
           o == oldest(c)
           d == remove(c, o)
<1>0. m_next_id \in Nat /\ m_next_id' = m_next_id + 1
  BY DEF Kept, Aged, Insert
<1>1. /\ Agree(c) /\ Range(c.list) = Range(m_item_list) \cup {m_next_id}
      /\ Len(c.list) = Len(m_item_list) + 1
  <2>1. Agree(cache) /\ cache.list = m_item_list /\ \A x \in Range(cache.list) : x < m_next_id
    BY DEF Kept, Aged, cache
  <2> HIDE DEF c
  <2>2. c = inserted(cache, l, m_next_id)
    BY DEF c
  <2> QED
    BY <1>0, <2>1, <2>2, AddAgrees
<1> HIDE DEF c
<1>2. c.list \in Seq(Nat) /\ Ordered(c.list) /\ c.size = Len(c.list) /\ Len(m_item_list) \in Nat
  BY <1>1 DEF Kept, Agree, Listed, cache
<1>3. CASE ~(c.size > MaxEntries)
  <2>1. NlruBecomes(c) /\ UNCHANGED deleted
    BY <1>3 DEF Insert, c
  <2>2. Agree(cache)' /\ m_item_list' = c.list
    BY <1>1, <2>1, CacheBecomes
  <2>3. Len(m_item_list') <= MaxEntries
    BY <1>2, <1>3, <2>2 DEF LruAssumption
  <2>4. Aged'
    <3>1. \A id \in Range(c.list) : id < m_next_id + 1
      BY <1>0, <1>1, <1>2, InRange DEF Kept, Aged
    <3>2. \A id \in deleted : id \in Nat /\ id < m_next_id + 1
      BY <1>0 DEF Kept, Aged
    <3>3. \A id \in deleted, kept \in Range(c.list) : id < kept
      BY <1>1 DEF Kept, Aged
    <3> QED BY <1>0, <2>1, <2>2, <3>1, <3>2, <3>3 DEF Aged
  <2> QED BY <2>2, <2>3, <2>4 DEF Kept
<1>4. CASE c.size > MaxEntries
  <2>1. NlruBecomes(d) /\ deleted' = deleted \cup {o}
    BY <1>4 DEF Insert, c
  <2>2. /\ o \in Range(c.list) /\ \A x \in Range(c.list) : x # o => o < x
    <3>1. c.list # <<>>
      BY <1>1, <1>2
    <3> QED BY <1>2, <3>1, LastOldest DEF oldest
  <2> HIDE DEF o
  <2>3. Agree(d) /\ Range(d.list) = Range(c.list) \ {o} /\ Len(d.list) = Len(c.list) - 1
    BY <1>1, <2>2, RemoveAgrees
  <2> HIDE DEF d
  <2>4. Agree(cache)' /\ m_item_list' = d.list
    BY <2>1, <2>3, CacheBecomes
  <2>5. Len(m_item_list') <= MaxEntries
    BY <1>1, <1>2, <2>3, <2>4 DEF Kept, LruAssumption
  <2>6. \A x \in Range(c.list) : x \in Nat /\ x < m_next_id + 1
    BY <1>0, <1>1, <1>2, InRange DEF Kept, Aged
  <2>7. \A id \in deleted, x \in Range(c.list) : id < x
    BY <1>1 DEF Kept, Aged
  <2>8. Aged'
    <3>1. \A id \in Range(d.list) : id < m_next_id + 1
      BY <2>3, <2>6
    <3>2. \A id \in deleted' : id \in Nat /\ id < m_next_id + 1
      BY <1>0, <2>1, <2>2, <2>6 DEF Kept, Aged
    <3>3. \A id \in deleted', kept \in Range(d.list) : id < kept
      BY <2>1, <2>2, <2>3, <2>7
    <3> QED BY <1>0, <2>4, <3>1, <3>2, <3>3 DEF Aged
  <2> QED BY <2>4, <2>5, <2>8 DEF Kept
<1> QED BY <1>3, <1>4

\* every call keeps it
LEMMA KeptStep == LruAssumption => (Kept /\ [NlruNext]_nlru_vars => Kept')
<1> SUFFICES ASSUME LruAssumption, Kept, [NlruNext]_nlru_vars PROVE Kept'
  OBVIOUS
<1>1. ASSUME NEW l \in Labels, Insert(l) PROVE Kept'
  BY <1>1, KeptInserted
<1>2. ASSUME NEW l \in Labels, Get(l) PROVE Kept'
  BY <1>2, KeptTaken DEF Get
<1>3. ASSUME NEW id \in 0 .. MaxIds - 1, RemoveId(id) PROVE Kept'
  BY <1>3, KeptTaken DEF RemoveId
<1>4. CASE UNCHANGED nlru_vars
  <2>1. Agree(cache)'
    BY <1>4 DEF Kept, Agree, Listed, Labelled, ids_of, cache, nlru_vars
  <2> QED BY <1>4, <2>1 DEF Kept, Aged, nlru_vars
<1> QED BY <1>1, <1>2, <1>3, <1>4 DEF NlruNext

\* so it holds always
LEMMA KeptHolds == LruAssumption => (NlruSpec => []Kept)
<1> SUFFICES ASSUME LruAssumption PROVE NlruSpec => []Kept
  OBVIOUS
<1>1. (NlruInit => Kept) /\ (Kept /\ [NlruNext]_nlru_vars => Kept')
  BY KeptInit, KeptStep
<1> QED BY <1>1, PTL DEF NlruSpec

\* After any series of insert, get and remove, with ids that are there or long gone, the list, its
\* count and its three indexes have the same entries, and no label is left without an id.
THEOREM IndexesAgreeHolds == LruAssumption => (NlruSpec => []IndexesAgree)
<1> SUFFICES ASSUME LruAssumption PROVE NlruSpec => []IndexesAgree
  OBVIOUS
<1>1. Kept => IndexesAgree
  <2> SUFFICES ASSUME Kept PROVE IndexesAgree
    OBVIOUS
  <2>1. m_item_list \in Seq(Nat) /\ Ordered(m_item_list)
    BY DEF Kept, Agree, Listed, cache
  <2>2. Cardinality(Range(m_item_list)) = Len(m_item_list)
    BY <2>1, OrderedCount
  <2>3. /\ m_item_list_map = Range(m_item_list) /\ DOMAIN m_id_label_map = Range(m_item_list)
        /\ m_item_list_size = Len(m_item_list)
    BY DEF Kept, Agree, Listed, cache
  <2>4. /\ \A l \in DOMAIN m_label_id_set_map : m_label_id_set_map[l] # {}
        /\ \A l \in Labels :
             {id \in DOMAIN m_id_label_map : m_id_label_map[id] = l}
               = IF l \in DOMAIN m_label_id_set_map THEN m_label_id_set_map[l] ELSE {}
    BY DEF Kept, Agree, Labelled, ids_of, cache
  <2> QED BY <2>2, <2>3, <2>4 DEF IndexesAgree
<1>2. NlruSpec => []Kept
  BY KeptHolds
<1> QED BY <1>1, <1>2, PTL

\* At most m_max_entries are kept, and every entry deleted for want of room is older than all that
\* are kept, whatever was taken out of the middle.
THEOREM KeepsNewestHolds == LruAssumption => (NlruSpec => []KeepsNewest)
<1> SUFFICES ASSUME LruAssumption PROVE NlruSpec => []KeepsNewest
  OBVIOUS
<1>1. Kept => KeepsNewest
  BY DEF Kept, Aged, KeepsNewest
<1>2. NlruSpec => []Kept
  BY KeptHolds
<1> QED BY <1>1, <1>2, PTL

-----------------------------------------------------------------------------
(* The object pool.                                                        *)

\* What LentOnce needs to be inductive: the number of objects is one, and holds is a function
\* of the users.
Lending ==
  /\ m_obj_vec \in Nat
  /\ holds \in [Users -> SUBSET (0 .. m_obj_vec - 1)]

LEMMA InitLentOnce == PoolInit => Lending /\ LentOnce
  BY DEF PoolInit, Lending, LentOnce

LEMMA NextLentOnce == Lending /\ LentOnce /\ [PoolNext]_pool_vars => Lending' /\ LentOnce'
<1> SUFFICES ASSUME Lending, LentOnce, [PoolNext]_pool_vars PROVE Lending' /\ LentOnce'
  OBVIOUS
<1> USE DEF Lending, LentOnce
<1>1. ASSUME NEW u \in Users, NEW idx, GetFree(u, idx) PROVE Lending' /\ LentOnce'
  BY <1>1 DEF GetFree, still_free
<1>2. ASSUME NEW u \in Users, Add(u) PROVE Lending' /\ LentOnce'
  <2>1. m_obj_vec \notin UNION {holds[v] : v \in Users}
    OBVIOUS
  <2>2. Lending'
    BY <1>2 DEF Add
  <2>3. \A v, w \in Users : v # w => holds'[v] \cap holds'[w] = {}
    BY <1>2, <2>1 DEF Add
  <2>4. m_used_idx_set' = UNION {holds'[v] : v \in Users}
    BY <1>2 DEF Add
  <2>5. m_used_idx_set' \cap m_free_idx_set' = {}
    BY <1>2 DEF Add
  <2>6. m_used_idx_set' \cup m_free_idx_set' = 0 .. m_obj_vec' - 1
    BY <1>2 DEF Add
  <2> QED
    BY <2>2, <2>3, <2>4, <2>5, <2>6
<1>3. ASSUME NEW u \in Users, NEW idx, Release(u, idx) PROVE Lending' /\ LentOnce'
  BY <1>3 DEF Release
<1>4. CASE UNCHANGED pool_vars
  BY <1>4 DEF pool_vars
<1> QED
  BY <1>1, <1>2, <1>3, <1>4 DEF PoolNext

\* No object is lent to two users, none is lost to both sets, and the used set is what is out:
\* get_free, add and release keep it so, as long as users give back only what they have.
THEOREM LentOnceHolds == PoolSpec => []LentOnce
<1>1. PoolInit => Lending /\ LentOnce
  BY InitLentOnce
<1>2. Lending /\ LentOnce /\ [PoolNext]_pool_vars => (Lending /\ LentOnce)'
  BY NextLentOnce
<1> QED
  BY <1>1, <1>2, PTL DEF PoolSpec

-----------------------------------------------------------------------------
(* The circular vector.                                                    *)

\* Until it is full the vector grows from index 0; then the oldest object is the one after
\* the newest.
Place ==
  \/ /\ m_max_size = NoMax \/ added <= m_max_size
     /\ size = added /\ m_cur_index = added - 1 /\ m_start_index = 0
  \/ /\ m_max_size # NoMax /\ added > m_max_size
     /\ size = m_max_size /\ m_cur_index \in 0 .. m_max_size - 1
     /\ m_start_index = wrapped(m_cur_index + 1)

\* An index holds the object added as long ago as it is behind the current one.
Contents ==
  \A j \in 1 .. size :
    m_vector[j] = IF j - 1 <= m_cur_index THEN added - (m_cur_index - (j - 1))
                  ELSE added - (m_cur_index + size - (j - 1))

Filled ==
  /\ m_max_size \in (Nat \ {0}) \cup {NoMax}
  /\ added \in Nat /\ m_vector \in Seq(Int) /\ m_cur_index \in Int
  /\ Place /\ Contents

LEMMA InitFilled == VectorAssumption /\ VectorInit => Filled
  BY DEF VectorAssumption, VectorInit, Filled, Place, Contents, size, NoMax

LEMMA NextFilled == Filled /\ [VectorNext]_vector_vars => Filled'
<1> SUFFICES ASSUME Filled, [VectorNext]_vector_vars PROVE Filled'
  OBVIOUS
<1> USE DEF Filled, Place, Contents, size, NoMax, wrapped
<1>0. Len(m_vector) \in Nat
  OBVIOUS
<1>1. CASE AddObj /\ (AddUnbounded \/ AddGrowing)
  <2>1. m_vector' = Append(m_vector, added + 1) /\ added' = added + 1
    BY <1>1 DEF AddObj, AddUnbounded, AddGrowing
  <2>2. m_cur_index' = m_cur_index + 1 /\ UNCHANGED <<m_max_size, m_start_index>>
    BY <1>0, <1>1 DEF AddObj, AddUnbounded, AddGrowing
  <2>3. size = added /\ m_cur_index = added - 1 /\ m_start_index = 0
        /\ (m_max_size = NoMax \/ added + 1 <= m_max_size)
    BY <1>0, <1>1 DEF AddObj, AddUnbounded, AddGrowing
  <2>4. /\ m_vector' \in Seq(Int) /\ Len(m_vector') = Len(m_vector) + 1
        /\ \A j \in 1 .. Len(m_vector) : m_vector'[j] = m_vector[j]
        /\ m_vector'[Len(m_vector) + 1] = added + 1
    BY <2>1
  <2>5. Place'
    BY <1>0, <2>1, <2>2, <2>3, <2>4
  <2>6. Contents'
    <3> SUFFICES ASSUME NEW j \in 1 .. Len(m_vector') PROVE m_vector'[j] = j
      BY <1>0, <2>1, <2>2, <2>3, <2>4
    <3>1. CASE j \in 1 .. Len(m_vector)
      BY <1>0, <2>3, <2>4, <3>1
    <3>2. CASE j = Len(m_vector) + 1
      BY <1>0, <2>3, <2>4, <3>2
    <3> QED
      BY <1>0, <2>4, <3>1, <3>2
  <2> QED
    BY <2>1, <2>2, <2>3, <2>4, <2>5, <2>6
<1>2. CASE AddObj /\ AddOverwriting
  <2> DEFINE cur == wrapped(m_cur_index + 1)
  <2>1. /\ m_vector' = [m_vector EXCEPT ![cur + 1] = added + 1] /\ added' = added + 1
        /\ m_cur_index' = cur /\ m_start_index' = wrapped(cur + 1) /\ UNCHANGED m_max_size
    BY <1>2 DEF AddObj, AddOverwriting, start_after
  <2>2. m_max_size # NoMax /\ Len(m_vector) = m_max_size /\ added >= m_max_size
        /\ cur \in 0 .. m_max_size - 1
    BY <1>0, <1>2 DEF AddObj, AddOverwriting
  <2>3. /\ m_vector' \in Seq(Int) /\ Len(m_vector') = m_max_size
        /\ \A j \in 1 .. m_max_size :
             m_vector'[j] = IF j = cur + 1 THEN added + 1 ELSE m_vector[j]
    BY <2>1, <2>2
  <2>4. Place'
    BY <2>1, <2>2, <2>3
  <2>5. Contents'
    <3> SUFFICES ASSUME NEW j \in 1 .. Len(m_vector')
                 PROVE  m_vector'[j] = IF j - 1 <= m_cur_index'
                                       THEN added' - (m_cur_index' - (j - 1))
                                       ELSE added' - (m_cur_index' + Len(m_vector') - (j - 1))
      OBVIOUS
    <3>0. /\ j \in 1 .. m_max_size /\ Len(m_vector') = m_max_size
          /\ m_cur_index' = cur /\ added' = added + 1
      BY <2>1, <2>3
    <3>1. m_vector[j] = IF j - 1 <= m_cur_index THEN added - (m_cur_index - (j - 1))
                        ELSE added - (m_cur_index + m_max_size - (j - 1))
      BY <2>2, <3>0
    <3>2. CASE j = cur + 1
      BY <2>2, <2>3, <3>0, <3>2
    <3>3. CASE j # cur + 1 /\ m_cur_index + 1 < m_max_size
      BY <2>2, <2>3, <3>0, <3>1, <3>3
    <3>4. CASE j # cur + 1 /\ m_cur_index + 1 >= m_max_size
      <4>1. m_cur_index = m_max_size - 1 /\ cur = 0
        BY <1>0, <2>2, <3>4
      <4> QED
        BY <2>2, <2>3, <3>0, <3>1, <3>4, <4>1
    <3>5. m_vector'[j] = IF j - 1 <= cur THEN added + 1 - (cur - (j - 1))
                         ELSE added + 1 - (cur + m_max_size - (j - 1))
      BY <2>2, <3>0, <3>2, <3>3, <3>4
    <3> QED
      BY <3>0, <3>5
  <2> QED
    BY <2>1, <2>2, <2>3, <2>4, <2>5
<1>3. CASE UNCHANGED vector_vars
  BY <1>3 DEF vector_vars
<1> QED
  BY <1>1, <1>2, <1>3 DEF VectorNext, AddObj

LEMMA FilledLastOnes == Filled => LastOnes
<1> SUFFICES ASSUME Filled PROVE LastOnes
  OBVIOUS
<1> USE DEF Filled, Place, Contents, size, NoMax, wrapped
<1>0. Len(m_vector) \in Nat
  OBVIOUS
<1>1. size = IF m_max_size # NoMax /\ m_max_size < added THEN m_max_size ELSE added
  BY <1>0
<1>2. added > 0 => get_distance_to_cur_index(m_start_index) = size - 1
  BY <1>0 DEF get_distance_to_cur_index
<1>3. ASSUME NEW i \in 0 .. size - 1 PROVE get_obj(m_start_index + i) = added - size + 1 + i
  <2> DEFINE k == IF m_start_index + i >= size THEN m_start_index + i - size ELSE m_start_index + i
  <2>1. get_obj(m_start_index + i) = m_vector[k + 1]
    <3>1. m_start_index \in Int /\ size \in Nat
      BY <1>0
    <3> HIDE DEF Filled, Place, Contents, NoMax, wrapped, size
    <3> QED
      BY <3>1, SMT DEF get_obj
  <2>2. k + 1 \in 1 .. size
    <3>1. size \in Nat /\ m_start_index \in 0 .. size
      BY <1>0
    <3> HIDE DEF Filled, size
    <3>2. k \in 0 .. size - 1
      BY <1>3, <3>1
    <3> QED
      BY <3>1, <3>2
  <2>3. m_vector[k + 1] = IF k <= m_cur_index THEN added - (m_cur_index - k)
                          ELSE added - (m_cur_index + size - k)
    <3>1. k \in Int
      BY <1>0, <1>3
    <3> HIDE DEF k
    <3> QED
      BY <1>0, <2>2, <3>1
  <2>4. CASE m_max_size = NoMax \/ added <= m_max_size
    <3>1. /\ size = added /\ m_cur_index = added - 1 /\ m_start_index = 0
          /\ i \in 0 .. added - 1 /\ k = i
      BY <1>0, <1>3, <2>4
    <3> QED
      BY <2>1, <2>3, <3>1
  <2>5. CASE m_max_size # NoMax /\ added > m_max_size
    <3>1. size = m_max_size /\ m_start_index = IF m_cur_index + 1 >= size THEN 0 ELSE m_cur_index + 1
      BY <1>0, <2>5
    <3>2. CASE m_cur_index + 1 >= size
      BY <1>0, <1>3, <2>1, <2>3, <2>5, <3>1, <3>2
    <3>3. CASE m_cur_index + 1 < size
      BY <1>0, <1>3, <2>1, <2>3, <2>5, <3>1, <3>3
    <3> QED
      BY <1>0, <3>2, <3>3
  <2> QED
    BY <1>0, <2>4, <2>5
<1> QED
  BY <1>1, <1>2, <1>3 DEF LastOnes

\* A walk from get_start_index over the distance to the current index meets the last
\* m_max_size objects added, oldest first: add_obj moves the start as it overwrites.
THEOREM LastOnesHolds == VectorAssumption => (VectorSpec => []LastOnes)
<1>1. VectorAssumption /\ VectorInit => Filled
  BY InitFilled
<1>2. Filled /\ [VectorNext]_vector_vars => Filled'
  BY NextFilled
<1>3. Filled => LastOnes
  BY FilledLastOnes
<1> QED
  BY <1>1, <1>2, <1>3, PTL DEF VectorSpec

-----------------------------------------------------------------------------
(* The timers of the event loop.                                           *)

\* An event that was added has a time, and the queue owns it until it fires.
Queued ==
  /\ TimeAssumption
  /\ clock \in Nat
  /\ time \in [Events -> Nat \cup {Never}]
  /\ m_event_pq \subseteq Events /\ cancelled \subseteq Events /\ fired \subseteq Events
  /\ \A e \in m_event_pq \cup cancelled \cup fired : time[e] # Never
  /\ deadline \in Nat \cup {Never} /\ loop_pc \in {"idle", "dequeue", "cb", "wait", "handlers"}
  /\ after_dequeue \in {"wait", "idle"}

Timed == Queued /\ NoneSleptThrough

LEMMA InitTimed == TimeAssumption /\ TimersInit => Timed
  BY DEF TimersInit, Timed, Queued, NoneSleptThrough, Never

LEMMA NextTimed == Timed /\ [TimersNext]_timer_vars => Timed'
<1> SUFFICES ASSUME Timed, [TimersNext]_timer_vars PROVE Timed'
  OBVIOUS
<1> USE DEF Timed, Queued, NoneSleptThrough, Never, TimeAssumption
<1>1. CASE Run
  BY <1>1 DEF Run
<1>2. ASSUME NEW e \in Events, PopCancelled(e) PROVE Timed'
  BY <1>2 DEF PopCancelled
<1>3. ASSUME NEW e \in Events, Fire(e) PROVE Timed'
  BY <1>3 DEF Fire, top
<1>4. ASSUME NEW e \in Events, NotYet(e) PROVE Timed'
  BY <1>4 DEF NotYet, dequeued, diff, top
<1>5. CASE NoneLeft
  BY <1>5 DEF NoneLeft, dequeued
<1>6. CASE Return /\ UNCHANGED <<clock, m_event_pq, time, cancelled, fired, deadline>>
  BY <1>6 DEF Return
<1>7. ASSUME NEW e \in Events, NEW n \in Delays, AddEvent(e, n) PROVE Timed'
  BY <1>7 DEF AddEvent
<1>8. ASSUME NEW e \in Events, Cancel(e) PROVE Timed'
  BY <1>8 DEF Cancel
<1>9. CASE SocketEvents
  BY <1>9 DEF SocketEvents
<1>10. CASE Interrupted
  BY <1>10 DEF Interrupted
<1>11. CASE ClockTick
  BY <1>11 DEF ClockTick
<1>12. CASE UNCHANGED timer_vars
  BY <1>12 DEF timer_vars
<1> QED
  BY <1>1, <1>2, <1>3, <1>4, <1>5, <1>6, <1>7, <1>8, <1>9, <1>10, <1>11, <1>12 DEF TimersNext, Loop

\* Whatever callbacks add and cancel, the wait of run ends before any event of the queue that
\* is not cancelled is due, and dequeue_events fires none early.
THEOREM NoneSleptThroughHolds == TimeAssumption => (TimersSpec => []NoneSleptThrough)
<1>1. TimeAssumption /\ TimersInit => Timed
  BY InitTimed
<1>2. Timed /\ [TimersNext]_timer_vars => Timed'
  BY NextTimed
<1>3. Timed => NoneSleptThrough
  BY DEF Timed
<1> QED
  BY <1>1, <1>2, <1>3, PTL DEF TimersSpec
=============================================================================
