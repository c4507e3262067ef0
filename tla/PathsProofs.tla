----------------------------- MODULE PathsProofs -----------------------------
(***************************************************************************)
(* Theorems about Paths, for any ranges and any number of workers:         *)
(* path_exploder makes every path, each once and in order, and the workers *)
(* take them in turn.                                                      *)
(*                                                                         *)
(* path_exploder goes by induction on the ranges that are left (Explosion):*)
(* what exploded computes is by the equation that defines it, once a       *)
(* function that satisfies it is shown to exist (UpToExists).              *)
(***************************************************************************)
EXTENDS Paths, SequenceLemmas

-----------------------------------------------------------------------------
(* Order.                                                                  *)

\* every element is before those that follow it
Ordered(s) == \A j, k \in 1 .. Len(s) : j < k => before(s[j], s[k])

\* and is in order if they are, the one before the other
LEMMA OrderedBoth ==
  ASSUME NEW X, NEW a \in Seq(X), NEW b \in Seq(X), Ordered(a), Ordered(b),
         \A x \in Range(a), y \in Range(b) : before(x, y)
  PROVE  Ordered(a \o b)
<1> DEFINE t == a \o b
           m == Len(a)
<1> SUFFICES ASSUME NEW j \in 1 .. Len(t), NEW k \in 1 .. Len(t), j < k PROVE before(t[j], t[k])
  BY DEF Ordered
<1>1. \/ j \in 1 .. m /\ t[j] = a[j]
      \/ j > m /\ j - m \in 1 .. Len(b) /\ t[j] = b[j - m]
  BY FromEither
<1>2. \/ k \in 1 .. m /\ t[k] = a[k]
      \/ k > m /\ k - m \in 1 .. Len(b) /\ t[k] = b[k - m]
  BY FromEither
<1>0. m \in Nat
  OBVIOUS
<1> HIDE DEF t, m
<1>3. CASE k \in 1 .. m /\ t[k] = a[k]
  <2>1. j \in 1 .. m /\ t[j] = a[j]
    BY <1>0, <1>1, <1>3
  <2> QED BY <1>3, <2>1 DEF Ordered, m
<1>4. CASE k > m /\ k - m \in 1 .. Len(b) /\ t[k] = b[k - m]
  <2>1. CASE j \in 1 .. m /\ t[j] = a[j]
    BY <1>4, <2>1, InRange DEF m
  <2>2. CASE j > m /\ j - m \in 1 .. Len(b) /\ t[j] = b[j - m]
    <3>1. j - m < k - m
      BY <1>0
    <3> QED BY <1>4, <2>2, <3>1 DEF Ordered
  <2> QED BY <1>1, <2>1, <2>2
<1> QED BY <1>2, <1>3, <1>4

\* the sequences in s are in order, and each is after those before it
InOrder(s) ==
  /\ \A i \in 1 .. Len(s) : Ordered(s[i])
  /\ \A i, j \in 1 .. Len(s) : i < j => \A x \in Range(s[i]), y \in Range(s[j]) : before(x, y)

\* what it has, and in which order
LEMMA Flattened ==
  ASSUME NEW X, NEW s \in Seq(Seq(X)), Len(s) # 0
  PROVE  /\ FlattenSeq(s) \in Seq(X) /\ (InOrder(s) => Ordered(FlattenSeq(s)))
         /\ \A x : x \in Range(FlattenSeq(s)) <=> \E i \in 1 .. Len(s) : x \in Range(s[i])
<1> DEFINE n == Len(s)
<1>1. n \in Nat /\ n # 0 /\ \A i \in 1 .. n : s[i] \in Seq(X)
  OBVIOUS
<1>2. PICK f : Flattens(f, s) /\ FlattenSeq(s) = f[n]
  BY <1>1, FlattenIs
<1>3. \A i \in 1 .. n : f[i] = IF i = 1 THEN s[i] ELSE f[i - 1] \o s[i]
  BY <1>2 DEF Flattens
<1> DEFINE InO == InOrder(s)
<1>4. InO => \A i \in 1 .. n : Ordered(s[i])
  BY DEF InOrder
<1>5. InO => \A i, j \in 1 .. n : i < j => \A x \in Range(s[i]), y \in Range(s[j]) : before(x, y)
  BY DEF InOrder
<1> HIDE DEF InO
<1> DEFINE Good(m) == /\ f[m] \in Seq(X) /\ (InO => Ordered(f[m]))
                      /\ \A x : x \in Range(f[m]) <=> \E i \in 1 .. m : x \in Range(s[i])
           G == {m \in Nat : m \in 1 .. n => Good(m)}
<1> HIDE DEF n
<1>6. 0 \in G
  OBVIOUS
<1>7. ASSUME NEW m \in Nat, m \in G PROVE m + 1 \in G
  <2> SUFFICES ASSUME m + 1 \in 1 .. n PROVE Good(m + 1)
    OBVIOUS
  <2>1. CASE m = 0
    <3>1. f[1] = s[1] /\ 1 \in 1 .. n
      BY <1>1, <1>3
    <3>2. \A i \in 1 .. 1 : i = 1
      OBVIOUS
    <3> QED BY <1>1, <1>4, <2>1, <3>1, <3>2
  <2>2. CASE m # 0
    <3>1. m \in 1 .. n /\ f[m + 1] = f[m] \o s[m + 1]
      <4>1. m \in 1 .. n /\ m + 1 # 1 /\ (m + 1) - 1 = m
        BY <1>1, <2>2
      <4> QED BY <1>3, <4>1
    <3>2. Good(m)
      BY <1>7, <3>1
    <3>3. /\ f[m] \in Seq(X) /\ s[m + 1] \in Seq(X)
          /\ InO => Ordered(f[m]) /\ Ordered(s[m + 1])
      BY <1>1, <1>4, <3>2
    <3>4. InO => \A x \in Range(f[m]), y \in Range(s[m + 1]) : before(x, y)
      <4> SUFFICES ASSUME InO, NEW x \in Range(f[m]), NEW y \in Range(s[m + 1]) PROVE before(x, y)
        OBVIOUS
      <4>1. PICK i \in 1 .. m : x \in Range(s[i])
        BY <3>2
      <4>2. i \in 1 .. n /\ m + 1 \in 1 .. n /\ i < m + 1
        BY <1>1, <3>1
      <4> QED BY <1>5, <4>1, <4>2
    <3> DEFINE t == f[m] \o s[m + 1]
    <3>5. t \in Seq(X) /\ (InO => Ordered(t))
      BY <3>3, <3>4, Concatenated, OrderedBoth
    <3>6. Range(t) = Range(f[m]) \cup Range(s[m + 1])
      BY <3>3, RangeOfBoth
    <3> HIDE DEF t
    <3>7. \A x : x \in Range(t) <=> \E i \in 1 .. m + 1 : x \in Range(s[i])
      <4>1. /\ \A i \in 1 .. m + 1 : i \in 1 .. m \/ i = m + 1
            /\ \A i \in 1 .. m : i \in 1 .. m + 1
            /\ m + 1 \in 1 .. m + 1
        OBVIOUS
      <4> QED BY <3>2, <3>6, <4>1
    <3> QED BY <3>1, <3>5, <3>7 DEF t
  <2> QED BY <2>1, <2>2
<1>8. n \in G
  <2> HIDE DEF G
  <2> QED BY <1>1, <1>6, <1>7, NatSteps
<1>9. Good(n)
  BY <1>1, <1>8
<1> QED BY <1>2, <1>9 DEF n, InO

-----------------------------------------------------------------------------
(* path_exploder.                                                          *)

\* what path_exploder is called with: the path so far and the ranges left
Todo == Seq(Int) \X Seq(Ranges)

\* what exploded is of, if g is what it is of shorter ones
explode(g, part, rs) ==
  IF rs = <<>> THEN <<part>>
  ELSE FlattenSeq([i \in DOMAIN steps(Head(rs)) |->
                     g[<<Append(part, steps(Head(rs))[i]), Tail(rs)>>]])

\* the equation that defines exploded
Explodes(f) == f = [todo \in Todo |-> explode(f, todo[1], todo[2])]

\* the numbers of a range
LEMMA StepsType ==
  ASSUME PathsAssumption, NEW r \in Ranges
  PROVE  /\ steps(r) \in Seq(Int)
         /\ r[1] \in Nat /\ r[2] \in Nat
         /\ r[1] <= r[2] => Len(steps(r)) = r[2] - r[1] + 1
         /\ \A i \in 1 .. Len(steps(r)) : steps(r)[i] = printed(r[1] + i - 1)
<1>1. r[1] \in Nat /\ r[2] \in Nat /\ Width \in Nat
  BY DEF PathsAssumption
<1>2. \A i \in Int : printed(i) \in Int
  BY <1>1 DEF printed
<1> DEFINE m == r[2] - r[1] + 1
           k == IF m >= 0 THEN m ELSE 0
<1>3. steps(r) = [i \in 1 .. m |-> printed(r[1] + i - 1)]
  BY DEF steps
<1>4. m \in Int /\ k \in Nat /\ (m >= 0 => k = m)
  BY <1>1
<1> HIDE DEF m, k
<1>5. 1 .. m = 1 .. k
  BY <1>4 DEF k
<1>6. \A i \in 1 .. k : printed(r[1] + i - 1) \in Int
  BY <1>1, <1>2
<1>7. [i \in 1 .. k |-> printed(r[1] + i - 1)] \in Seq(Int)
  BY <1>4, <1>6
<1>8. Len([i \in 1 .. k |-> printed(r[1] + i - 1)]) = k
  BY <1>4
<1>9. r[1] <= r[2] => k = r[2] - r[1] + 1
  BY <1>1, <1>4 DEF m
<1> QED BY <1>1, <1>3, <1>5, <1>7, <1>8, <1>9

\* the first range and the others
LEMMA TailType ==
  ASSUME NEW rs \in Seq(Ranges), rs # <<>>
  PROVE  /\ Head(rs) \in Ranges /\ Head(rs) = rs[1] /\ Tail(rs) \in Seq(Ranges)
         /\ Len(rs) \in Nat /\ Len(Tail(rs)) = Len(rs) - 1 /\ Len(Tail(rs)) \in Nat
         /\ \A i \in 1 .. Len(rs) - 1 : Tail(rs)[i] = rs[i + 1]
OBVIOUS

\* g and h are the same up to n ranges
Same(g, h, n) == \A todo \in Todo : Len(todo[2]) <= n => g[todo] = h[todo]

\* explode looks only at what has one range less
LEMMA ExplodeSame ==
  ASSUME PathsAssumption, NEW g, NEW h, NEW n \in Nat,
         Same(g, h, n),
         NEW part \in Seq(Int), NEW rs \in Seq(Ranges), Len(rs) <= n + 1
  PROVE  explode(g, part, rs) = explode(h, part, rs)
<1>1. CASE rs = <<>>
  BY <1>1 DEF explode
<1>2. CASE rs # <<>>
  <2> DEFINE st == steps(Head(rs))
  <2>1. st \in Seq(Int) /\ DOMAIN st = 1 .. Len(st) /\ \A i \in 1 .. Len(st) : st[i] \in Int
    BY <1>2, TailType, StepsType
  <2> HIDE DEF st
  <2>2. ASSUME NEW i \in DOMAIN st
        PROVE  g[<<Append(part, st[i]), Tail(rs)>>] = h[<<Append(part, st[i]), Tail(rs)>>]
    <3>1. Append(part, st[i]) \in Seq(Int)
      BY <2>1
    <3>2. Tail(rs) \in Seq(Ranges) /\ Len(Tail(rs)) <= n
      BY <1>2, TailType
    <3> DEFINE todo == <<Append(part, st[i]), Tail(rs)>>
    <3>3. todo \in Todo /\ todo[2] = Tail(rs)
      BY <3>1, <3>2 DEF Todo
    <3> HIDE DEF todo
    <3>4. g[todo] = h[todo]
      BY <3>2, <3>3 DEF Same
    <3> QED BY <3>4 DEF todo
  <2>3. [i \in DOMAIN st |-> g[<<Append(part, st[i]), Tail(rs)>>]]
          = [i \in DOMAIN st |-> h[<<Append(part, st[i]), Tail(rs)>>]]
    BY <2>2
  <2> QED BY <1>2, <2>3 DEF explode, st
<1> QED BY <1>1, <1>2

\* g is right up to n ranges
UpTo(g, n) == \A todo \in Todo : Len(todo[2]) <= n => g[todo] = explode(g, todo[1], todo[2])

\* the parts of a pair
LEMMA TodoParts ==
  ASSUME NEW todo \in Todo
  PROVE  todo[1] \in Seq(Int) /\ todo[2] \in Seq(Ranges) /\ Len(todo[2]) \in Nat
BY DEF Todo

\* two such functions are the same up to n ranges
LEMMA UpToAgree ==
  ASSUME PathsAssumption, NEW n \in Nat, NEW g, UpTo(g, n), NEW h, UpTo(h, n)
  PROVE  \A todo \in Todo : Len(todo[2]) <= n => g[todo] = h[todo]
<1> DEFINE N == {k \in Nat : k <= n => \A todo \in Todo : Len(todo[2]) <= k => g[todo] = h[todo]}
<1>1. 0 \in N
  <2> SUFFICES ASSUME NEW todo \in Todo, Len(todo[2]) <= 0 PROVE g[todo] = h[todo]
    OBVIOUS
  <2>1. todo[2] = <<>>
    BY TodoParts
  <2>2. Len(todo[2]) <= n
    BY TodoParts
  <2> QED BY <2>1, <2>2 DEF UpTo, explode
<1>2. ASSUME NEW k \in Nat, k \in N PROVE k + 1 \in N
  <2> SUFFICES ASSUME k + 1 <= n, NEW todo \in Todo, Len(todo[2]) <= k + 1 PROVE g[todo] = h[todo]
    OBVIOUS
  <2>1. \A t \in Todo : Len(t[2]) <= k => g[t] = h[t]
    BY <1>2
  <2>2. explode(g, todo[1], todo[2]) = explode(h, todo[1], todo[2])
    <3>1. todo[1] \in Seq(Int) /\ todo[2] \in Seq(Ranges)
      BY TodoParts
    <3>2. Same(g, h, k)
      BY <2>1 DEF Same
    <3> QED BY <3>1, <3>2, ExplodeSame
  <2>3. Len(todo[2]) <= n
    BY TodoParts
  <2> QED BY <2>2, <2>3 DEF UpTo
<1>3. n \in N
  <2> HIDE DEF N
  <2> QED BY <1>1, <1>2, NatSteps
<1> QED BY <1>3

\* there is one for every n
LEMMA UpToExists ==
  ASSUME PathsAssumption, NEW n \in Nat
  PROVE  \E g : UpTo(g, n)
<1> DEFINE N == {k \in Nat : \E g : UpTo(g, k)}
<1>1. 0 \in N
  <2> DEFINE g == [todo \in Todo |-> <<todo[1]>>]
  <2>1. ASSUME NEW todo \in Todo, Len(todo[2]) <= 0 PROVE g[todo] = explode(g, todo[1], todo[2])
    <3>1. todo[2] = <<>>
      BY <2>1, TodoParts
    <3> QED BY <3>1 DEF explode
  <2>2. UpTo(g, 0)
    <3> HIDE DEF g
    <3> QED BY <2>1 DEF UpTo
  <2> HIDE DEF g
  <2> QED BY <2>2
<1>2. ASSUME NEW k \in Nat, k \in N PROVE k + 1 \in N
  <2>1. PICK g : UpTo(g, k)
    BY <1>2
  <2> DEFINE h == [todo \in Todo |-> explode(g, todo[1], todo[2])]
  <2>2. \A todo \in Todo : h[todo] = explode(g, todo[1], todo[2])
    OBVIOUS
  <2> HIDE DEF h
  <2>3. \A todo \in Todo : Len(todo[2]) <= k => g[todo] = h[todo]
    BY <2>1, <2>2 DEF UpTo
  <2>4. ASSUME NEW todo \in Todo, Len(todo[2]) <= k + 1 PROVE h[todo] = explode(h, todo[1], todo[2])
    <3>1. explode(g, todo[1], todo[2]) = explode(h, todo[1], todo[2])
      <4>1. todo[1] \in Seq(Int) /\ todo[2] \in Seq(Ranges)
        BY TodoParts
      <4>2. Same(g, h, k)
        BY <2>3 DEF Same
      <4> QED BY <2>4, <4>1, <4>2, ExplodeSame
    <3> QED BY <2>2, <3>1
  <2>5. UpTo(h, k + 1)
    BY <2>4 DEF UpTo
  <2> QED BY <2>5
<1>3. n \in N
  <2> HIDE DEF N
  <2> QED BY <1>1, <1>2, NatSteps
<1> QED BY <1>3

\* so there is one for any number of ranges, and path_exploder is what its equation says
LEMMA ExplodedIs ==
  ASSUME PathsAssumption
  PROVE  \A part \in Seq(Int), rs \in Seq(Ranges) : path_exploder(part, rs) = explode(exploded, part, rs)
<1> DEFINE G(n) == CHOOSE g : UpTo(g, n)
           f == [todo \in Todo |-> G(Len(todo[2]))[todo]]
<1>1. \A n \in Nat : UpTo(G(n), n)
  BY UpToExists
<1> HIDE DEF G
<1>2. \A todo \in Todo : f[todo] = G(Len(todo[2]))[todo]
  OBVIOUS
<1> HIDE DEF f
<1>3. ASSUME NEW n \in Nat
      PROVE  \A todo \in Todo : Len(todo[2]) <= n => f[todo] = G(n)[todo]
  <2> SUFFICES ASSUME NEW todo \in Todo, Len(todo[2]) <= n PROVE f[todo] = G(n)[todo]
    OBVIOUS
  <2> DEFINE k == Len(todo[2])
  <2>1. k \in Nat /\ k <= n
    BY TodoParts
  <2>2. UpTo(G(k), k) /\ UpTo(G(n), n)
    BY <1>1, <2>1
  <2>3. UpTo(G(n), k)
    <3> SUFFICES ASSUME NEW t \in Todo, Len(t[2]) <= k PROVE Len(t[2]) <= n
      BY <2>2 DEF UpTo
    <3> QED BY <2>1, TodoParts
  <2>4. G(k)[todo] = G(n)[todo]
    BY <2>1, <2>2, <2>3, UpToAgree
  <2> QED BY <1>2, <2>4
<1>4. ASSUME NEW todo \in Todo PROVE f[todo] = explode(f, todo[1], todo[2])
  <2> DEFINE n == Len(todo[2])
  <2>1. n \in Nat /\ n <= n + 1 /\ n <= n
    BY TodoParts
  <2>2. f[todo] = G(n)[todo]
    BY <1>2
  <2>3. G(n)[todo] = explode(G(n), todo[1], todo[2])
    BY <1>1, <2>1 DEF UpTo
  <2>4. explode(f, todo[1], todo[2]) = explode(G(n), todo[1], todo[2])
    <3>1. Same(f, G(n), n)
      BY <1>3, <2>1 DEF Same
    <3>2. todo[1] \in Seq(Int) /\ todo[2] \in Seq(Ranges)
      BY TodoParts
    <3> QED BY <2>1, <3>1, <3>2, ExplodeSame
  <2> QED BY <2>2, <2>3, <2>4
<1>5. Explodes(f)
  BY <1>4 DEF Explodes, f
<1>6. Explodes(exploded)
  <2>1. exploded = CHOOSE g : Explodes(g)
    BY DEF exploded, Explodes, explode, Todo
  <2> QED BY <1>5, <2>1
<1> SUFFICES ASSUME NEW part \in Seq(Int), NEW rs \in Seq(Ranges)
             PROVE  path_exploder(part, rs) = explode(exploded, part, rs)
  OBVIOUS
<1> DEFINE todo == <<part, rs>>
<1>7. todo \in Todo /\ todo[1] = part /\ todo[2] = rs
  BY DEF Todo
<1> HIDE DEF todo
<1>8. exploded[todo] = explode(exploded, todo[1], todo[2])
  BY <1>6, <1>7 DEF Explodes
<1> QED BY <1>7, <1>8 DEF path_exploder, todo

\* x is a number of r as it is printed
Of(x, r) == \E k \in numbers(r) : x = printed(k)

\* p is part, then a number of each of the ranges rs, as it is printed
Under(p, part, rs) ==
  /\ p \in Seq(Int) /\ Len(p) = Len(part) + Len(rs)
  /\ \A j \in 1 .. Len(part) : p[j] = part[j]
  /\ \A j \in 1 .. Len(rs) : Of(p[Len(part) + j], rs[j])

\* every range has a number: convert_exp_to_range refused the others
Whole(rs) == \A i \in 1 .. Len(rs) : rs[i][1] <= rs[i][2]

\* every number is printed as it is
Fits == \A r \in Ranges : r[2] < Width \div 2

\* what path_exploder returns: every path under part, at least one, in order
Exploded(part, rs) ==
  /\ path_exploder(part, rs) \in Seq(Seq(Int))
  /\ \A p : p \in Range(path_exploder(part, rs)) <=> Under(p, part, rs)
  /\ path_exploder(part, rs) # <<>>
  /\ Fits => Ordered(path_exploder(part, rs))

\* what Append computes
LEMMA Appended ==
  ASSUME NEW X, NEW s \in Seq(X), NEW x \in X
  PROVE  /\ Append(s, x) \in Seq(X) /\ Len(Append(s, x)) = Len(s) + 1 /\ Len(s) \in Nat
         /\ \A j \in 1 .. Len(s) : Append(s, x)[j] = s[j]
         /\ Append(s, x)[Len(s) + 1] = x
OBVIOUS

\* what path_exploder's recursion comes to
LEMMA UnderOne ==
  ASSUME PathsAssumption, NEW part \in Seq(Int), NEW rs \in Seq(Ranges), rs # <<>>, Whole(rs), NEW p
  PROVE  Under(p, part, rs) <=>
           \E i \in 1 .. Len(steps(Head(rs))) : Under(p, Append(part, steps(Head(rs))[i]), Tail(rs))
<1> DEFINE r == Head(rs)
           st == steps(r)
           n == Len(st)
           m == Len(part)
           l == Len(rs)
           tl == Tail(rs)
           longer(i) == Append(part, st[i])
<1>1. /\ r \in Ranges /\ r = rs[1] /\ l \in Nat \ {0} /\ Len(tl) = l - 1
      /\ \A i \in 1 .. l - 1 : tl[i] = rs[i + 1]
  BY TailType
<1>2. r[1] <= r[2]
  BY <1>1 DEF Whole
<1>3. /\ st \in Seq(Int) /\ r[1] \in Nat /\ r[2] \in Nat /\ n = r[2] - r[1] + 1
      /\ \A i \in 1 .. n : st[i] = printed(r[1] + i - 1)
  BY <1>1, <1>2, StepsType
<1>4. \A i \in 1 .. n : st[i] \in Int
  BY <1>3
<1>5. m \in Nat
  OBVIOUS
<1>6. \A i \in 1 .. n :
        /\ Len(longer(i)) = m + 1
        /\ \A j \in 1 .. m : longer(i)[j] = part[j]
        /\ longer(i)[m + 1] = st[i]
  BY <1>4, Appended
<1> DEFINE lo == r[1]
           hi == r[2]
<1>7. /\ \A x : Of(x, r) <=> \E k \in lo .. hi : x = printed(k)
      /\ lo \in Nat /\ hi \in Nat /\ n = hi - lo + 1
      /\ \A i \in 1 .. n : st[i] = printed(lo + i - 1)
  BY <1>3 DEF Of, numbers
<1> HIDE DEF n, m, l, r, st, tl, longer, lo, hi
<1>8. ASSUME Under(p, part, rs)
      PROVE  \E i \in 1 .. n : Under(p, longer(i), tl)
  <2>1. /\ p \in Seq(Int) /\ Len(p) = m + l
        /\ \A j \in 1 .. m : p[j] = part[j]
        /\ \A j \in 1 .. l : Of(p[m + j], rs[j])
    BY <1>8 DEF Under, m, l
  <2>2. PICK k \in lo .. hi : p[m + 1] = printed(k)
    <3>1. 1 \in 1 .. l
      BY <1>1
    <3> QED BY <1>1, <1>7, <2>1, <3>1
  <2> DEFINE i == k - lo + 1
  <2>3. i \in 1 .. n /\ lo + i - 1 = k
    BY <1>7
  <2> HIDE DEF i
  <2>4. p[m + 1] = st[i]
    BY <1>7, <2>2, <2>3
  <2>5. Len(p) = (m + 1) + (l - 1)
    BY <1>1, <1>5, <2>1
  <2>6. \A j \in 1 .. m + 1 : p[j] = longer(i)[j]
    <3>1. \A j \in 1 .. m + 1 : j \in 1 .. m \/ j = m + 1
      BY <1>5
    <3> QED BY <1>6, <2>1, <2>3, <2>4, <3>1
  <2>7. ASSUME NEW j \in 1 .. l - 1 PROVE Of(p[(m + 1) + j], tl[j])
    <3>1. j + 1 \in 1 .. l /\ m + (j + 1) = (m + 1) + j
      BY <1>1, <1>5
    <3> QED BY <1>1, <2>1, <3>1
  <2>8. Under(p, longer(i), tl)
    <3>1. Len(longer(i)) = m + 1 /\ Len(tl) = l - 1
      BY <1>1, <1>6, <2>3
    <3> QED BY <2>1, <2>5, <2>6, <2>7, <3>1 DEF Under
  <2> QED BY <2>3, <2>8
<1>9. ASSUME NEW i \in 1 .. n, Under(p, longer(i), tl)
      PROVE  Under(p, part, rs)
  <2>1. /\ p \in Seq(Int) /\ Len(p) = (m + 1) + (l - 1)
        /\ \A j \in 1 .. m + 1 : p[j] = longer(i)[j]
        /\ \A j \in 1 .. l - 1 : Of(p[(m + 1) + j], tl[j])
    <3>1. Len(longer(i)) = m + 1 /\ Len(tl) = l - 1
      BY <1>1, <1>6
    <3> QED BY <1>9, <3>1 DEF Under
  <2>2. \A j \in 1 .. m : j \in 1 .. m + 1
    BY <1>5
  <2>3. \A j \in 1 .. m : p[j] = part[j]
    BY <1>6, <2>1, <2>2
  <2>4. Len(p) = m + l
    BY <1>1, <1>5, <2>1
  <2>5. ASSUME NEW j \in 1 .. l PROVE Of(p[m + j], rs[j])
    <3>1. CASE j = 1
      <4>1. p[m + 1] = st[i]
        <5>1. m + 1 \in 1 .. m + 1
          BY <1>5
        <5> QED BY <1>6, <2>1, <5>1
      <4> DEFINE k == lo + i - 1
      <4>2. k \in lo .. hi
        BY <1>7
      <4>3. st[i] = printed(k)
        BY <1>7
      <4> HIDE DEF k
      <4> QED BY <1>1, <1>7, <3>1, <4>1, <4>2, <4>3
    <3>2. CASE j # 1
      <4> DEFINE jj == j - 1
      <4>1. jj \in 1 .. l - 1 /\ jj + 1 = j /\ (m + 1) + jj = m + j
        BY <1>1, <1>5, <3>2
      <4> HIDE DEF jj
      <4> QED BY <1>1, <2>1, <4>1
    <3> QED BY <3>1, <3>2
  <2> QED BY <2>1, <2>3, <2>4, <2>5 DEF Under, m, l
<1> QED BY <1>8, <1>9 DEF n, st, r, tl, longer

\* what is left of whole ranges
LEMMA TailWhole ==
  ASSUME NEW rs \in Seq(Ranges), rs # <<>>, Whole(rs)
  PROVE  Whole(Tail(rs))
<1> DEFINE l == Len(rs)
<1>1. /\ l \in Nat /\ Len(Tail(rs)) = l - 1
      /\ \A i \in 1 .. l - 1 : Tail(rs)[i] = rs[i + 1]
  BY TailType
<1>2. \A i \in 1 .. l : rs[i][1] <= rs[i][2]
  BY DEF Whole
<1> HIDE DEF l
<1>3. \A i \in 1 .. l - 1 : i + 1 \in 1 .. l
  BY <1>1
<1> QED BY <1>1, <1>2, <1>3 DEF Whole

\* paths whose parts begin with different numbers
LEMMA BeforeNext ==
  ASSUME NEW part \in Seq(Int), NEW x \in Int, NEW y \in Int, x < y, NEW rs \in Seq(Ranges),
         NEW p, Under(p, Append(part, x), rs), NEW q, Under(q, Append(part, y), rs)
  PROVE  before(p, q)
<1> DEFINE m == Len(part)
           l == Len(rs)
<1>1. /\ m \in Nat /\ l \in Nat
      /\ Len(Append(part, x)) = m + 1 /\ Len(Append(part, y)) = m + 1
      /\ \A j \in 1 .. m : Append(part, x)[j] = part[j] /\ Append(part, y)[j] = part[j]
      /\ Append(part, x)[m + 1] = x /\ Append(part, y)[m + 1] = y
  BY Appended
<1>2. p \in Seq(Int) /\ Len(p) = m + 1 + l /\ \A j \in 1 .. m + 1 : p[j] = Append(part, x)[j]
  BY <1>1 DEF Under
<1>3. \A j \in 1 .. m + 1 : q[j] = Append(part, y)[j]
  BY <1>1 DEF Under
<1>4. DOMAIN p = 1 .. m + 1 + l
  BY <1>2
<1> HIDE DEF m, l
<1>5. m + 1 \in 1 .. m + 1 + l /\ m + 1 \in 1 .. m + 1 /\ (m + 1) - 1 = m
      /\ \A j \in 1 .. m : j \in 1 .. m + 1
  BY <1>1
<1>6. p[m + 1] < q[m + 1]
  BY <1>1, <1>2, <1>3, <1>5
<1>7. \A j \in 1 .. m : p[j] = q[j]
  BY <1>1, <1>2, <1>3, <1>5
<1> QED BY <1>4, <1>5, <1>6, <1>7 DEF before

\* sequences that agree at every index are one
LEMMA SeqEqual ==
  ASSUME NEW X, NEW p \in Seq(X), NEW q \in Seq(X), Len(p) = Len(q), \A j \in 1 .. Len(p) : p[j] = q[j]
  PROVE  p = q
<1>1. p = [j \in 1 .. Len(p) |-> p[j]] /\ q = [j \in 1 .. Len(q) |-> q[j]]
  OBVIOUS
<1> DEFINE n == Len(p)
<1>2. [j \in 1 .. n |-> p[j]] = [j \in 1 .. n |-> q[j]]
  BY Zenon
<1> QED BY <1>1, <1>2, Zenon

\* a function on 1 .. n is a sequence
LEMMA MakesSeq ==
  ASSUME NEW S, NEW n \in Nat, NEW x \in [1 .. n -> S]
  PROVE  x \in Seq(S) /\ Len(x) = n
OBVIOUS

\* with no range left the path is made
LEMMA NoRange ==
  ASSUME PathsAssumption, NEW part \in Seq(Int)
  PROVE  Exploded(part, <<>>)
<1>1. path_exploder(part, <<>>) = <<part>>
  <2>1. <<>> \in Seq(Ranges)
    OBVIOUS
  <2> QED BY <2>1, ExplodedIs DEF explode
<1>2. <<part>> \in Seq(Seq(Int)) /\ <<part>> # <<>> /\ Ordered(<<part>>)
  BY DEF Ordered
<1>3. \A p : p \in Range(<<part>>) <=> p = part
  BY DEF Range
<1>4. \A p : Under(p, part, <<>>) <=> p = part
  <2>1. part \in Seq(Int) /\ Len(part) = Len(part) + Len(<<>>) /\ Len(<<>>) = 0
    OBVIOUS
  <2>2. ASSUME NEW p \in Seq(Int), Len(p) = Len(part), \A j \in 1 .. Len(part) : p[j] = part[j]
        PROVE  p = part
    BY <2>2, SeqEqual
  <2>3. \A x : ~(x \in 1 .. 0)
    OBVIOUS
  <2> QED BY <2>1, <2>2, <2>3 DEF Under
<1> QED BY <1>1, <1>2, <1>3, <1>4 DEF Exploded

\* with one, what is made for the others comes once for each of its numbers
LEMMA OneRange ==
  ASSUME PathsAssumption, NEW part \in Seq(Int), NEW rs \in Seq(Ranges), rs # <<>>, Whole(rs),
         \A longer \in Seq(Int) : Exploded(longer, Tail(rs))
  PROVE  Exploded(part, rs)
<1> DEFINE r == Head(rs)
           st == steps(r)
           n == Len(st)
           tl == Tail(rs)
           longer(i) == Append(part, st[i])
           s == [i \in 1 .. n |-> path_exploder(longer(i), tl)]
<1>1. r \in Ranges /\ r = rs[1] /\ tl \in Seq(Ranges) /\ 1 \in 1 .. Len(rs)
  <2>1. 1 \in 1 .. Len(rs)
    BY TailType
  <2> QED BY <2>1, TailType
<1>2. r[1] <= r[2]
  BY <1>1 DEF Whole
<1>3. /\ st \in Seq(Int) /\ DOMAIN st = 1 .. n /\ n \in Nat \ {0}
      /\ r[1] \in Nat /\ r[2] \in Nat /\ n = r[2] - r[1] + 1
      /\ \A i \in 1 .. n : st[i] = printed(r[1] + i - 1) /\ st[i] \in Int
  <2>1. /\ st \in Seq(Int) /\ r[1] \in Nat /\ r[2] \in Nat /\ n = r[2] - r[1] + 1
        /\ \A i \in 1 .. n : st[i] = printed(r[1] + i - 1)
    BY <1>1, <1>2, StepsType
  <2> HIDE DEF r, st
  <2>2. DOMAIN st = 1 .. n /\ n \in Nat /\ \A i \in 1 .. n : st[i] \in Int
    BY <2>1
  <2>3. n # 0
    <3> HIDE DEF n
    <3> QED BY <1>2, <2>1
  <2> QED BY <2>1, <2>2, <2>3
<1>4. \A i \in 1 .. n : longer(i) \in Seq(Int)
  BY <1>3, Appended
<1>5. path_exploder(part, rs) = FlattenSeq(s)
  <2>1. path_exploder(part, rs) = explode(exploded, part, rs)
    BY ExplodedIs
  <2> DEFINE e == [i \in DOMAIN st |-> exploded[<<Append(part, st[i]), tl>>]]
  <2>2. explode(exploded, part, rs) = FlattenSeq(e)
    BY DEF explode
  <2>3. e = s
    BY <1>3 DEF path_exploder
  <2> HIDE DEF e, s
  <2> QED BY <2>1, <2>2, <2>3
<1>6. \A p : Under(p, part, rs) <=> \E i \in 1 .. n : Under(p, longer(i), tl)
  BY UnderOne
<1>7. Fits => \A i, j \in 1 .. n : i < j => st[i] < st[j]
  <2> SUFFICES ASSUME Fits, NEW i \in 1 .. n, NEW j \in 1 .. n, i < j PROVE st[i] < st[j]
    OBVIOUS
  <2>1. r[2] < Width \div 2
    BY <1>1 DEF Fits
  <2>2. Width \div 2 \in Int
    BY DEF PathsAssumption
  <2> DEFINE lo == r[1]
             hi == r[2]
             half == Width \div 2
  <2>3. \A k \in Int : k < half => printed(k) = k
    BY <2>2 DEF printed
  <2>4. lo \in Nat /\ hi \in Nat /\ n = hi - lo + 1
        /\ st[i] = printed(lo + i - 1) /\ st[j] = printed(lo + j - 1)
    BY <1>3
  <2>7. hi < half /\ half \in Int
    BY <2>1, <2>2
  <2> HIDE DEF lo, hi, half, n, st, r
  <2>5. lo + i - 1 \in Int /\ lo + j - 1 \in Int /\ lo + i - 1 < lo + j - 1 /\ lo + j - 1 <= hi
    BY <2>4
  <2>6. lo + i - 1 < half /\ lo + j - 1 < half
    BY <2>4, <2>5, <2>7
  <2> QED BY <2>3, <2>4, <2>5, <2>6
<1>8. \A i \in 1 .. n : Exploded(longer(i), tl)
  BY <1>4
<1> HIDE DEF n, st, r, tl, longer
<1>9. s \in Seq(Seq(Seq(Int))) /\ Len(s) = n /\ \A i \in 1 .. n : s[i] = path_exploder(longer(i), tl)
  <2> DEFINE SS == Seq(Seq(Int))
             x(i) == path_exploder(longer(i), tl)
  <2>1. \A i \in 1 .. n : x(i) \in SS
    BY <1>8 DEF Exploded
  <2>2. s = [i \in 1 .. n |-> x(i)]
    OBVIOUS
  <2> HIDE DEF SS, s, x
  <2>3. s \in [1 .. n -> SS] /\ \A i \in 1 .. n : s[i] = x(i)
    BY <2>1, <2>2
  <2>4. s \in Seq(SS) /\ Len(s) = n
    <3>1. n \in Nat
      BY <1>3
    <3> QED BY <2>3, <3>1, MakesSeq
  <2> QED BY <2>3, <2>4 DEF SS, x
<1> HIDE DEF s
<1>10. \A i \in 1 .. n : /\ s[i] # <<>> /\ s[i] \in Seq(Seq(Int))
                         /\ \A p : p \in Range(s[i]) <=> Under(p, longer(i), tl)
                         /\ Fits => Ordered(s[i])
  BY <1>8, <1>9 DEF Exploded
<1>11. Fits => InOrder(s)
  <2> SUFFICES ASSUME Fits, NEW i \in 1 .. n, NEW j \in 1 .. n, i < j,
                      NEW p \in Range(s[i]), NEW q \in Range(s[j])
               PROVE  before(p, q)
    BY <1>9, <1>10 DEF InOrder
  <2>1. Under(p, longer(i), tl) /\ Under(q, longer(j), tl)
    BY <1>10
  <2>2. st[i] < st[j] /\ st[i] \in Int /\ st[j] \in Int
    BY <1>3, <1>7
  <2> QED BY <1>1, <2>1, <2>2, BeforeNext DEF longer
<1>12. /\ FlattenSeq(s) \in Seq(Seq(Int)) /\ (InOrder(s) => Ordered(FlattenSeq(s)))
       /\ \A x : x \in Range(FlattenSeq(s)) <=> \E i \in 1 .. n : x \in Range(s[i])
  BY <1>3, <1>9, Flattened
<1>13. FlattenSeq(s) # <<>>
  <2>1. 1 \in 1 .. n
    BY <1>3
  <2>2. Len(s[1]) # 0 /\ Len(s[1]) \in Nat
    BY <1>10, <2>1
  <2>3. 1 \in 1 .. Len(s[1])
    BY <2>2
  <2>4. s[1][1] \in Range(s[1])
    BY <1>10, <2>1, <2>3, InRange
  <2>5. s[1][1] \in Range(FlattenSeq(s))
    BY <1>12, <2>1, <2>4
  <2>6. Range(<<>>) = {}
    BY DEF Range
  <2> QED BY <2>5, <2>6
<1> QED BY <1>5, <1>6, <1>10, <1>11, <1>12, <1>13 DEF Exploded

\* path_exploder puts every number of every range into a path, in order
LEMMA Explosion ==
  ASSUME PathsAssumption
  PROVE  \A part \in Seq(Int), rs \in Seq(Ranges) : Whole(rs) => Exploded(part, rs)
<1> DEFINE G == {n \in Nat : \A rs \in Seq(Ranges) : Len(rs) = n /\ Whole(rs) =>
                               \A part \in Seq(Int) : Exploded(part, rs)}
<1>1. 0 \in G
  <2> SUFFICES ASSUME NEW rs \in Seq(Ranges), Len(rs) = 0, NEW part \in Seq(Int) PROVE Exploded(part, rs)
    OBVIOUS
  <2>1. rs = <<>>
    OBVIOUS
  <2> QED BY <2>1, NoRange
<1>2. ASSUME NEW n \in Nat, n \in G PROVE n + 1 \in G
  <2> SUFFICES ASSUME NEW rs \in Seq(Ranges), Len(rs) = n + 1, Whole(rs), NEW part \in Seq(Int)
               PROVE  Exploded(part, rs)
    OBVIOUS
  <2>1. rs # <<>>
    OBVIOUS
  <2>2. Tail(rs) \in Seq(Ranges) /\ Len(Tail(rs)) = n
    BY <2>1, TailType
  <2>3. Whole(Tail(rs))
    BY <2>1, TailWhole
  <2>4. \A longer \in Seq(Int) : Exploded(longer, Tail(rs))
    BY <1>2, <2>2, <2>3
  <2> QED BY <2>1, <2>4, OneRange
<1> SUFFICES ASSUME NEW part \in Seq(Int), NEW rs \in Seq(Ranges), Whole(rs) PROVE Exploded(part, rs)
  OBVIOUS
<1>3. Len(rs) \in Nat
  OBVIOUS
<1>4. Len(rs) \in G
  <2> HIDE DEF G
  <2> QED BY <1>1, <1>2, <1>3, NatSteps
<1> QED BY <1>4

-----------------------------------------------------------------------------
(* The list.                                                               *)

\* after Expand the list is what path_exploder makes of whole ranges
Listed ==
  /\ ranges \in Seq(Ranges)
  /\ expanded = "yes" => Whole(ranges) /\ g_path_vector = path_exploder(<<>>, ranges)
  /\ expanded # "yes" => g_path_vector = <<>>

\* only Expand makes the list
LEMMA StaysListed == PathsAssumption => (PathsSpec => []Listed)
<1> SUFFICES ASSUME PathsAssumption PROVE PathsSpec => []Listed
  OBVIOUS
<1>1. PathsInit => Listed
  <2> SUFFICES ASSUME PathsInit PROVE Listed
    OBVIOUS
  <2>1. PICK n \in 0 .. MaxRanges : ranges \in [1 .. n -> Ranges]
    BY DEF PathsInit
  <2>2. n \in Nat
    BY DEF PathsAssumption
  <2> QED BY <2>1, <2>2, MakesSeq DEF PathsInit, Listed
<1>2. Listed /\ [PathsNext]_path_vars => Listed'
  <2> SUFFICES ASSUME Listed, [PathsNext]_path_vars PROVE Listed'
    OBVIOUS
  <2>1. CASE BadRange
    BY <2>1 DEF BadRange, Listed
  <2>2. CASE Expand
    <3>1. Whole(ranges)
      <4> SUFFICES ASSUME NEW i \in 1 .. Len(ranges) PROVE ranges[i][1] <= ranges[i][2]
        BY DEF Whole
      <4>1. ~(ranges[i][1] > ranges[i][2]) /\ ranges[i] \in Ranges
        BY <2>2 DEF Expand, bad, Listed
      <4> QED BY <4>1 DEF PathsAssumption
    <3> QED BY <2>2, <3>1 DEF Expand, Listed
  <2>3. CASE UNCHANGED <<ranges, expanded, g_path_vector>>
    BY <2>3 DEF Listed, Whole
  <2> QED BY <2>1, <2>2, <2>3 DEF PathsNext, Lock, Rollover, Index, Bump, Unlock, path_vars
<1> QED BY <1>1, <1>2, PTL DEF PathsSpec

\* g_path_vector has the numbers of the ranges in every combination, each once and the last range
\* fastest, for every path whose numbers are all below half of Width: sprintf prints the others
\* negative.
THEOREM AllPathsHolds == PathsAssumption /\ Fits => (PathsSpec => []AllPaths)
<1> SUFFICES ASSUME PathsAssumption, Fits PROVE PathsSpec => []AllPaths
  OBVIOUS
<1>1. Listed => AllPaths
  <2> SUFFICES ASSUME Listed, expanded = "yes"
               PROVE  /\ Range(g_path_vector) =
                           {p \in [DOMAIN ranges -> 0 .. Width - 1] : \A i \in DOMAIN ranges : p[i] \in numbers(ranges[i])}
                      /\ \A i \in 1 .. Len(g_path_vector) - 1 : before(g_path_vector[i], g_path_vector[i + 1])
    BY DEF AllPaths
  <2>0. ranges \in Seq(Ranges) /\ Whole(ranges) /\ <<>> \in Seq(Int)
    BY DEF Listed
  <2>1. Exploded(<<>>, ranges) /\ g_path_vector = path_exploder(<<>>, ranges)
    BY <2>0, Explosion DEF Listed
  <2> DEFINE g == g_path_vector
             n == Len(ranges)
  <2>2. g \in Seq(Seq(Int)) /\ Ordered(g) /\ \A p : p \in Range(g) <=> Under(p, <<>>, ranges)
    BY <2>1 DEF Exploded
  <2>3. n \in Nat /\ DOMAIN ranges = 1 .. n /\ \A i \in 1 .. n : ranges[i] \in Ranges
    BY <2>0
  <2> HIDE DEF g, n
  <2>4. ASSUME NEW i \in 1 .. n, NEW x
        PROVE  Of(x, ranges[i]) <=> x \in numbers(ranges[i])
    <3> DEFINE lo == ranges[i][1]
               hi == ranges[i][2]
               half == Width \div 2
    <3>1. lo \in Nat /\ hi \in Nat /\ hi < half
      BY <2>3 DEF PathsAssumption, Fits
    <3>2. half \in Int
      BY DEF PathsAssumption
    <3>3. \A k \in Int : k < half => printed(k) = k
      BY <3>2 DEF printed
    <3>4. numbers(ranges[i]) = lo .. hi
      BY DEF numbers
    <3> HIDE DEF lo, hi, half
    <3>5. \A k \in lo .. hi : k \in Int /\ k < half
      BY <3>1, <3>2
    <3> QED BY <3>3, <3>4, <3>5 DEF Of
  <2>5. \A i \in 1 .. n : numbers(ranges[i]) \subseteq 0 .. Width - 1
    <3> SUFFICES ASSUME NEW i \in 1 .. n PROVE numbers(ranges[i]) \subseteq 0 .. Width - 1
      OBVIOUS
    <3>1. ranges[i][1] \in 0 .. Width - 1 /\ ranges[i][2] \in 0 .. Width - 1 /\ Width \in Nat
      BY <2>3 DEF PathsAssumption
    <3> QED BY <3>1 DEF numbers
  <2> DEFINE all == {p \in [1 .. n -> 0 .. Width - 1] : \A i \in 1 .. n : p[i] \in numbers(ranges[i])}
  <2>6. ASSUME NEW p, Under(p, <<>>, ranges) PROVE p \in all
    <3>1. p \in Seq(Int) /\ Len(p) = n /\ \A i \in 1 .. n : Of(p[i], ranges[i])
      <4>1. Len(<<>>) = 0 /\ \A i \in 1 .. n : 0 + i = i
        BY <2>3
      <4>2. 0 + n = n
        BY <2>3
      <4> QED BY <2>6, <4>1, <4>2 DEF Under, n
    <3>2. p \in [1 .. n -> Int]
      BY <3>1
    <3>3. \A i \in 1 .. n : p[i] \in numbers(ranges[i]) /\ p[i] \in 0 .. Width - 1
      BY <2>4, <2>5, <3>1
    <3> QED BY <3>2, <3>3
  <2>7. ASSUME NEW p \in all PROVE Under(p, <<>>, ranges)
    <3>1. p \in [1 .. n -> Int] /\ \A i \in 1 .. n : p[i] \in numbers(ranges[i])
      BY DEF PathsAssumption
    <3>2. p \in Seq(Int) /\ Len(p) = n
      BY <2>3, <3>1, MakesSeq
    <3>3. \A i \in 1 .. n : Of(p[i], ranges[i])
      BY <2>4, <3>1
    <3>4. Len(<<>>) = 0 /\ (\A i \in 1 .. n : 0 + i = i) /\ 0 + n = n /\ \A i : ~(i \in 1 .. 0)
      BY <2>3
    <3> QED BY <3>2, <3>3, <3>4 DEF Under, n
  <2>8. Range(g) = all
    BY <2>2, <2>6, <2>7
  <2>9. ASSUME NEW i \in 1 .. Len(g) - 1 PROVE before(g[i], g[i + 1])
    <3>1. Len(g) \in Nat
      BY <2>2
    <3>2. i \in 1 .. Len(g) /\ i + 1 \in 1 .. Len(g) /\ i < i + 1
      BY <3>1
    <3> QED BY <2>2, <3>2 DEF Ordered
  <2> QED BY <2>3, <2>8, <2>9 DEF g
<1> QED BY <1>1, StaysListed, PTL

-----------------------------------------------------------------------------
(* The turns.                                                              *)

\* the index that follows i, and the one given last
after(i) == IF i + 1 = Len(g_path_vector) THEN 0 ELSE i + 1
latest == given[Len(given)]

\* one worker at most is between the lock and the unlock
Locked ==
  /\ expanded \in {"no", "error", "yes"} /\ (expanded # "yes" => given = <<>>)
  /\ path_pc \in [Workers -> {"out", "locked", "index", "bump", "unlock"}]
  /\ \A w \in Workers : path_pc[w] # "out" => mutex = w /\ expanded = "yes"

\* where the index is, for the worker that has the lock
Round ==
  /\ expanded = "yes" => Len(g_path_vector) \in Nat \ {0}
  /\ expanded # "yes" => g_path_vector_last_idx = 0
  /\ g_path_vector_last_idx \in 0 .. Len(g_path_vector) /\ given \in Seq(Int)
  /\ \A w \in Workers : path_pc[w] = "index" =>
       /\ g_path_vector_last_idx < Len(g_path_vector)
       /\ given # <<>> => g_path_vector_last_idx = after(latest)
  /\ \A w \in Workers : path_pc[w] = "bump" => given # <<>> /\ g_path_vector_last_idx = latest
  /\ (\A w \in Workers : path_pc[w] \notin {"index", "bump"}) /\ given # <<>> =>
       g_path_vector_last_idx = latest + 1

\* the invariant
Turns == Locked /\ Round /\ InTurn

\* Expand makes a path at least
LEMMA Exploding ==
  ASSUME PathsAssumption, Listed, Expand
  PROVE  Len(g_path_vector') \in Nat \ {0}
<1>1. ranges \in Seq(Ranges) /\ <<>> \in Seq(Int)
  BY DEF Listed
<1>2. Whole(ranges)
  <2> SUFFICES ASSUME NEW i \in 1 .. Len(ranges) PROVE ranges[i][1] <= ranges[i][2]
    BY DEF Whole
  <2>1. ~(ranges[i][1] > ranges[i][2]) /\ ranges[i] \in Ranges
    BY DEF Expand, bad, Listed
  <2> QED BY <2>1 DEF PathsAssumption
<1>3. Exploded(<<>>, ranges) /\ g_path_vector' = path_exploder(<<>>, ranges)
  BY <1>1, <1>2, Explosion DEF Expand
<1>4. g_path_vector' \in Seq(Seq(Int)) /\ g_path_vector' # <<>>
  BY <1>3 DEF Exploded
<1> QED BY <1>4

\* another path is given
LEMMA Gives ==
  ASSUME Round, InTurn, NEW w \in Workers, path_pc[w] = "index", expanded = "yes",
         given' = Append(given, g_path_vector_last_idx), g_path_vector' = g_path_vector
  PROVE  /\ given' \in Seq(Int) /\ given' # <<>> /\ given'[Len(given')] = g_path_vector_last_idx
         /\ InTurn'
<1> DEFINE k == Len(given)
           n == Len(g_path_vector)
           i == g_path_vector_last_idx
           ng == given'
<1>1. /\ given \in Seq(Int) /\ k \in Nat /\ DOMAIN given = 1 .. k /\ (given # <<>> <=> k # 0)
      /\ n \in Nat \ {0} /\ i \in 0 .. n - 1
      /\ given # <<>> => i = after(given[k])
  BY DEF Round, latest
<1>2. i \in Int
  BY <1>1
<1>3. /\ ng \in Seq(Int) /\ Len(ng) = k + 1 /\ ng[k + 1] = i
      /\ \A j \in 1 .. k : ng[j] = given[j]
  BY <1>1, <1>2, Appended
<1>4. DOMAIN ng = 1 .. k + 1
  BY <1>3
<1>5. /\ \A j \in 1 .. k : given[j] \in 0 .. n - 1
      /\ \A j \in 2 .. k : given[j] = after(given[j - 1])
  BY <1>1 DEF InTurn, after
<1>6. given' = ng /\ Len(g_path_vector') = n /\ \A j : after(j) = IF j + 1 = n THEN 0 ELSE j + 1
  BY DEF after
<1> HIDE DEF k, n, i, ng
<1>7. ASSUME NEW j \in 1 .. k + 1 PROVE ng[j] \in 0 .. n - 1
  <2>1. j \in 1 .. k \/ j = k + 1
    BY <1>1
  <2> QED BY <1>1, <1>3, <1>5, <2>1
<1>8. ASSUME NEW j \in 2 .. k + 1 PROVE ng[j] = after(ng[j - 1])
  <2>1. CASE j \in 2 .. k
    <3>1. j \in 1 .. k /\ j - 1 \in 1 .. k
      BY <1>1, <2>1
    <3> QED BY <1>3, <1>5, <2>1, <3>1
  <2>2. CASE j = k + 1
    <3>1. k \in 1 .. k /\ j - 1 = k /\ k # 0
      BY <1>1, <2>2
    <3> QED BY <1>1, <1>3, <2>2, <3>1
  <2>3. j \in 2 .. k \/ j = k + 1
    BY <1>1
  <2> QED BY <2>1, <2>2, <2>3
<1>9. InTurn'
  <2>1. \A j \in 2 .. k + 1 : ng[j] = IF ng[j - 1] + 1 = n THEN 0 ELSE ng[j - 1] + 1
    BY <1>6, <1>8
  <2>2. InTurn' <=> /\ \A j \in DOMAIN ng : ng[j] \in 0 .. n - 1
                    /\ \A j \in 2 .. Len(ng) : ng[j] = IF ng[j - 1] + 1 = n THEN 0 ELSE ng[j - 1] + 1
    BY <1>6 DEF InTurn
  <2> QED BY <1>3, <1>4, <1>7, <2>1, <2>2
<1>10. ng # <<>>
  BY <1>1, <1>3
<1> QED BY <1>3, <1>6, <1>9, <1>10 DEF i

\* the mutex keeps the workers apart
LEMMA StaysLocked ==
  ASSUME PathsAssumption, Locked, PathsNext
  PROVE  Locked'
<1>1. CASE BadRange \/ Expand
  BY <1>1 DEF BadRange, Expand, Locked, worker
<1>2. ASSUME NEW w \in Workers, Lock(w) PROVE Locked'
  BY <1>2 DEF Lock, free, Goes, Locked, PathsAssumption
<1>3. ASSUME NEW w \in Workers, Rollover(w) PROVE Locked'
  BY <1>3 DEF Rollover, Goes, Locked
<1>4. ASSUME NEW w \in Workers, Index(w) PROVE Locked'
  BY <1>4 DEF Index, Goes, Locked
<1>5. ASSUME NEW w \in Workers, Bump(w) PROVE Locked'
  BY <1>5 DEF Bump, Goes, Locked
<1>6. ASSUME NEW w \in Workers, Unlock(w) PROVE Locked'
  BY <1>6 DEF Unlock, Goes, Locked
<1> QED BY <1>1, <1>2, <1>3, <1>4, <1>5, <1>6 DEF PathsNext

\* pc of the others while one is inside
LEMMA Alone ==
  ASSUME Locked, NEW w \in Workers, path_pc[w] # "out"
  PROVE  \A v \in Workers : v # w => path_pc[v] = "out"
BY DEF Locked

\* the steps of get_path keep the round
LEMMA StaysTurns ==
  ASSUME PathsAssumption, Listed, Turns, [PathsNext]_path_vars
  PROVE  Turns'
<1> USE DEF Turns
<1>1. CASE BadRange
  <2>1. Locked'
    BY <1>1, StaysLocked DEF PathsNext
  <2>2. Round' /\ InTurn'
    BY <1>1 DEF BadRange, Round, InTurn, worker, after, latest
  <2> QED BY <2>1, <2>2
<1>2. CASE Expand
  <2>1. Locked'
    BY <1>2, StaysLocked DEF PathsNext
  <2>2. Len(g_path_vector') \in Nat \ {0}
    BY <1>2, Exploding
  <2>3. given = <<>> /\ given' = given /\ path_pc' = path_pc /\ expanded # "yes" /\ expanded' = "yes"
        /\ g_path_vector_last_idx' = 0 /\ \A w \in Workers : path_pc[w] = "out"
    BY <1>2 DEF Expand, worker, Locked, Round
  <2>4. Round'
    BY <2>2, <2>3 DEF Round
  <2>5. InTurn'
    BY <2>3 DEF InTurn
  <2> QED BY <2>1, <2>4, <2>5
<1>3. ASSUME NEW w \in Workers, Lock(w) \/ Rollover(w) \/ Index(w) \/ Bump(w) \/ Unlock(w) PROVE Turns'
  <2>1. Locked'
    BY <1>3, StaysLocked DEF PathsNext
  <2>2. expanded = "yes" /\ expanded' = "yes" /\ g_path_vector' = g_path_vector
        /\ Len(g_path_vector) \in Nat \ {0}
    BY <1>3 DEF Lock, Rollover, Index, Bump, Unlock, Goes, Locked, Round
  <2>3. CASE Lock(w)
    <3>1. given' = given /\ g_path_vector_last_idx' = g_path_vector_last_idx
          /\ path_pc' = [path_pc EXCEPT ![w] = "locked"] /\ path_pc[w] = "out"
      BY <2>3 DEF Lock, Goes
    <3>2. \A v \in Workers : path_pc[v] = "out"
      BY <2>3 DEF Lock, free, Locked, PathsAssumption
    <3>3. \A v \in Workers : path_pc'[v] \notin {"index", "bump"} /\ path_pc[v] \notin {"index", "bump"}
      BY <3>1, <3>2 DEF Locked
    <3>4. Round'
      BY <2>2, <3>1, <3>3 DEF Round, latest
    <3>5. InTurn'
      BY <2>2, <3>1 DEF InTurn
    <3> QED BY <2>1, <3>4, <3>5
  <2>4. CASE Rollover(w)
    <3>1. given' = given /\ path_pc[w] = "locked" /\ path_pc' = [path_pc EXCEPT ![w] = "index"]
          /\ g_path_vector_last_idx' =
               IF g_path_vector_last_idx >= Len(g_path_vector) THEN 0 ELSE g_path_vector_last_idx
      BY <2>4 DEF Rollover, Goes
    <3>2. \A v \in Workers : path_pc[v] \notin {"index", "bump"}
      BY <3>1, Alone
    <3>3. path_pc'[w] = "index" /\ \A v \in Workers : path_pc'[v] # "bump"
      BY <3>1, <3>2 DEF Locked
    <3>4. given # <<>> => g_path_vector_last_idx = latest + 1 /\ latest \in Int
      <4>1. given # <<>> => latest \in Int
        BY DEF Round, latest
      <4> QED BY <3>2, <4>1 DEF Round
    <3>5. /\ g_path_vector_last_idx' \in 0 .. Len(g_path_vector) - 1
          /\ given # <<>> => g_path_vector_last_idx' = after(latest)
      BY <2>2, <3>1, <3>4 DEF Round, after
    <3>6. Round'
      <4>1. after(latest)' = after(latest) /\ Len(g_path_vector)' = Len(g_path_vector)
        BY <2>2, <3>1 DEF after, latest
      <4>2. g_path_vector_last_idx' \in 0 .. Len(g_path_vector)
            /\ g_path_vector_last_idx' < Len(g_path_vector)
        BY <2>2, <3>5
      <4> QED BY <2>2, <3>1, <3>3, <3>5, <4>1, <4>2 DEF Round
    <3>7. InTurn'
      BY <2>2, <3>1 DEF InTurn
    <3> QED BY <2>1, <3>6, <3>7
  <2>5. CASE Index(w)
    <3>1. given' = Append(given, g_path_vector_last_idx) /\ path_pc[w] = "index"
          /\ path_pc' = [path_pc EXCEPT ![w] = "bump"] /\ g_path_vector_last_idx' = g_path_vector_last_idx
      BY <2>5 DEF Index, Goes
    <3>2. given' \in Seq(Int) /\ given' # <<>> /\ latest' = g_path_vector_last_idx /\ InTurn'
      BY <2>2, <3>1, Gives DEF latest
    <3>3. path_pc'[w] = "bump" /\ \A v \in Workers : path_pc'[v] # "index"
      BY <3>1, Alone DEF Locked
    <3>4. Round'
      BY <2>2, <3>1, <3>2, <3>3 DEF Round
    <3> QED BY <2>1, <3>2, <3>4
  <2>6. CASE Bump(w)
    <3>1. given' = given /\ path_pc[w] = "bump" /\ path_pc' = [path_pc EXCEPT ![w] = "unlock"]
          /\ g_path_vector_last_idx' = g_path_vector_last_idx + 1
      BY <2>6 DEF Bump, Goes
    <3>2. \A v \in Workers : path_pc'[v] \notin {"index", "bump"}
      BY <3>1, Alone DEF Locked
    <3>3. given # <<>> /\ g_path_vector_last_idx = latest /\ given \in Seq(Int)
      BY <3>1 DEF Round
    <3>4. latest \in 0 .. Len(g_path_vector) - 1
      <4>1. Len(given) \in DOMAIN given
        BY <3>3
      <4> QED BY <4>1 DEF InTurn, latest
    <3>5. g_path_vector_last_idx' = latest + 1 /\ latest + 1 \in 0 .. Len(g_path_vector)
      BY <2>2, <3>1, <3>3, <3>4
    <3>6. Round'
      BY <2>2, <3>1, <3>2, <3>3, <3>5 DEF Round, latest
    <3>7. InTurn'
      BY <2>2, <3>1 DEF InTurn
    <3> QED BY <2>1, <3>6, <3>7
  <2>7. CASE Unlock(w)
    <3>1. given' = given /\ path_pc[w] = "unlock" /\ path_pc' = [path_pc EXCEPT ![w] = "out"]
          /\ g_path_vector_last_idx' = g_path_vector_last_idx
      BY <2>7 DEF Unlock, Goes
    <3>2. \A v \in Workers : path_pc'[v] \notin {"index", "bump"} /\ path_pc[v] \notin {"index", "bump"}
      BY <3>1, Alone DEF Locked
    <3>3. Round'
      BY <2>2, <3>1, <3>2 DEF Round, latest
    <3>4. InTurn'
      BY <2>2, <3>1 DEF InTurn
    <3> QED BY <2>1, <3>3, <3>4
  <2> QED BY <1>3, <2>3, <2>4, <2>5, <2>6, <2>7
<1>4. CASE UNCHANGED path_vars
  BY <1>4 DEF path_vars, worker, Locked, Round, InTurn, after, latest
<1> QED BY <1>1, <1>2, <1>3, <1>4 DEF PathsNext

\* However many workers call get_path, no index is past the end of the list, and each is the one
\* after the index given before, or the first after the last: the rollover, the use and the
\* increment are under one mutex.
THEOREM InTurnHolds == PathsAssumption => (PathsSpec => []InTurn)
<1> SUFFICES ASSUME PathsAssumption PROVE PathsSpec => []InTurn
  OBVIOUS
<1>1. PathsInit => Turns
  BY DEF PathsInit, Turns, Locked, Round, InTurn
<1>2. Listed /\ Turns /\ [PathsNext]_path_vars => Turns'
  BY StaysTurns
<1>3. Turns => InTurn
  BY DEF Turns
<1> QED BY <1>1, <1>2, <1>3, StaysListed, PTL DEF PathsSpec
=============================================================================
