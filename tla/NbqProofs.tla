----------------------------- MODULE NbqProofs ------------------------------
(***************************************************************************)
(* Theorems about Nbq, for any size of blocks, any bound on the bytes and  *)
(* any bodies: the read block has a byte as long as bytes are left, and    *)
(* every call is a step of a plain queue of bytes.                         *)
(*                                                                         *)
(* The invariant (Shape) says which blocks hold bytes and how far each was *)
(* read.  A call is a few changes of blocks (ReadShape, WriteShape,        *)
(* AddShape, StartShape, ShrinkShape), each of which keeps it; the loops   *)
(* of write and read make such changes until nothing is left, so what they *)
(* compute is by induction on what is left (Writing, Reading).  Where a    *)
(* byte is in the queue is where it is in its block, after the bytes of    *)
(* the blocks before it (Around, PieceAt).                                 *)
(***************************************************************************)
EXTENDS Nbq, SequenceLemmas

-----------------------------------------------------------------------------
(* Bytes.                                                                  *)

\* two pieces of bytes, the one after the other
LEMMA BytesBoth ==
  ASSUME NEW a \in Seq(Nat), NEW b \in Seq(Nat)
  PROVE  a \o b \in Seq(Nat) /\ Len(a \o b) = Len(a) + Len(b) /\ Len(a) \in Nat /\ Len(b) \in Nat
OBVIOUS

\* three pieces: it does not matter which two are joined first (an operator of its own, as are
\* Cuts, PiecesJoin, PieceOfMiddle and Regroup: the provers then see no \o or SubSeq but theirs)
Associate(a, b, c) == (a \o b) \o c = a \o (b \o c)

LEMMA BytesAssoc ==
  ASSUME NEW a \in Seq(Nat), NEW b \in Seq(Nat), NEW c \in Seq(Nat)
  PROVE  Associate(a, b, c)
BY ConcatAssoc DEF Associate

\* the first n bytes, and the others
Cuts(s, n) == s = SubSeq(s, 1, n) \o SubSeq(s, n + 1, Len(s))

\* bytes cut after the first n
LEMMA BytesCut ==
  ASSUME NEW s \in Seq(Nat), NEW n \in Nat, n <= Len(s)
  PROVE  /\ Cuts(s, n)
         /\ SubSeq(s, 1, n) \in Seq(Nat) /\ Len(SubSeq(s, 1, n)) = n
         /\ SubSeq(s, n + 1, Len(s)) \in Seq(Nat) /\ Len(SubSeq(s, n + 1, Len(s))) = Len(s) - n
         /\ Len(s) \in Nat
<1>1. Len(s) \in Nat /\ n \in 0 .. Len(s)
  OBVIOUS
<1>2. Cuts(s, n)
  BY <1>1, CutAt DEF Cuts
<1> QED BY <1>1, <1>2

\* two pieces, the one after the other
PiecesJoin(s, i, j, k) == SubSeq(s, i + 1, j) \o SubSeq(s, j + 1, k) = SubSeq(s, i + 1, k)

\* a piece up to j and the one after it are one piece
LEMMA BytesJoin ==
  ASSUME NEW s \in Seq(Nat), NEW i \in Nat, NEW j \in Nat, NEW k \in Nat,
         i <= j, j <= k, k <= Len(s)
  PROVE  /\ PiecesJoin(s, i, j, k)
         /\ SubSeq(s, i + 1, j) \in Seq(Nat) /\ Len(SubSeq(s, i + 1, j)) = j - i
<1> DEFINE a == SubSeq(s, i + 1, j)
           b == SubSeq(s, j + 1, k)
           c == SubSeq(s, i + 1, k)
<1>0. Len(s) \in Nat
  OBVIOUS
<1>1. a \in Seq(Nat) /\ Len(a) = j - i /\ \A m \in 1 .. j - i : a[m] = s[i + m]
  <2> DEFINE x == i + 1
  <2>1. x \in Nat \ {0} /\ x <= j + 1 /\ j <= Len(s) /\ j - x + 1 = j - i
    BY <1>0
  <2>2. \A m \in Nat : x + m - 1 = i + m
    OBVIOUS
  <2> HIDE DEF x
  <2>3. /\ SubSeq(s, x, j) \in Seq(Nat) /\ Len(SubSeq(s, x, j)) = j - x + 1
        /\ \A m \in 1 .. j - x + 1 : SubSeq(s, x, j)[m] = s[x + m - 1]
    BY <2>1, Piece
  <2>4. \A m \in 1 .. j - i : m \in Nat
    OBVIOUS
  <2> QED BY <2>1, <2>2, <2>3, <2>4 DEF x
<1>2. b \in Seq(Nat) /\ Len(b) = k - j /\ \A m \in 1 .. k - j : b[m] = s[j + m]
  BY <1>0
<1>3. c \in Seq(Nat) /\ Len(c) = k - i /\ \A m \in 1 .. k - i : c[m] = s[i + m]
  BY <1>0
<1> HIDE DEF a, b, c
<1>4. /\ a \o b \in Seq(Nat) /\ Len(a \o b) = Len(a) + Len(b)
      /\ \A m \in 1 .. Len(a) : (a \o b)[m] = a[m]
      /\ \A m \in Len(a) + 1 .. Len(a) + Len(b) : (a \o b)[m] = b[m - Len(a)]
  <2>1. a \in Seq(Nat) /\ b \in Seq(Nat)
    BY <1>1, <1>2
  <2> QED BY <2>1, Concatenated
<1>5. Len(a) = j - i /\ Len(b) = k - j /\ Len(a \o b) = k - i
  BY <1>1, <1>2, <1>4
<1>6. ASSUME NEW m \in 1 .. k - i PROVE (a \o b)[m] = c[m]
  <2>1. CASE m \in 1 .. j - i
    BY <1>1, <1>3, <1>4, <1>5, <2>1
  <2>2. CASE m \in j - i + 1 .. k - i
    <3>1. m - (j - i) \in 1 .. k - j /\ j + (m - (j - i)) = i + m
      BY <2>2
    <3>2. m \in Len(a) + 1 .. Len(a) + Len(b)
      BY <1>5, <2>2
    <3>3. (a \o b)[m] = b[m - (j - i)]
      BY <1>4, <1>5, <3>2
    <3> QED BY <1>2, <1>3, <3>1, <3>3
  <2>3. m \in 1 .. j - i \/ m \in j - i + 1 .. k - i
    OBVIOUS
  <2> QED BY <2>1, <2>2, <2>3
<1>7. a \o b = c
  <2>1. a \o b \in Seq(Nat) /\ c \in Seq(Nat) /\ Len(a \o b) = Len(c)
    BY <1>3, <1>4, <1>5
  <2>2. \A m \in 1 .. Len(a \o b) : (a \o b)[m] = c[m]
    BY <1>5, <1>6
  <2> QED BY <2>1, <2>2, SameSeq
<1> QED BY <1>1, <1>7 DEF PiecesJoin, a, b, c

\* what least computes
LEMMA Least2 ==
  ASSUME NEW m \in Nat, NEW n \in Nat
  PROVE  least(m, n) \in Nat /\ least(m, n) <= m /\ least(m, n) <= n /\ least(m, n) \in {m, n}
BY DEF least

\* a piece of b is that piece of the bytes with a before it and c after it
PieceOfMiddle(a, b, c, m, n) ==
  SubSeq((a \o b) \o c, Len(a) + m, Len(a) + n) = SubSeq(b, m, n)

\* the bytes between a and c are where they were in b
LEMMA BytesPiece ==
  ASSUME NEW a \in Seq(Nat), NEW b \in Seq(Nat), NEW c \in Seq(Nat),
         NEW m \in Nat \ {0}, NEW n \in Nat, m <= n + 1, n <= Len(b)
  PROVE  PieceOfMiddle(a, b, c, m, n)
BY MiddlePiece DEF PieceOfMiddle

\* the first part and the second, cut out of both
TwoParts(a, b) ==
  SubSeq(a \o b, 1, Len(a)) = a /\ SubSeq(a \o b, Len(a) + 1, Len(a) + Len(b)) = b

\* both are cut out of the two again
LEMMA BytesParts ==
  ASSUME NEW a \in Seq(Nat), NEW b \in Seq(Nat)
  PROVE  TwoParts(a, b)
<1> DEFINE t == a \o b
           k == Len(a)
           l == Len(b)
           m == k + 1
           n == k + l
           u == SubSeq(t, 1, k)
           v == SubSeq(t, m, n)
<1>0. k \in Nat /\ l \in Nat
  OBVIOUS
<1>1. /\ t \in Seq(Nat) /\ Len(t) = n
      /\ \A j \in 1 .. k : t[j] = a[j]
      /\ \A j \in m .. n : t[j] = b[j - k]
  BY Concatenated
<1> HIDE DEF t
<1>2. u \in Seq(Nat) /\ Len(u) = k /\ \A i \in 1 .. k : u[i] = t[1 + i - 1]
  <2>1. 1 \in Nat \ {0} /\ 1 <= k + 1 /\ k <= Len(t) /\ k - 1 + 1 = k
    BY <1>0, <1>1
  <2> HIDE DEF k, n
  <2> QED BY <1>0, <1>1, <2>1, Piece
<1>3. v \in Seq(Nat) /\ Len(v) = l /\ \A i \in 1 .. l : v[i] = t[m + i - 1]
  <2>1. m \in Nat \ {0} /\ m <= n + 1 /\ n <= Len(t) /\ n \in Nat /\ n - m + 1 = l
    BY <1>0, <1>1
  <2> HIDE DEF m, n, k
  <2> QED BY <1>1, <2>1, Piece
<1> HIDE DEF u, v
<1>4. u = a
  <2>1. \A i \in 1 .. Len(u) : u[i] = a[i]
    BY <1>0, <1>1, <1>2
  <2> QED BY <1>2, <2>1, SameSeq
<1>5. v = b
  <2>1. ASSUME NEW i \in 1 .. Len(v) PROVE v[i] = b[i]
    <3>1. m + i - 1 \in m .. n /\ (m + i - 1) - k = i
      BY <1>0, <1>3
    <3> HIDE DEF k, m, n
    <3> QED BY <1>1, <1>3, <3>1
  <2> QED BY <1>3, <2>1, SameSeq
<1> QED BY <1>4, <1>5 DEF TwoParts, u, v, t

-----------------------------------------------------------------------------
(* Blocks and what is written to them.                                     *)

\* a block: what was read was written, what was written fits; one without room is a reference
BlockT ==
  {blk \in [data : Seq(Nat), len : Nat, read : Nat, ref : BOOLEAN] :
     /\ blk.read <= Len(blk.data) /\ Len(blk.data) <= blk.len
     /\ blk.len > 0 \/ blk.ref}

\* its fields
LEMMA BlockIs ==
  ASSUME NEW blk \in BlockT
  PROVE  /\ blk.data \in Seq(Nat) /\ blk.len \in Nat /\ blk.read \in Nat /\ blk.ref \in BOOLEAN
         /\ Len(blk.data) \in Nat /\ blk.read <= Len(blk.data) /\ Len(blk.data) <= blk.len
         /\ blk.len > 0 \/ blk.ref
BY DEF BlockT

\* the fields of a block
HasFields(c, d, l, n, r) ==
  /\ c.data = d /\ c.len = l /\ c.read = n /\ c.ref = r
  /\ c \in [data : Seq(Nat), len : Nat, read : Nat, ref : BOOLEAN]

\* a record with such fields has them
LEMMA BlockOf ==
  ASSUME NEW d \in Seq(Nat), NEW l \in Nat, NEW n \in Nat, NEW r \in BOOLEAN
  PROVE  HasFields([data |-> d, len |-> l, read |-> n, ref |-> r], d, l, n, r)
BY DEF HasFields

\* a block of a queue
LEMMA BlockAt ==
  ASSUME NEW q \in Seq(BlockT), NEW i \in 1 .. Len(q)
  PROVE  /\ q[i] \in BlockT
         /\ q[i].data \in Seq(Nat) /\ q[i].len \in Nat /\ q[i].read \in Nat /\ q[i].ref \in BOOLEAN
         /\ Len(q[i].data) \in Nat /\ q[i].read <= Len(q[i].data) /\ Len(q[i].data) <= q[i].len
<1>1. q[i] \in BlockT
  OBVIOUS
<1> DEFINE blk == q[i]
<1> HIDE DEF blk
<1>2. blk \in BlockT
  BY <1>1 DEF blk
<1>3. /\ blk.data \in Seq(Nat) /\ blk.len \in Nat /\ blk.read \in Nat /\ blk.ref \in BOOLEAN
      /\ Len(blk.data) \in Nat /\ blk.read <= Len(blk.data) /\ Len(blk.data) <= blk.len
  BY <1>2, BlockIs
<1> QED BY <1>2, <1>3 DEF blk

\* the bytes of each block
Data(q) == [i \in DOMAIN q |-> q[i].data]

\* are what written flattens
LEMMA DataOf ==
  ASSUME NEW q \in Seq(BlockT)
  PROVE  /\ Data(q) \in Seq(Seq(Nat)) /\ Len(Data(q)) = Len(q) /\ written(q) = FlattenSeq(Data(q))
         /\ \A i \in 1 .. Len(q) : Data(q)[i] = q[i].data
<1> DEFINE n == Len(q)
<1>1. n \in Nat /\ DOMAIN q = 1 .. n
  OBVIOUS
<1>2. \A i \in 1 .. n : q[i].data \in Seq(Nat)
  BY BlockAt
<1> HIDE DEF n
<1>3. Data(q) = [i \in 1 .. n |-> q[i].data]
  BY <1>1 DEF Data
<1>4. Data(q) \in Seq(Seq(Nat)) /\ Len(Data(q)) = n /\ \A i \in 1 .. n : Data(q)[i] = q[i].data
  <2> DEFINE x(i) == q[i].data
  <2>1. \A i \in 1 .. n : x(i) \in Seq(Nat)
    BY <1>2
  <2>2. Data(q) = [i \in 1 .. n |-> x(i)]
    BY <1>3
  <2> HIDE DEF x
  <2>3. Data(q) \in Seq(Seq(Nat)) /\ Len(Data(q)) = n /\ \A i \in 1 .. n : Data(q)[i] = x(i)
    BY <1>1, <2>1, <2>2
  <2> QED BY <2>3 DEF x
<1>5. written(q) = FlattenSeq(Data(q))
  BY DEF written, Data
<1> QED BY <1>4, <1>5 DEF n

\* what is written to blocks are bytes
LEMMA WrittenType ==
  ASSUME NEW q \in Seq(BlockT)
  PROVE  written(q) \in Seq(Nat) /\ Len(written(q)) \in Nat
<1>1. written(q) \in Seq(Nat)
  BY DataOf, FlattenType
<1> QED BY <1>1

\* nothing to none
LEMMA WrittenNone == written(<<>>) = <<>>
<1>1. [i \in DOMAIN <<>> |-> <<>>[i].data] = <<>>
  OBVIOUS
<1> QED BY <1>1, FlattenNone DEF written

\* blocks with the same bytes
LEMMA WrittenSame ==
  ASSUME NEW q \in Seq(BlockT), NEW r \in Seq(BlockT), Len(q) = Len(r),
         \A i \in 1 .. Len(q) : q[i].data = r[i].data
  PROVE  written(q) = written(r)
<1>1. /\ Data(q) \in Seq(Seq(Nat)) /\ Len(Data(q)) = Len(q)
      /\ \A i \in 1 .. Len(q) : Data(q)[i] = q[i].data
  BY DataOf
<1>2. /\ Data(r) \in Seq(Seq(Nat)) /\ Len(Data(r)) = Len(q)
      /\ \A i \in 1 .. Len(q) : Data(r)[i] = r[i].data
  BY DataOf
<1>3. Data(q) = Data(r)
  <2>1. \A i \in 1 .. Len(Data(q)) : Data(q)[i] = Data(r)[i]
    BY <1>1, <1>2
  <2>2. Data(q) \in Seq(Seq(Nat)) /\ Data(r) \in Seq(Seq(Nat)) /\ Len(Data(q)) = Len(Data(r))
    BY <1>1, <1>2
  <2> QED BY <2>1, <2>2, SameSeq, Zenon
<1> QED BY <1>3, DataOf

\* to blocks and those after them, the bytes of the ones and of the others
LEMMA WrittenBoth ==
  ASSUME NEW q \in Seq(BlockT), NEW r \in Seq(BlockT)
  PROVE  q \o r \in Seq(BlockT) /\ written(q \o r) = written(q) \o written(r)
<1> DEFINE t == q \o r
           a == Data(q)
           b == Data(r)
           m == Len(q)
           n == Len(r)
<1>0. m \in Nat /\ n \in Nat
  OBVIOUS
<1>1. /\ t \in Seq(BlockT) /\ Len(t) = m + n
      /\ \A j \in 1 .. m : t[j] = q[j]
      /\ \A j \in m + 1 .. m + n : t[j] = r[j - m]
  BY Concatenated
<1>2. a \in Seq(Seq(Nat)) /\ Len(a) = m /\ \A i \in 1 .. m : a[i] = q[i].data
  BY DataOf
<1>3. b \in Seq(Seq(Nat)) /\ Len(b) = n /\ \A i \in 1 .. n : b[i] = r[i].data
  BY DataOf
<1> HIDE DEF t, a, b
<1>4. /\ a \o b \in Seq(Seq(Nat)) /\ Len(a \o b) = Len(a) + Len(b)
      /\ \A j \in 1 .. Len(a) : (a \o b)[j] = a[j]
      /\ \A j \in Len(a) + 1 .. Len(a) + Len(b) : (a \o b)[j] = b[j - Len(a)]
  <2>1. a \in Seq(Seq(Nat)) /\ b \in Seq(Seq(Nat))
    BY <1>2, <1>3
  <2> QED BY <2>1, Concatenated
<1>5. Data(t) \in Seq(Seq(Nat)) /\ Len(Data(t)) = m + n /\ \A i \in 1 .. m + n : Data(t)[i] = t[i].data
  BY <1>1, DataOf
<1> HIDE DEF m, n
<1>6. Data(t) = a \o b
  <2>1. ASSUME NEW i \in 1 .. m + n PROVE Data(t)[i] = (a \o b)[i]
    <3>1. CASE i \in 1 .. m
      <4>1. t[i] = q[i] /\ a[i] = q[i].data /\ (a \o b)[i] = a[i]
        BY <1>1, <1>2, <1>4, <3>1, Zenon
      <4> QED BY <1>5, <4>1, Zenon
    <3>2. CASE i \in m + 1 .. m + n
      <4>1. i - m \in 1 .. n
        BY <1>0, <3>2
      <4>2. t[i] = r[i - m] /\ b[i - m] = r[i - m].data
        BY <1>1, <1>3, <3>2, <4>1, Zenon
      <4>3. (a \o b)[i] = b[i - m]
        BY <1>2, <1>3, <1>4, <3>2, Zenon
      <4> QED BY <1>5, <4>2, <4>3, Zenon
    <3>3. i \in 1 .. m \/ i \in m + 1 .. m + n
      BY <1>0
    <3> QED BY <3>1, <3>2, <3>3
  <2>2. Len(a \o b) = m + n /\ a \o b \in Seq(Seq(Nat))
    BY <1>2, <1>3, <1>4
  <2> QED BY <1>5, <2>1, <2>2, SameSeq
<1>7. FlattenSeq(a \o b) = FlattenSeq(a) \o FlattenSeq(b)
  BY <1>2, <1>3, FlattenBoth
<1>8. written(t) = FlattenSeq(Data(t))
  BY <1>1, DataOf
<1>9. written(q) = FlattenSeq(a) /\ written(r) = FlattenSeq(b)
  BY DataOf DEF a, b
<1> QED BY <1>1, <1>6, <1>7, <1>8, <1>9 DEF t

\* to one block, its bytes
LEMMA WrittenOne ==
  ASSUME NEW blk \in BlockT
  PROVE  <<blk>> \in Seq(BlockT) /\ written(<<blk>>) = blk.data
<1> DEFINE q == <<blk>>
<1>1. q \in Seq(BlockT) /\ Len(q) = 1 /\ q[1] = blk
  OBVIOUS
<1>0. blk.data \in Seq(Nat)
  BY BlockIs
<1> HIDE DEF q
<1>2. Data(q) \in Seq(Seq(Nat)) /\ Len(Data(q)) = 1 /\ Data(q)[1] = blk.data
  <2>1. /\ Data(q) \in Seq(Seq(Nat)) /\ Len(Data(q)) = Len(q)
        /\ \A i \in 1 .. Len(q) : Data(q)[i] = q[i].data
    BY <1>1, DataOf
  <2>2. 1 \in 1 .. 1
    OBVIOUS
  <2> QED BY <1>1, <2>1, <2>2
<1>3. Data(q) = Append(<<>>, blk.data) /\ <<>> \in Seq(Seq(Nat))
  BY <1>0, <1>2
<1>4. FlattenSeq(Data(q)) = <<>> \o blk.data
  BY <1>0, <1>3, FlattenSnoc, FlattenNone
<1>5. <<>> \o blk.data = blk.data
  BY <1>0, ConcatEmpty
<1> QED BY <1>1, <1>4, <1>5, DataOf DEF q

\* and one more block adds its bytes
LEMMA WrittenSnoc ==
  ASSUME NEW q \in Seq(BlockT), NEW blk \in BlockT
  PROVE  Append(q, blk) \in Seq(BlockT) /\ written(Append(q, blk)) = written(q) \o blk.data
<1>1. Append(q, blk) = q \o <<blk>> /\ Append(q, blk) \in Seq(BlockT)
  OBVIOUS
<1> QED BY <1>1, WrittenBoth, WrittenOne

\* empty blocks
LEMMA WrittenEmpties ==
  ASSUME NEW q \in Seq(BlockT), \A i \in 1 .. Len(q) : q[i].data = <<>>
  PROVE  written(q) = <<>>
<1>1. Data(q) \in Seq(Seq(Nat)) /\ \A i \in 1 .. Len(Data(q)) : Data(q)[i] = <<>>
  BY DataOf
<1>2. FlattenSeq(Data(q)) = <<>>
  BY <1>1, FlattenEmpties
<1> QED BY <1>2, DataOf

-----------------------------------------------------------------------------
(* A block and what is before and after it.                                *)

\* the bytes of the blocks before block i, and of those after it
Before(q, i) == written(SubSeq(q, 1, i - 1))
Beyond(q, i) == written(SubSeq(q, i + 1, Len(q)))

\* the blocks up to block i are those before it and itself
LEMMA PrefixSnoc ==
  ASSUME NEW q \in Seq(BlockT), NEW i \in 1 .. Len(q)
  PROVE  SubSeq(q, 1, i - 1) \in Seq(BlockT) /\ SubSeq(q, 1, i) = Append(SubSeq(q, 1, i - 1), q[i])
<1>0. Len(q) \in Nat
  OBVIOUS
<1> DEFINE a == SubSeq(q, 1, i)
<1>1. a \in Seq(BlockT) /\ Len(a) = i /\ \A j \in 1 .. i : a[j] = q[j]
  BY <1>0, Piece
<1> DEFINE n == i - 1
<1>2. n \in Nat /\ Len(a) = n + 1
  BY <1>1
<1>3. SubSeq(a, 1, n) = SubSeq(q, 1, n)
  <2>1. i \in 0 .. Len(q) /\ n \in 0 .. i
    BY <1>0
  <2> HIDE DEF n
  <2> QED BY <2>1, PrefixOfPrefix
<1>4. a[n + 1] = q[i]
  BY <1>1
<1> HIDE DEF a, n
<1>5. SubSeq(a, 1, n) \in Seq(BlockT) /\ a = Append(SubSeq(a, 1, n), a[n + 1])
  BY <1>1, <1>2, SnocOf
<1> QED BY <1>3, <1>4, <1>5 DEF a, n

\* the types of both, and how many bytes are before a block
LEMMA Parts ==
  ASSUME NEW q \in Seq(BlockT), NEW i \in 1 .. Len(q)
  PROVE  /\ SubSeq(q, 1, i - 1) \in Seq(BlockT) /\ SubSeq(q, i + 1, Len(q)) \in Seq(BlockT)
         /\ Before(q, i) \in Seq(Nat) /\ Beyond(q, i) \in Seq(Nat)
         /\ Len(Before(q, i)) = held(q, i - 1)
         /\ Len(Before(q, i)) \in Nat /\ Len(Beyond(q, i)) \in Nat
<1>0. Len(q) \in Nat /\ i \in Nat \ {0} /\ i <= Len(q)
  OBVIOUS
<1>1. SubSeq(q, 1, i - 1) \in Seq(BlockT)
  BY PrefixSnoc
<1>2. SubSeq(q, i + 1, Len(q)) \in Seq(BlockT)
  BY <1>0, Piece
<1>3. Before(q, i) \in Seq(Nat) /\ Len(Before(q, i)) \in Nat
  BY <1>1, WrittenType DEF Before
<1>4. Beyond(q, i) \in Seq(Nat) /\ Len(Beyond(q, i)) \in Nat
  BY <1>2, WrittenType DEF Beyond
<1> QED BY <1>1, <1>2, <1>3, <1>4 DEF Before, held

\* block i adds its bytes to those held before it
LEMMA HeldStep ==
  ASSUME NEW q \in Seq(BlockT), NEW i \in 1 .. Len(q)
  PROVE  /\ held(q, i - 1) \in Nat /\ held(q, i) \in Nat
         /\ held(q, i) = held(q, i - 1) + Len(q[i].data)
         /\ written(SubSeq(q, 1, i)) = Before(q, i) \o q[i].data
<1>1. q[i] \in BlockT /\ q[i].data \in Seq(Nat) /\ Len(q[i].data) \in Nat
  BY BlockAt
<1>2. /\ SubSeq(q, 1, i - 1) \in Seq(BlockT) /\ Before(q, i) \in Seq(Nat)
      /\ Len(Before(q, i)) \in Nat /\ Len(Before(q, i)) = held(q, i - 1)
  BY Parts
<1>3. written(SubSeq(q, 1, i)) = Before(q, i) \o q[i].data
  BY <1>1, <1>2, PrefixSnoc, WrittenSnoc DEF Before
<1>4. Len(Before(q, i) \o q[i].data) = Len(Before(q, i)) + Len(q[i].data)
  <2>1. Before(q, i) \in Seq(Nat) /\ q[i].data \in Seq(Nat)
    BY <1>1, <1>2
  <2> QED BY <2>1, BytesBoth
<1>5. held(q, i) = Len(Before(q, i)) + Len(q[i].data)
  BY <1>3, <1>4 DEF held
<1> DEFINE m == Len(Before(q, i))
           n == Len(q[i].data)
<1> HIDE DEF m, n
<1>6. m \in Nat /\ n \in Nat /\ held(q, i - 1) = m /\ held(q, i) = m + n
  BY <1>1, <1>2, <1>5 DEF m, n
<1>7. held(q, i - 1) \in Nat /\ held(q, i) \in Nat
  BY <1>6
<1>8. held(q, i) = held(q, i - 1) + n
  BY <1>6
<1> QED BY <1>3, <1>7, <1>8 DEF n

\* none is held before the first block, all by the last
LEMMA HeldEnds ==
  ASSUME NEW q \in Seq(BlockT)
  PROVE  held(q, 0) = 0 /\ held(q, Len(q)) = Len(written(q))
<1>1. SubSeq(q, 1, 0) = <<>> /\ SubSeq(q, 1, Len(q)) = q
  OBVIOUS
<1>2. Len(<<>>) = 0
  OBVIOUS
<1>3. held(q, 0) = 0
  BY <1>1, <1>2, WrittenNone, Zenon DEF held
<1>4. held(q, Len(q)) = Len(written(q))
  BY <1>1, Zenon DEF held
<1> QED BY <1>3, <1>4

\* the bytes of a queue, around a block
LEMMA Around ==
  ASSUME NEW q \in Seq(BlockT), NEW i \in 1 .. Len(q)
  PROVE  /\ written(q) = (Before(q, i) \o q[i].data) \o Beyond(q, i)
         /\ Len(written(q)) = held(q, i) + Len(Beyond(q, i))
         /\ Len(written(q)) = held(q, i - 1) + Len(q[i].data) + Len(Beyond(q, i))
<1>0. i \in 0 .. Len(q)
  OBVIOUS
<1>1. q = SubSeq(q, 1, i) \o SubSeq(q, i + 1, Len(q))
  BY <1>0, CutAt
<1>2. SubSeq(q, 1, i - 1) \in Seq(BlockT) /\ SubSeq(q, i + 1, Len(q)) \in Seq(BlockT)
  BY Parts
<1>3. SubSeq(q, 1, i) \in Seq(BlockT)
  BY <1>0, Piece
<1>4. written(q) = written(SubSeq(q, 1, i)) \o written(SubSeq(q, i + 1, Len(q)))
  BY <1>1, <1>2, <1>3, WrittenBoth
<1>5. Len(written(q)) = held(q, i) + Len(Beyond(q, i))
  <2>1. written(SubSeq(q, 1, i)) \in Seq(Nat) /\ written(SubSeq(q, i + 1, Len(q))) \in Seq(Nat)
    BY <1>2, <1>3, WrittenType
  <2> QED BY <1>4, <2>1, Concatenated DEF held, Beyond
<1>6. written(q) = (Before(q, i) \o q[i].data) \o Beyond(q, i)
  BY <1>4, HeldStep DEF Beyond
<1>7. held(q, i) = held(q, i - 1) + Len(q[i].data)
  BY HeldStep
<1> QED BY <1>5, <1>6, <1>7

\* a piece of a block is a piece of the bytes
LEMMA PieceAt ==
  ASSUME NEW q \in Seq(BlockT), NEW i \in 1 .. Len(q), NEW r \in Nat, NEW n \in Nat,
         r + n <= Len(q[i].data)
  PROVE  SubSeq(q[i].data, r + 1, r + n)
           = SubSeq(written(q), held(q, i - 1) + r + 1, held(q, i - 1) + r + n)
<1> DEFINE a == Before(q, i)
           d == q[i].data
           c == Beyond(q, i)
           m == r + 1
           k == r + n
<1>1. a \in Seq(Nat) /\ c \in Seq(Nat) /\ Len(a) = held(q, i - 1) /\ Len(a) \in Nat
  BY Parts
<1>2. d \in Seq(Nat) /\ Len(d) \in Nat
  BY BlockAt
<1>3. written(q) = (a \o d) \o c
  BY Around
<1>4. m \in Nat \ {0} /\ k \in Nat /\ m <= k + 1 /\ k <= Len(d)
  BY <1>2
<1>5. held(q, i - 1) + r + 1 = Len(a) + m /\ held(q, i - 1) + r + n = Len(a) + k
  BY <1>1
<1> HIDE DEF a, d, c, m, k
<1>6. PieceOfMiddle(a, d, c, m, k)
  <2>1. a \in Seq(Nat) /\ d \in Seq(Nat) /\ c \in Seq(Nat)
    BY <1>1, <1>2
  <2>2. m \in Nat \ {0} /\ k \in Nat /\ m <= k + 1 /\ k <= Len(d)
    BY <1>4
  <2> QED BY <2>1, <2>2, BytesPiece
<1>7. SubSeq(written(q), Len(a) + m, Len(a) + k) = SubSeq(d, m, k)
  BY <1>3, <1>6, Zenon DEF PieceOfMiddle
<1> QED BY <1>5, <1>7, Zenon DEF d, m, k

\* nothing is written after a block if all blocks there are empty
LEMMA BeyondEmpty ==
  ASSUME NEW q \in Seq(BlockT), NEW i \in 0 .. Len(q),
         \A j \in 1 .. Len(q) : j > i => q[j].data = <<>>
  PROVE  Beyond(q, i) = <<>>
<1> DEFINE m == i + 1
           n == Len(q)
           a == SubSeq(q, m, n)
<1>0. n \in Nat /\ m \in Nat \ {0} /\ m <= n + 1 /\ n <= Len(q)
  OBVIOUS
<1> HIDE DEF m, n
<1>1. a \in Seq(BlockT) /\ Len(a) = n - m + 1 /\ \A j \in 1 .. n - m + 1 : a[j] = q[m + j - 1]
  BY <1>0, Piece
<1> HIDE DEF a
<1>2. ASSUME NEW j \in 1 .. Len(a) PROVE a[j].data = <<>>
  <2>1. j \in 1 .. n - m + 1 /\ m + j - 1 \in 1 .. n /\ m + j - 1 > i
    BY <1>0, <1>1 DEF m
  <2>2. a[j] = q[m + j - 1] /\ q[m + j - 1].data = <<>>
    BY <1>1, <2>1 DEF n
  <2> QED BY <2>2
<1>3. written(a) = <<>>
  BY <1>1, <1>2, WrittenEmpties
<1> QED BY <1>3 DEF Beyond, a, m, n

\* a queue with one block changed
LEMMA Changed ==
  ASSUME NEW T, NEW q \in Seq(T), NEW i \in 1 .. Len(q), NEW x \in T
  PROVE  /\ [q EXCEPT ![i] = x] \in Seq(T) /\ Len([q EXCEPT ![i] = x]) = Len(q)
         /\ [q EXCEPT ![i] = x][i] = x
         /\ \A j \in 1 .. Len(q) : j # i => [q EXCEPT ![i] = x][j] = q[j]
OBVIOUS

\* what is written in front of a block and after it is not changed with it
LEMMA PartsSame ==
  ASSUME NEW q \in Seq(BlockT), NEW r \in Seq(BlockT), Len(q) = Len(r), NEW i \in 1 .. Len(q),
         \A j \in 1 .. Len(q) : j # i => q[j].data = r[j].data
  PROVE  Before(r, i) = Before(q, i) /\ Beyond(r, i) = Beyond(q, i)
<1> DEFINE n == Len(q)
           m == i - 1
           k == i + 1
           a == SubSeq(q, 1, m)
           b == SubSeq(r, 1, m)
           c == SubSeq(q, k, n)
           d == SubSeq(r, k, n)
<1>0. n \in Nat /\ m \in Nat /\ k \in Nat \ {0} /\ k <= n + 1 /\ m <= n /\ 1 <= m + 1
  OBVIOUS
<1> HIDE DEF m, k
<1>1. a \in Seq(BlockT) /\ Len(a) = m /\ \A j \in 1 .. m : a[j] = q[j]
  BY <1>0, Piece
<1>2. b \in Seq(BlockT) /\ Len(b) = m /\ \A j \in 1 .. m : b[j] = r[j]
  BY <1>0, Piece
<1>3. c \in Seq(BlockT) /\ Len(c) = n - k + 1 /\ \A j \in 1 .. n - k + 1 : c[j] = q[k + j - 1]
  BY <1>0, Piece
<1>4. d \in Seq(BlockT) /\ Len(d) = n - k + 1 /\ \A j \in 1 .. n - k + 1 : d[j] = r[k + j - 1]
  BY <1>0, Piece
<1> HIDE DEF a, b, c, d
<1>5. \A j \in 1 .. m : a[j].data = b[j].data
  <2>1. \A j \in 1 .. m : j \in 1 .. n /\ j # i
    BY <1>0 DEF m
  <2> QED BY <1>1, <1>2, <2>1
<1>6. \A j \in 1 .. n - k + 1 : c[j].data = d[j].data
  <2>1. \A j \in 1 .. n - k + 1 : k + j - 1 \in 1 .. n /\ k + j - 1 # i
    BY <1>0 DEF k
  <2> QED BY <1>3, <1>4, <2>1
<1>7. written(a) = written(b)
  BY <1>1, <1>2, <1>5, WrittenSame
<1>8. written(c) = written(d)
  BY <1>3, <1>4, <1>6, WrittenSame
<1> QED BY <1>7, <1>8 DEF Before, Beyond, a, b, c, d, m, k, n

-----------------------------------------------------------------------------
(* The invariant.                                                          *)

\* the blocks with bytes come first; up to the write block and after it
Filled(q, wb) ==
  /\ \A i, j \in 1 .. Len(q) : i < j /\ q[j].data # <<>> => q[i].data # <<>>
  /\ wb # END => \A i \in 1 .. Len(q) :
       /\ q[i].len > 0
       /\ i < wb => q[i].data # <<>>
       /\ i > wb => q[i].data = <<>>

\* the next byte is in block rb, if there is one; the blocks before it were read, the others not
AtRead(q, rb, avail) ==
  /\ rb \in 1 .. Len(q)
  /\ Len(written(q)) = held(q, rb - 1) + q[rb].read + avail
  /\ avail > 0 => q[rb].read < Len(q[rb].data)
  /\ \A i \in 1 .. Len(q) : /\ i < rb => q[i].read = Len(q[i].data)
                            /\ i > rb => q[i].read = 0

\* the state of a queue whose blocks are q, between two calls of it
Shape(q, wb, rb, avail) ==
  /\ q \in Seq(BlockT) /\ wb \in 0 .. Len(q) /\ rb \in 0 .. Len(q) /\ avail \in Nat
  /\ Filled(q, wb)
  /\ rb = END => q = <<>> /\ avail = 0
  /\ rb # END => AtRead(q, rb, avail)
  /\ wb # END => rb <= wb

\* a queue has these fields, and the state above
IsQueue(b) == b = [q |-> b.q, wb |-> b.wb, rb |-> b.rb, off |-> b.off, avail |-> b.avail]
Good(b) == IsQueue(b) /\ Shape(b.q, b.wb, b.rb, b.avail)

-----------------------------------------------------------------------------
(* Consequences.                                                           *)

\* the types of its parts
LEMMA ShapeTypes ==
  ASSUME NEW q, NEW wb, NEW rb, NEW avail, Shape(q, wb, rb, avail)
  PROVE  /\ q \in Seq(BlockT) /\ Len(q) \in Nat
         /\ wb \in Nat /\ wb <= Len(q) /\ rb \in Nat /\ rb <= Len(q) /\ avail \in Nat
<1>1. q \in Seq(BlockT) /\ wb \in 0 .. Len(q) /\ rb \in 0 .. Len(q) /\ avail \in Nat
  BY DEF Shape
<1>2. Len(q) \in Nat
  BY <1>1
<1> DEFINE l == Len(q)
<1> HIDE DEF l
<1>3. l \in Nat /\ wb \in 0 .. l /\ rb \in 0 .. l
  BY <1>1, <1>2 DEF l
<1>4. wb \in Nat /\ wb <= l /\ rb \in Nat /\ rb <= l
  BY <1>3
<1> QED BY <1>1, <1>2, <1>4 DEF l

\* what is left to read is in the read block and in those after it
LEMMA AvailIs ==
  ASSUME NEW q, NEW wb, NEW rb, NEW avail, Shape(q, wb, rb, avail), rb # END
  PROVE  /\ rb \in 1 .. Len(q) /\ q \in Seq(BlockT)
         /\ read_avail(q[rb]) \in Nat /\ Len(Beyond(q, rb)) \in Nat
         /\ avail = read_avail(q[rb]) + Len(Beyond(q, rb))
         /\ rb = wb => avail = read_avail(q[rb])
<1>1. q \in Seq(BlockT) /\ rb \in 1 .. Len(q)
  BY DEF Shape, AtRead
<1>2. /\ q[rb].read \in Nat /\ Len(q[rb].data) \in Nat /\ q[rb].read <= Len(q[rb].data)
  BY <1>1, BlockAt
<1>3. held(q, rb - 1) \in Nat /\ Len(Beyond(q, rb)) \in Nat
  BY <1>1, HeldStep, Parts
<1>4. Len(written(q)) = held(q, rb - 1) + Len(q[rb].data) + Len(Beyond(q, rb))
  BY <1>1, Around
<1>5. Len(written(q)) = held(q, rb - 1) + q[rb].read + avail /\ avail \in Nat
  BY DEF Shape, AtRead
<1>6. read_avail(q[rb]) = Len(q[rb].data) - q[rb].read
  BY DEF read_avail
<1>7. ASSUME rb = wb PROVE Len(Beyond(q, rb)) = 0
  <2>1. \A j \in 1 .. Len(q) : j > rb => q[j].data = <<>>
    BY <1>7 DEF Shape, Filled
  <2>2. rb \in 0 .. Len(q)
    BY <1>1
  <2>3. Beyond(q, rb) = <<>>
    BY <1>1, <2>1, <2>2, BeyondEmpty
  <2> QED BY <2>3
<1> DEFINE m == held(q, rb - 1)
           k == Len(q[rb].data)
           r == q[rb].read
           z == Len(Beyond(q, rb))
<1> HIDE DEF m, k, r, z
<1>8. r \in Nat /\ k \in Nat /\ r <= k /\ m \in Nat /\ z \in Nat /\ avail \in Nat
      /\ m + k + z = m + r + avail /\ read_avail(q[rb]) = k - r
  BY <1>2, <1>3, <1>4, <1>5, <1>6 DEF m, k, r, z
<1>9. read_avail(q[rb]) \in Nat /\ avail = read_avail(q[rb]) + z
  BY <1>8
<1>10. rb = wb => avail = read_avail(q[rb])
  BY <1>7, <1>9 DEF z
<1> QED BY <1>1, <1>3, <1>9, <1>10 DEF z

\* if bytes are left after a block, the next block has some
LEMMA NextHas ==
  ASSUME NEW q \in Seq(BlockT), NEW wb, Filled(q, wb), NEW i \in 1 .. Len(q),
         Beyond(q, i) # <<>>
  PROVE  i + 1 \in 1 .. Len(q) /\ q[i + 1].data # <<>>
<1> SUFFICES ASSUME ~(i + 1 \in 1 .. Len(q) /\ q[i + 1].data # <<>>) PROVE FALSE
  OBVIOUS
<1>0. Len(q) \in Nat
  OBVIOUS
<1>1. ASSUME NEW j \in 1 .. Len(q), j > i, q[j].data # <<>> PROVE FALSE
  <2>1. i + 1 \in 1 .. Len(q) /\ (j = i + 1 \/ i + 1 < j)
    BY <1>0, <1>1
  <2>2. q[i + 1].data # <<>>
    BY <1>1, <2>1 DEF Filled
  <2> QED BY <2>1, <2>2
<1>2. i \in 0 .. Len(q)
  BY <1>0
<1> QED BY <1>1, <1>2, BeyondEmpty

\* b_read_avail is what the read block holds
LEMMA ReadAvail ==
  ASSUME NEW b, Good(b)
  PROVE  /\ b_read_avail(b) = IF b.rb = END THEN 0 ELSE read_avail(b.q[b.rb])
         /\ b_read_avail(b) \in Nat /\ b_read_avail(b) <= b.avail
         /\ b.avail > 0 => b.rb # END /\ b_read_avail(b) > 0
<1>1. Shape(b.q, b.wb, b.rb, b.avail)
  BY DEF Good
<1>2. CASE b.rb = END
  BY <1>1, <1>2 DEF b_read_avail, Shape
<1>3. CASE b.rb # END
  <2>1. /\ b.rb \in 1 .. Len(b.q) /\ b.q \in Seq(BlockT)
        /\ read_avail(b.q[b.rb]) \in Nat /\ Len(Beyond(b.q, b.rb)) \in Nat
        /\ b.avail = read_avail(b.q[b.rb]) + Len(Beyond(b.q, b.rb))
        /\ b.rb = b.wb => b.avail = read_avail(b.q[b.rb])
    BY <1>1, <1>3, AvailIs
  <2>2. b_read_avail(b) = read_avail(b.q[b.rb])
    BY <1>3, <2>1 DEF b_read_avail
  <2>3. b.avail > 0 => b.q[b.rb].read < Len(b.q[b.rb].data)
    BY <1>1, <1>3 DEF Shape, AtRead
  <2>4. b.q[b.rb].read \in Nat /\ Len(b.q[b.rb].data) \in Nat
    BY <2>1, BlockAt
  <2>5. b.avail > 0 => read_avail(b.q[b.rb]) > 0
    BY <2>3, <2>4 DEF read_avail
  <2> DEFINE x == read_avail(b.q[b.rb])
             z == Len(Beyond(b.q, b.rb))
  <2> HIDE DEF x, z
  <2>6. x \in Nat /\ z \in Nat /\ b.avail = x + z /\ b_read_avail(b) = x
    BY <2>1, <2>2 DEF x, z
  <2>7. x <= b.avail
    BY <2>6
  <2> QED BY <1>3, <2>5, <2>6, <2>7 DEF x
<1> QED BY <1>2, <1>3

-----------------------------------------------------------------------------
(* Reading.                                                                *)

\* blocks that hold the same bytes as those of q, in as much room
SameData(q, r) ==
  /\ q \in Seq(BlockT) /\ r \in Seq(BlockT) /\ Len(r) = Len(q)
  /\ \A i \in 1 .. Len(q) : r[i].data = q[i].data /\ r[i].len = q[i].len

\* are written and filled as those of q
LEMMA Same ==
  ASSUME NEW q, NEW r, SameData(q, r)
  PROVE  /\ written(r) = written(q)
         /\ \A i \in 1 .. Len(q) : held(r, i - 1) = held(q, i - 1) /\ held(r, i) = held(q, i)
         /\ \A wb : Filled(q, wb) => Filled(r, wb)
<1>1. written(r) = written(q)
  BY WrittenSame DEF SameData
<1>2. ASSUME NEW i \in 1 .. Len(q) PROVE held(r, i - 1) = held(q, i - 1) /\ held(r, i) = held(q, i)
  <2>0. q \in Seq(BlockT) /\ r \in Seq(BlockT) /\ Len(r) = Len(q) /\ i \in 1 .. Len(r)
    BY DEF SameData
  <2>1. Before(r, i) = Before(q, i)
    BY <2>0, PartsSame DEF SameData
  <2>2. held(r, i - 1) = held(q, i - 1)
    BY <2>0, <2>1, Parts
  <2>3. r[i].data = q[i].data
    BY DEF SameData
  <2>4. held(r, i) = held(q, i)
    BY <2>0, <2>2, <2>3, HeldStep
  <2> QED BY <2>2, <2>4
<1>3. ASSUME NEW wb, Filled(q, wb) PROVE Filled(r, wb)
  BY <1>3 DEF Filled, SameData
<1> QED BY <1>1, <1>2, <1>3

\* a block with n more bytes read
LEMMA BlockRead ==
  ASSUME NEW blk \in BlockT, NEW n \in Nat, n <= read_avail(blk),
         NEW c, c = [blk EXCEPT !.read = blk.read + n]
  PROVE  /\ c \in BlockT /\ c.data = blk.data /\ c.len = blk.len /\ c.ref = blk.ref
         /\ c.read = blk.read + n
<1>1. /\ blk.data \in Seq(Nat) /\ blk.len \in Nat /\ blk.read \in Nat /\ blk.ref \in BOOLEAN
      /\ Len(blk.data) \in Nat /\ blk.read <= Len(blk.data) /\ Len(blk.data) <= blk.len
  BY BlockIs
<1>2. blk = [data |-> blk.data, len |-> blk.len, read |-> blk.read, ref |-> blk.ref]
  BY DEF BlockT
<1>3. c = [data |-> blk.data, len |-> blk.len, read |-> blk.read + n, ref |-> blk.ref]
  BY <1>2
<1>4. blk.read + n \in Nat /\ blk.read + n <= Len(blk.data)
  BY <1>1 DEF read_avail
<1>5. /\ c.data = blk.data /\ c.len = blk.len /\ c.ref = blk.ref /\ c.read = blk.read + n
      /\ c \in [data : Seq(Nat), len : Nat, read : Nat, ref : BOOLEAN]
  BY <1>1, <1>3, <1>4
<1>6. c.read <= Len(c.data) /\ Len(c.data) <= c.len
  BY <1>1, <1>4, <1>5
<1>7. c.len > 0 \/ c.ref
  BY <1>5, BlockIs
<1> QED BY <1>5, <1>6, <1>7 DEF BlockT

\* the blocks and the read block once n bytes of the read block were read
ReadQ(q, rb, n) == [q EXCEPT ![rb] = [q[rb] EXCEPT !.read = q[rb].read + n]]
ReadRb(q, rb, n, avail) ==
  IF read_avail(q[rb]) = n /\ avail - n # 0 THEN (IF rb = Len(q) THEN END ELSE rb + 1) ELSE rb

\* keep the invariant: the read block moves on when it is read out and bytes are left
LEMMA ReadShape ==
  ASSUME NEW q, NEW wb, NEW rb, NEW avail, Shape(q, wb, rb, avail), rb # END,
         NEW n \in Nat, n <= read_avail(q[rb]),
         NEW r, r = ReadQ(q, rb, n), NEW rb2, rb2 = ReadRb(q, rb, n, avail)
  PROVE  Shape(r, wb, rb2, avail - n) /\ SameData(q, r)
<1>1. /\ rb \in 1 .. Len(q) /\ q \in Seq(BlockT)
      /\ read_avail(q[rb]) \in Nat /\ Len(Beyond(q, rb)) \in Nat
      /\ avail = read_avail(q[rb]) + Len(Beyond(q, rb))
      /\ rb = wb => avail = read_avail(q[rb])
  BY AvailIs
<1> DEFINE blk == [q[rb] EXCEPT !.read = q[rb].read + n]
<1>2. /\ q[rb] \in BlockT /\ q[rb].read \in Nat /\ Len(q[rb].data) \in Nat
      /\ q[rb].read <= Len(q[rb].data)
  BY <1>1, BlockAt
<1>3. blk \in BlockT /\ blk.data = q[rb].data /\ blk.len = q[rb].len /\ blk.read = q[rb].read + n
  BY <1>2, BlockRead
<1> HIDE DEF blk
<1>4. /\ r \in Seq(BlockT) /\ Len(r) = Len(q) /\ r[rb] = blk
      /\ \A j \in 1 .. Len(q) : j # rb => r[j] = q[j]
  BY <1>1, <1>3, Changed DEF blk, ReadQ
<1>5. SameData(q, r)
  BY <1>1, <1>3, <1>4 DEF SameData
<1>6. /\ written(r) = written(q) /\ Filled(r, wb)
      /\ held(r, rb - 1) = held(q, rb - 1) /\ held(r, rb) = held(q, rb)
  BY <1>1, <1>5, Same DEF Shape
<1>7. /\ wb \in 0 .. Len(r)
      /\ wb # END => rb <= wb
      /\ avail \in Nat /\ Len(q) \in Nat
  BY <1>1, <1>4 DEF Shape
<1>8. /\ Len(written(r)) = held(r, rb - 1) + q[rb].read + avail
      /\ \A i \in 1 .. Len(q) : /\ i < rb => q[i].read = Len(q[i].data)
                                /\ i > rb => q[i].read = 0
  BY <1>6 DEF Shape, AtRead
<1>9. /\ held(r, rb - 1) \in Nat
      /\ held(r, rb) = held(r, rb - 1) + Len(q[rb].data)
  <2>1. rb \in 1 .. Len(r) /\ r[rb].data = q[rb].data
    BY <1>1, <1>3, <1>4
  <2> QED BY <1>4, <2>1, HeldStep
<1> DEFINE m == held(r, rb - 1)
           k == Len(q[rb].data)
           l == Len(q)
           a == q[rb].read
           z == Len(Beyond(q, rb))
           w == Len(written(r))
<1> HIDE DEF m, k, l, a, z, w
<1>10. /\ m \in Nat /\ k \in Nat /\ a \in Nat /\ z \in Nat /\ l \in Nat /\ rb \in 1 .. l
       /\ avail = (k - a) + z /\ w = m + a + avail /\ a <= k /\ n <= k - a
       /\ (rb = wb => z = 0)
  BY <1>1, <1>2, <1>7, <1>8, <1>9 DEF read_avail, m, k, l, a, z, w
<1>11. CASE ~(read_avail(q[rb]) = n /\ avail - n # 0)
  <2>1. rb2 = rb
    BY <1>11 DEF ReadRb
  <2>2. avail - n \in Nat /\ w = m + (a + n) + (avail - n)
    BY <1>10
  <2>3. avail - n > 0 => a + n < k
    <3>1. k - a # n \/ avail - n = 0
      BY <1>11 DEF read_avail, a, k
    <3> QED BY <1>10, <3>1
  <2>4. AtRead(r, rb, avail - n)
    <3>1. Len(written(r)) = held(r, rb - 1) + r[rb].read + (avail - n)
      BY <1>3, <1>4, <2>2 DEF w, m, a
    <3>2. avail - n > 0 => r[rb].read < Len(r[rb].data)
      BY <1>3, <1>4, <2>3 DEF a, k
    <3>3. \A i \in 1 .. Len(r) : /\ i < rb => r[i].read = Len(r[i].data)
                                 /\ i > rb => r[i].read = 0
      <4>1. rb \in Nat
        BY <1>1
      <4> QED BY <1>4, <1>8, <4>1
    <3>4. rb \in 1 .. Len(r)
      BY <1>1, <1>4
    <3> QED BY <3>1, <3>2, <3>3, <3>4 DEF AtRead
  <2>5. rb \in 0 .. Len(r)
    BY <1>1, <1>4
  <2> QED BY <1>4, <1>5, <1>6, <1>7, <2>1, <2>2, <2>4, <2>5 DEF Shape
<1>12. CASE read_avail(q[rb]) = n /\ avail - n # 0
  <2>1. n = k - a /\ avail - n = z /\ z # 0 /\ avail - n \in Nat
    <3>1. n = k - a /\ avail - n # 0
      BY <1>12 DEF read_avail, k, a
    <3> QED BY <1>10, <3>1
  <2>2. Beyond(q, rb) # <<>>
    BY <2>1 DEF z
  <2>3. rb + 1 \in 1 .. Len(q) /\ q[rb + 1].data # <<>>
    BY <1>1, <2>2, NextHas DEF Shape
  <2>4. rb2 = rb + 1 /\ rb + 1 \in 1 .. Len(r)
    <3>1. rb # Len(q)
      BY <1>1, <2>3
    <3> QED BY <1>4, <1>12, <2>3, <3>1 DEF ReadRb
  <2>5. r[rb + 1] = q[rb + 1] /\ q[rb + 1].read = 0
    <3>1. rb + 1 # rb /\ rb + 1 > rb
      BY <1>1
    <3> QED BY <1>4, <1>8, <2>3, <3>1
  <2>6. AtRead(r, rb + 1, avail - n)
    <3>1. Len(written(r)) = held(r, (rb + 1) - 1) + r[rb + 1].read + (avail - n)
      <4>1. (rb + 1) - 1 = rb
        BY <1>1
      <4>2. held(r, rb) = m + k
        BY <1>9 DEF m, k
      <4>3. w = (m + k) + 0 + (avail - n)
        BY <1>10, <2>1
      <4> QED BY <2>5, <4>1, <4>2, <4>3 DEF w
    <3>2. r[rb + 1].read < Len(r[rb + 1].data)
      <4>1. q[rb + 1].data \in Seq(Nat)
        BY <1>1, <2>3, BlockAt
      <4>2. Len(q[rb + 1].data) > 0
        BY <2>3, <4>1
      <4> QED BY <2>5, <4>2
    <3>3. ASSUME NEW i \in 1 .. Len(r)
          PROVE  /\ i < rb + 1 => r[i].read = Len(r[i].data)
                 /\ i > rb + 1 => r[i].read = 0
      <4>1. i = rb => r[i].read = Len(r[i].data)
        <5>1. r[rb].read = a + n /\ Len(r[rb].data) = k
          BY <1>3, <1>4 DEF a, k
        <5>2. a + n = k
          BY <1>10, <2>1
        <5> QED BY <5>1, <5>2
      <4>2. i # rb => r[i] = q[i]
        BY <1>4
      <4>3. i < rb => q[i].read = Len(q[i].data)
        BY <1>4, <1>8
      <4>4. i > rb => q[i].read = 0
        BY <1>4, <1>8
      <4>5. rb \in Nat /\ i \in Nat
        BY <1>1
      <4> QED BY <4>1, <4>2, <4>3, <4>4, <4>5
    <3> QED BY <2>4, <3>1, <3>2, <3>3 DEF AtRead
  <2>7. rb + 1 \in 0 .. Len(r) /\ rb + 1 # END
    BY <1>1, <2>4 DEF END
  <2>8. ASSUME wb # END PROVE rb + 1 <= wb
    <3>1. rb # wb
      BY <1>10, <2>1
    <3>2. wb \in Nat /\ rb \in Nat
      BY ShapeTypes
    <3>3. rb <= wb
      BY <1>7, <2>8, Zenon
    <3> QED BY <3>1, <3>2, <3>3
  <2> QED BY <1>4, <1>5, <1>6, <1>7, <2>1, <2>4, <2>6, <2>7, <2>8 DEF Shape
<1> QED BY <1>11, <1>12

-----------------------------------------------------------------------------
(* Writing.                                                                *)

\* as many bytes in the same blocks
LEMMA HeldSame ==
  ASSUME NEW q \in Seq(BlockT), NEW r \in Seq(BlockT), NEW n \in Nat, n <= Len(q), n <= Len(r),
         \A j \in 1 .. n : r[j].data = q[j].data
  PROVE  held(r, n) = held(q, n)
<1> DEFINE a == SubSeq(q, 1, n)
           b == SubSeq(r, 1, n)
<1>1. a \in Seq(BlockT) /\ Len(a) = n /\ \A j \in 1 .. n : a[j] = q[j]
  BY Piece
<1>2. b \in Seq(BlockT) /\ Len(b) = n /\ \A j \in 1 .. n : b[j] = r[j]
  BY Piece
<1> HIDE DEF a, b
<1>3. written(a) = written(b)
  BY <1>1, <1>2, WrittenSame
<1> QED BY <1>3 DEF held, a, b

\* a block with x written to it
BlockWith(blk, x) == [blk EXCEPT !.data = blk.data \o x]

\* is c
IsWith(blk, x, c) ==
  /\ c \in BlockT /\ c.data = blk.data \o x /\ c.len = blk.len /\ c.ref = blk.ref
  /\ c.read = blk.read /\ Len(c.data) = Len(blk.data) + Len(x)

\* which is a block, if x fits
LEMMA BlockWritten ==
  ASSUME NEW blk \in BlockT, NEW x \in Seq(Nat), Len(x) <= write_avail(blk)
  PROVE  IsWith(blk, x, BlockWith(blk, x))
<1> DEFINE c == BlockWith(blk, x)
<1>1. /\ blk.data \in Seq(Nat) /\ blk.len \in Nat /\ blk.read \in Nat /\ blk.ref \in BOOLEAN
      /\ Len(blk.data) \in Nat /\ blk.read <= Len(blk.data) /\ Len(blk.data) <= blk.len
  BY BlockIs
<1>2. blk = [data |-> blk.data, len |-> blk.len, read |-> blk.read, ref |-> blk.ref]
  BY DEF BlockT
<1> DEFINE d == blk.data \o x
<1>3. d \in Seq(Nat) /\ Len(d) = Len(blk.data) + Len(x) /\ Len(x) \in Nat
  BY <1>1, BytesBoth
<1> HIDE DEF c, d
<1>4. c = [data |-> d, len |-> blk.len, read |-> blk.read, ref |-> blk.ref]
  <2>1. c = [blk EXCEPT !.data = d]
    BY DEF c, d, BlockWith
  <2> QED BY <1>2, <2>1
<1>5. Len(d) <= blk.len /\ blk.read <= Len(d)
  <2> DEFINE k == Len(blk.data)
             n == Len(x)
             m == Len(d)
  <2>1. n <= blk.len - k
    BY DEF write_avail
  <2>2. k \in Nat /\ n \in Nat /\ blk.len \in Nat /\ blk.read \in Nat /\ blk.read <= k /\ m = k + n
    BY <1>1, <1>3
  <2> HIDE DEF k, n, m
  <2>3. m <= blk.len /\ blk.read <= m
    BY <2>1, <2>2
  <2> QED BY <2>3 DEF m
<1>6. /\ c.data = d /\ c.len = blk.len /\ c.ref = blk.ref /\ c.read = blk.read
      /\ c \in [data : Seq(Nat), len : Nat, read : Nat, ref : BOOLEAN]
  BY <1>1, <1>3, <1>4
<1>7. c \in BlockT
  <2>1. c.len > 0 \/ c.ref
    BY <1>6, BlockIs
  <2> QED BY <1>5, <1>6, <2>1 DEF BlockT
<1>8. IsWith(blk, x, c)
  BY <1>3, <1>6, <1>7 DEF d, IsWith
<1> QED BY <1>8 DEF c

\* the blocks and the iterators once x was written to the write block
WriteQ(q, wb, x) == [q EXCEPT ![wb] = BlockWith(q[wb], x)]
WriteWb(r, wb) == IF write_avail(r[wb]) = 0 /\ wb # Len(r) THEN wb + 1 ELSE wb
WriteRb(r, rb, x) ==
  IF x # <<>> /\ read_avail(r[rb]) = 0 THEN (IF rb = Len(r) THEN END ELSE rb + 1) ELSE rb

\* r is q with x after its last byte, which is in block wb
WroteTo(q, wb, x, r) ==
  /\ r \in Seq(BlockT) /\ Len(r) = Len(q)
  /\ \A j \in 1 .. Len(q) : j # wb => r[j] = q[j]
  /\ r[wb].read = q[wb].read /\ r[wb].len = q[wb].len
  /\ Len(r[wb].data) = Len(q[wb].data) + Len(x)
  /\ written(r) = written(q) \o x /\ Len(written(r)) = Len(written(q)) + Len(x)
  /\ \A j \in 1 .. wb : held(r, j - 1) = held(q, j - 1)
  /\ Len(written(q)) = held(q, wb)

\* what writing x to the write block makes of the blocks
LEMMA WriteBlocks ==
  ASSUME NEW q \in Seq(BlockT), NEW wb \in 1 .. Len(q), NEW x \in Seq(Nat),
         Len(x) <= write_avail(q[wb]), Filled(q, wb), NEW r, r = WriteQ(q, wb, x)
  PROVE  WroteTo(q, wb, x, r)
<1>0. Len(q) \in Nat /\ wb \in Nat
  OBVIOUS
<1> DEFINE blk == BlockWith(q[wb], x)
<1>1. q[wb] \in BlockT /\ q[wb].data \in Seq(Nat)
  BY BlockAt
<1>2. /\ blk \in BlockT /\ blk.data = q[wb].data \o x /\ blk.read = q[wb].read /\ blk.len = q[wb].len
      /\ Len(blk.data) = Len(q[wb].data) + Len(x)
  <2>1. IsWith(q[wb], x, blk)
    BY <1>1, BlockWritten
  <2> QED BY <2>1 DEF IsWith
<1> HIDE DEF blk
<1>3. /\ r \in Seq(BlockT) /\ Len(r) = Len(q) /\ r[wb] = blk
      /\ \A j \in 1 .. Len(q) : j # wb => r[j] = q[j]
  BY <1>2, Changed DEF blk, WriteQ
<1>4. Beyond(q, wb) = <<>>
  <2>1. \A j \in 1 .. Len(q) : j > wb => q[j].data = <<>>
    BY <1>0 DEF Filled, END
  <2>2. wb \in 0 .. Len(q)
    OBVIOUS
  <2> QED BY <2>1, <2>2, BeyondEmpty
<1>5. Before(r, wb) = Before(q, wb) /\ Beyond(r, wb) = Beyond(q, wb)
  <2>1. \A j \in 1 .. Len(q) : j # wb => q[j].data = r[j].data
    BY <1>3
  <2>2. Len(q) = Len(r)
    BY <1>3
  <2> QED BY <1>3, <2>1, <2>2, PartsSame
<1>6. Before(q, wb) \in Seq(Nat)
  BY Parts
<1> DEFINE a == Before(q, wb)
           d == q[wb].data
<1>7. written(q) = a \o d
  <2>1. a \o d \in Seq(Nat)
    BY <1>1, <1>6, BytesBoth
  <2>2. written(q) = (a \o d) \o <<>>
    BY <1>4, Around
  <2> HIDE DEF a, d
  <2> QED BY <2>1, <2>2, ConcatEmpty
<1>8. written(r) = a \o (d \o x)
  <2>1. d \o x \in Seq(Nat)
    BY <1>1, BytesBoth
  <2>2. a \o (d \o x) \in Seq(Nat)
    BY <1>6, <2>1, BytesBoth
  <2>3. wb \in 1 .. Len(r)
    BY <1>3
  <2>4. written(r) = (a \o (d \o x)) \o <<>>
    BY <1>2, <1>3, <1>4, <1>5, <2>3, Around
  <2> HIDE DEF a, d
  <2> QED BY <2>2, <2>4, ConcatEmpty
<1> HIDE DEF a, d
<1>9. written(r) = written(q) \o x
  <2>1. a \in Seq(Nat) /\ d \in Seq(Nat)
    BY <1>1, <1>6 DEF a, d
  <2>2. (a \o d) \o x = a \o (d \o x)
    BY <2>1, BytesAssoc, Zenon DEF Associate
  <2> QED BY <1>7, <1>8, <2>2
<1>10. Len(written(r)) = Len(written(q)) + Len(x)
  BY <1>9, WrittenType, BytesBoth
<1>11. ASSUME NEW j \in 1 .. wb PROVE held(r, j - 1) = held(q, j - 1)
  <2>1. j - 1 \in Nat /\ j - 1 <= Len(q) /\ j - 1 <= Len(r)
    BY <1>0, <1>3
  <2>2. \A k \in 1 .. j - 1 : r[k].data = q[k].data
    BY <1>0, <1>3
  <2> DEFINE m == j - 1
  <2> HIDE DEF m
  <2>3. held(r, m) = held(q, m)
    BY <1>3, <2>1, <2>2, HeldSame DEF m
  <2> QED BY <2>3 DEF m
<1>12. Len(written(q)) = held(q, wb)
  <2>1. Len(written(q)) = held(q, wb) + Len(<<>>)
    BY <1>4, Around
  <2>2. Len(<<>>) = 0 /\ held(q, wb) \in Nat
    BY HeldStep
  <2> QED BY <2>1, <2>2
<1> QED BY <1>2, <1>3, <1>9, <1>10, <1>11, <1>12 DEF WroteTo

\* it keeps the invariant, and the read block moves to the bytes if it had none left
LEMMA WriteShape ==
  ASSUME NEW q, NEW wb, NEW rb, NEW avail, Shape(q, wb, rb, avail), wb # END,
         NEW x \in Seq(Nat), x # <<>>, Len(x) <= write_avail(q[wb]),
         NEW r, r = WriteQ(q, wb, x), NEW wb2, wb2 = WriteWb(r, wb), NEW rb2, rb2 = WriteRb(r, rb, x)
  PROVE  /\ Shape(r, wb2, rb2, avail + Len(x)) /\ wb2 # END
         /\ written(r) = written(q) \o x
<1>1. /\ q \in Seq(BlockT) /\ Len(q) \in Nat
      /\ wb \in Nat /\ wb <= Len(q) /\ rb \in Nat /\ rb <= Len(q) /\ avail \in Nat
  BY ShapeTypes
<1>2. wb \in 1 .. Len(q) /\ rb <= wb /\ Filled(q, wb)
  BY <1>1 DEF Shape, END
<1>3. rb # END
  BY <1>1, <1>2 DEF Shape
<1>4. /\ rb \in 1 .. Len(q)
      /\ read_avail(q[rb]) \in Nat /\ Len(Beyond(q, rb)) \in Nat
      /\ avail = read_avail(q[rb]) + Len(Beyond(q, rb))
      /\ rb = wb => avail = read_avail(q[rb])
  BY <1>3, AvailIs
<1>5. /\ r \in Seq(BlockT) /\ Len(r) = Len(q)
      /\ \A j \in 1 .. Len(q) : j # wb => r[j] = q[j]
      /\ r[wb].read = q[wb].read /\ r[wb].len = q[wb].len
      /\ Len(r[wb].data) = Len(q[wb].data) + Len(x)
      /\ written(r) = written(q) \o x /\ Len(written(r)) = Len(written(q)) + Len(x)
      /\ \A j \in 1 .. wb : held(r, j - 1) = held(q, j - 1)
      /\ Len(written(q)) = held(q, wb)
  <2>1. WroteTo(q, wb, x, r)
    BY <1>1, <1>2, WriteBlocks
  <2> QED BY <2>1 DEF WroteTo
<1>6. Len(x) \in Nat /\ Len(x) > 0
  OBVIOUS
<1>7. Len(q[wb].data) \in Nat /\ q[wb].read \in Nat /\ q[wb].read <= Len(q[wb].data)
  BY <1>1, <1>2, BlockAt
<1>8. r[wb].data # <<>>
  <2>1. Len(r[wb].data) > 0
    BY <1>5, <1>6, <1>7
  <2>2. Len(<<>>) = 0
    OBVIOUS
  <2> QED BY <2>1, <2>2
<1>9. wb2 \in {wb, wb + 1} /\ wb2 \in 1 .. Len(r)
  BY <1>1, <1>2, <1>5 DEF WriteWb
<1>10. Filled(r, wb2)
  <2>1. ASSUME NEW i \in 1 .. Len(r), i <= wb PROVE r[i].data # <<>>
    <3>1. i = wb \/ (i < wb /\ i # wb)
      BY <1>1, <2>1
    <3>2. i # wb => r[i] = q[i]
      BY <1>5
    <3>3. i < wb => q[i].data # <<>>
      BY <1>2, <1>5 DEF Filled
    <3> QED BY <1>8, <3>1, <3>2, <3>3
  <2>2. ASSUME NEW i \in 1 .. Len(r), i > wb PROVE r[i].data = <<>>
    BY <1>1, <1>2, <1>5, <2>2 DEF Filled
  <2>3. ASSUME NEW i \in 1 .. Len(r), NEW j \in 1 .. Len(r), i < j, r[j].data # <<>>
        PROVE  r[i].data # <<>>
    <3>1. ~(j > wb)
      BY <2>2, <2>3
    <3>2. i <= wb
      BY <1>1, <2>3, <3>1
    <3> QED BY <2>1, <3>2
  <2>4. ASSUME NEW i \in 1 .. Len(r) PROVE r[i].len > 0
    BY <1>2, <1>5 DEF Filled
  <2>5. ASSUME NEW i \in 1 .. Len(r)
        PROVE  (i < wb2 => i <= wb) /\ (i > wb2 => i > wb)
    BY <1>1, <1>9
  <2> QED BY <2>1, <2>2, <2>3, <2>4, <2>5 DEF Filled
<1>11. /\ Len(written(q)) = held(q, rb - 1) + q[rb].read + avail
       /\ avail > 0 => q[rb].read < Len(q[rb].data)
       /\ \A i \in 1 .. Len(q) : /\ i < rb => q[i].read = Len(q[i].data)
                                 /\ i > rb => q[i].read = 0
  BY <1>3 DEF Shape, AtRead
<1>12. /\ q[rb].read \in Nat /\ Len(q[rb].data) \in Nat /\ q[rb].read <= Len(q[rb].data)
       /\ held(q, rb - 1) \in Nat /\ held(q, rb) = held(q, rb - 1) + Len(q[rb].data)
  BY <1>1, <1>4, BlockAt, HeldStep
<1>13. ASSUME rb = wb \/ avail > 0
       PROVE  rb2 = rb /\ AtRead(r, rb, avail + Len(x))
  <2>1. r[rb].read = q[rb].read
    BY <1>4, <1>5
  <2>2. r[rb].read < Len(r[rb].data)
    <3>1. CASE rb = wb
      <4>1. r[wb].read = q[wb].read /\ Len(r[wb].data) = Len(q[wb].data) + Len(x)
        BY <1>5
      <4>2. r[wb].read < Len(r[wb].data)
        BY <1>6, <1>7, <4>1
      <4> QED BY <3>1, <4>2
    <3>2. CASE rb # wb
      BY <1>4, <1>5, <1>11, <1>13, <3>2
    <3> QED BY <3>1, <3>2
  <2>3. rb2 = rb
    <3>1. Len(r[rb].data) \in Nat /\ r[rb].read \in Nat
      BY <1>4, <1>5, BlockAt
    <3>2. read_avail(r[rb]) # 0
      BY <2>2, <3>1 DEF read_avail
    <3> QED BY <3>2 DEF WriteRb
  <2>4. Len(written(r)) = held(r, rb - 1) + r[rb].read + (avail + Len(x))
    <3>1. held(r, rb - 1) = held(q, rb - 1)
      <4>1. rb \in 1 .. wb
        BY <1>2, <1>4
      <4> QED BY <1>5, <4>1
    <3>2. Len(written(r)) = (held(q, rb - 1) + q[rb].read + avail) + Len(x)
      BY <1>5, <1>11
    <3> DEFINE m == held(q, rb - 1)
               w == Len(written(r))
               a == q[rb].read
               n == Len(x)
    <3>3. m \in Nat /\ a \in Nat /\ n \in Nat /\ avail \in Nat
      BY <1>1, <1>6, <1>12
    <3> HIDE DEF m, w, a, n
    <3>4. w = m + a + (avail + n)
      <4>1. w = (m + a + avail) + n
        BY <3>2 DEF m, w, a, n
      <4> QED BY <3>3, <4>1
    <3> QED BY <2>1, <3>1, <3>4 DEF m, w, a, n
  <2>5. ASSUME NEW i \in 1 .. Len(r)
        PROVE  /\ i < rb => r[i].read = Len(r[i].data)
               /\ i > rb => r[i].read = 0
    <3>1. CASE i = wb
      <4>1. ~(i < rb)
        BY <1>1, <1>2, <3>1
      <4> QED BY <1>5, <1>11, <3>1, <4>1
    <3>2. CASE i # wb
      BY <1>5, <1>11, <3>2
    <3> QED BY <3>1, <3>2
  <2>6. rb \in 1 .. Len(r)
    BY <1>4, <1>5
  <2> QED BY <2>2, <2>3, <2>4, <2>5, <2>6 DEF AtRead
<1>14. ASSUME rb # wb, ~(avail > 0)
       PROVE  rb2 = rb + 1 /\ rb + 1 = wb /\ AtRead(r, wb, avail + Len(x))
  <2>1. avail = 0 /\ read_avail(q[rb]) = 0 /\ Len(Beyond(q, rb)) = 0
    BY <1>1, <1>4, <1>14
  <2>2. Len(q[rb].data) = q[rb].read
    BY <1>12, <2>1 DEF read_avail
  <2>3. rb + 1 = wb
    <3> SUFFICES ASSUME rb + 1 # wb PROVE FALSE
      OBVIOUS
    <3>1. rb + 1 \in 1 .. Len(q) /\ rb + 1 < wb
      BY <1>1, <1>2, <1>14
    <3>2. q[rb + 1].data # <<>>
      BY <1>2, <3>1 DEF Filled, END
    <3>3. held(q, rb + 1) = held(q, rb) + Len(q[rb + 1].data) /\ held(q, rb) \in Nat
      <4> DEFINE k == rb + 1
      <4>1. k - 1 = rb
        BY <1>1
      <4> HIDE DEF k
      <4>2. held(q, k) = held(q, k - 1) + Len(q[k].data) /\ held(q, k - 1) \in Nat
        BY <1>1, <3>1, HeldStep DEF k
      <4> QED BY <4>1, <4>2 DEF k
    <3>4. Len(written(q)) = held(q, rb) + 0
      BY <1>1, <1>4, <2>1, Around
    <3>5. Len(written(q)) = held(q, rb + 1) + Len(Beyond(q, rb + 1)) /\ Len(Beyond(q, rb + 1)) \in Nat
      BY <1>1, <3>1, Around, Parts
    <3>6. Len(q[rb + 1].data) \in Nat /\ q[rb + 1].data \in Seq(Nat)
      BY <1>1, <3>1, BlockAt
    <3>7. Len(q[rb + 1].data) > 0
      BY <3>2, <3>6
    <3> QED BY <3>3, <3>4, <3>5, <3>6, <3>7
  <2>4. rb2 = rb + 1
    <3>1. r[rb] = q[rb] /\ rb # Len(r)
      BY <1>1, <1>2, <1>4, <1>5, <1>14
    <3> QED BY <2>1, <3>1 DEF WriteRb
  <2>5. q[wb].read = 0
    BY <1>1, <1>2, <1>11, <2>3
  <2>6. Len(written(r)) = held(r, wb - 1) + r[wb].read + (avail + Len(x))
    <3>1. held(r, wb - 1) = held(q, wb - 1) /\ wb - 1 = rb
      <4>1. wb \in 1 .. wb
        BY <1>1, <1>2
      <4> QED BY <1>1, <1>5, <2>3, <4>1
    <3>2. Len(written(q)) = held(q, rb) + 0
      BY <1>1, <1>4, <2>1, Around
    <3>3. held(q, rb) \in Nat
      BY <1>1, <1>4, HeldStep
    <3> QED BY <1>5, <1>6, <2>1, <2>5, <3>1, <3>2, <3>3
  <2>7. r[wb].read < Len(r[wb].data)
    BY <1>5, <1>6, <1>7, <2>5
  <2>8. ASSUME NEW i \in 1 .. Len(r)
        PROVE  /\ i < wb => r[i].read = Len(r[i].data)
               /\ i > wb => r[i].read = 0
    <3>1. CASE i < wb
      <4>1. r[i] = q[i] /\ (i < rb \/ i = rb)
        BY <1>1, <1>5, <2>3, <3>1
      <4>2. q[i].read = Len(q[i].data)
        BY <1>5, <1>11, <2>2, <4>1
      <4>3. ~(i > wb)
        BY <1>1, <3>1
      <4> QED BY <4>1, <4>2, <4>3
    <3>2. CASE i > wb
      <4>1. r[i] = q[i] /\ i > rb
        BY <1>1, <1>5, <2>3, <3>2
      <4> QED BY <1>1, <1>5, <1>11, <3>2, <4>1
    <3> QED BY <3>1, <3>2
  <2>9. wb \in 1 .. Len(r)
    BY <1>2, <1>5
  <2> QED BY <2>3, <2>4, <2>6, <2>7, <2>8, <2>9 DEF AtRead
<1>15. avail + Len(x) \in Nat /\ wb2 \in 0 .. Len(r) /\ wb2 # END
  BY <1>1, <1>6, <1>9 DEF END
<1>16. rb2 \in 0 .. Len(r) /\ rb2 # END /\ rb2 <= wb2 /\ AtRead(r, rb2, avail + Len(x))
  <2>1. CASE rb = wb \/ avail > 0
    <3>1. rb2 = rb
      BY <1>13, <2>1
    <3>2. rb <= wb2 /\ rb \in 0 .. Len(r)
      BY <1>1, <1>2, <1>4, <1>5, <1>9
    <3> QED BY <1>3, <1>13, <2>1, <3>1, <3>2
  <2>2. CASE ~(rb = wb \/ avail > 0)
    <3>1. rb2 = wb /\ AtRead(r, wb, avail + Len(x))
      BY <1>14, <2>2
    <3>2. wb <= wb2 /\ wb \in 0 .. Len(r)
      BY <1>1, <1>2, <1>5, <1>9
    <3> QED BY <3>1, <3>2
  <2> QED BY <2>1, <2>2
<1> QED BY <1>5, <1>10, <1>15, <1>16 DEF Shape

\* the blocks and the iterators once a block was added
AddQ(q) == Append(q, Block(BlockSize))
AddRb(r, rb) == IF Len(r) = 1 THEN 1 ELSE rb
AddWb(r, wb) ==
  IF Len(r) = 1 THEN 1 ELSE IF write_avail(r[wb]) = 0 /\ wb # Len(r) THEN wb + 1 ELSE wb

\* a new block is empty and has room
LEMMA NewBlock ==
  ASSUME SizesAssumption
  PROVE  /\ Block(BlockSize) \in BlockT /\ Block(BlockSize).data = <<>>
         /\ Block(BlockSize).len = BlockSize /\ Block(BlockSize).read = 0
         /\ BlockSize \in Nat /\ BlockSize > 0 /\ write_avail(Block(BlockSize)) = BlockSize
<1> DEFINE blk == Block(BlockSize)
<1>1. BlockSize \in Nat /\ BlockSize > 0
  BY DEF SizesAssumption
<1>2. blk = [data |-> <<>>, len |-> BlockSize, read |-> 0, ref |-> FALSE]
  BY DEF Block
<1>3. <<>> \in Seq(Nat) /\ Len(<<>>) = 0
  OBVIOUS
<1> HIDE DEF blk
<1>4. /\ blk.data = <<>> /\ blk.len = BlockSize /\ blk.read = 0
      /\ blk \in [data : Seq(Nat), len : Nat, read : Nat, ref : BOOLEAN]
  BY <1>1, <1>2, <1>3
<1>5. blk \in BlockT
  BY <1>1, <1>3, <1>4 DEF BlockT
<1>6. write_avail(blk) = BlockSize
  BY <1>1, <1>3, <1>4 DEF write_avail
<1> QED BY <1>1, <1>4, <1>5, <1>6 DEF blk

\* a block at the end keeps the invariant, and the write block has room again
LEMMA AddShape ==
  ASSUME SizesAssumption,
         NEW q, NEW wb, NEW rb, NEW avail, Shape(q, wb, rb, avail),
         wb = END => q = <<>>, wb # END => write_avail(q[wb]) = 0,
         NEW r, r = AddQ(q), NEW rb2, rb2 = AddRb(r, rb), NEW wb2, wb2 = AddWb(r, wb)
  PROVE  /\ Shape(r, wb2, rb2, avail) /\ written(r) = written(q)
         /\ wb2 # END /\ write_avail(r[wb2]) > 0
<1>1. /\ q \in Seq(BlockT) /\ Len(q) \in Nat
      /\ wb \in Nat /\ wb <= Len(q) /\ rb \in Nat /\ rb <= Len(q) /\ avail \in Nat
  BY ShapeTypes
<1> DEFINE blk == Block(BlockSize)
<1>2. /\ blk \in BlockT /\ blk.data = <<>> /\ blk.len = BlockSize /\ blk.read = 0
      /\ BlockSize \in Nat /\ BlockSize > 0 /\ write_avail(blk) = BlockSize
  BY NewBlock
<1> HIDE DEF blk
<1>3. /\ r \in Seq(BlockT) /\ Len(r) = Len(q) + 1 /\ r[Len(q) + 1] = blk
      /\ \A i \in 1 .. Len(q) : r[i] = q[i]
  BY <1>1, <1>2 DEF AddQ, blk
<1>4. written(r) = written(q)
  <2>1. written(r) = written(q) \o <<>>
    BY <1>1, <1>2, WrittenSnoc DEF AddQ, blk
  <2> QED BY <1>1, <2>1, WrittenType, ConcatEmpty
<1>5. CASE q = <<>>
  <2>1. Len(q) = 0 /\ wb = 0 /\ rb = 0 /\ avail = 0
    <3>1. Len(q) = 0
      BY <1>5
    <3>2. wb = 0 /\ rb = 0
      BY <1>1, <3>1
    <3> QED BY <3>1, <3>2 DEF Shape, END
  <2>2. Len(r) = 1 /\ r[1] = blk /\ wb2 = 1 /\ rb2 = 1
    BY <1>3, <2>1 DEF AddRb, AddWb
  <2>3. \A i \in 1 .. Len(r) : i = 1
    BY <2>2
  <2>4. Filled(r, 1)
    <3>1. \A i \in 1 .. Len(r) : r[i].len > 0
      BY <1>2, <2>2, <2>3
    <3> QED BY <2>3, <3>1 DEF Filled
  <2>5. AtRead(r, 1, 0)
    <3>1. held(r, 1 - 1) = 0
      BY <1>3, HeldEnds
    <3>2. Len(written(r)) = 0
      <4>1. written(r) = <<>>
        BY <1>4, <1>5, WrittenNone
      <4> QED BY <4>1
    <3> QED BY <1>2, <2>2, <2>3, <3>1, <3>2 DEF AtRead
  <2>6. 1 \in 0 .. Len(r)
    BY <2>2
  <2>7. Shape(r, wb2, rb2, avail)
    BY <1>3, <2>1, <2>2, <2>4, <2>5, <2>6 DEF Shape, END
  <2> QED BY <1>2, <1>4, <2>2, <2>7 DEF END
<1>6. CASE q # <<>>
  <2>1. wb # END /\ write_avail(q[wb]) = 0 /\ wb \in 1 .. Len(q) /\ rb <= wb /\ rb # END
    BY <1>1, <1>6 DEF Shape, END
  <2>2. Len(r) # 1 /\ rb2 = rb
    <3>1. Len(q) # 0
      BY <2>1
    <3> QED BY <1>1, <1>3, <3>1 DEF AddRb
  <2>3. wb2 = wb + 1 /\ wb + 1 \in 1 .. Len(r) /\ r[wb] = q[wb]
    BY <1>1, <1>3, <2>1, <2>2 DEF AddWb
  <2>4. Filled(q, wb) /\ AtRead(q, rb, avail)
    BY <2>1 DEF Shape
  <2>5. \A i \in 1 .. Len(q) : /\ q[i].len > 0
                               /\ i < wb => q[i].data # <<>>
                               /\ i > wb => q[i].data = <<>>
    BY <2>1, <2>4 DEF Filled
  <2>6. q[wb].data # <<>>
    <3>1. Len(q[wb].data) \in Nat /\ q[wb].len \in Nat /\ q[wb].len > 0
      BY <1>1, <2>1, <2>5, BlockAt
    <3>2. Len(q[wb].data) # 0
      BY <2>1, <3>1 DEF write_avail
    <3>3. Len(<<>>) = 0
      OBVIOUS
    <3> QED BY <3>2, <3>3
  <2>7. \A i \in 1 .. Len(r) : i \in 1 .. Len(q) \/ i = Len(q) + 1
    BY <1>1, <1>3
  <2>8. ASSUME NEW i \in 1 .. Len(r)
        PROVE  /\ r[i].len > 0
               /\ i <= wb => r[i].data # <<>>
               /\ i > wb => r[i].data = <<>>
    <3>1. CASE i \in 1 .. Len(q)
      <4>1. i <= wb => i = wb \/ i < wb
        BY <1>1
      <4> QED BY <1>3, <2>5, <2>6, <3>1, <4>1
    <3>2. CASE i = Len(q) + 1
      <4>1. ~(i <= wb)
        BY <1>1, <3>2
      <4> QED BY <1>2, <1>3, <3>2, <4>1
    <3> QED BY <2>7, <3>1, <3>2
  <2>9. Filled(r, wb + 1)
    <3>1. ASSUME NEW i \in 1 .. Len(r)
          PROVE  (i < wb + 1 => i <= wb) /\ (i > wb + 1 => i > wb) /\ (i <= wb \/ i > wb)
      BY <1>1
    <3>2. ASSUME NEW i \in 1 .. Len(r), NEW j \in 1 .. Len(r), i < j, r[j].data # <<>>
          PROVE  r[i].data # <<>>
      <4>1. j <= wb
        BY <2>8, <3>1, <3>2
      <4>2. i <= wb
        BY <1>1, <3>2, <4>1
      <4> QED BY <2>8, <4>2
    <3> QED BY <2>8, <3>1, <3>2 DEF Filled
  <2>10. AtRead(r, rb, avail)
    <3>0. rb \in 1 .. Len(q) /\ rb \in 1 .. Len(r) /\ r[rb] = q[rb]
      BY <1>1, <1>3, <2>4 DEF AtRead
    <3>1. held(r, rb - 1) = held(q, rb - 1)
      <4> DEFINE m == rb - 1
      <4>1. m \in Nat /\ m <= Len(q) /\ m <= Len(r) /\ \A j \in 1 .. m : j \in 1 .. Len(q)
        BY <1>1, <1>3, <3>0
      <4> HIDE DEF m
      <4>2. \A j \in 1 .. m : r[j].data = q[j].data
        BY <1>3, <4>1
      <4>3. held(r, m) = held(q, m)
        BY <1>1, <1>3, <4>1, <4>2, HeldSame
      <4> QED BY <4>3 DEF m
    <3>2. ASSUME NEW i \in 1 .. Len(r)
          PROVE  /\ i < rb => r[i].read = Len(r[i].data)
                 /\ i > rb => r[i].read = 0
      <4>1. CASE i \in 1 .. Len(q)
        BY <1>3, <2>4, <4>1 DEF AtRead
      <4>2. CASE i = Len(q) + 1
        <5>1. ~(i < rb)
          BY <1>1, <4>2
        <5> QED BY <1>2, <1>3, <4>2, <5>1
      <4> QED BY <2>7, <4>1, <4>2
    <3>3. Len(written(r)) = held(r, rb - 1) + r[rb].read + avail
      BY <1>4, <2>4, <3>0, <3>1 DEF AtRead
    <3>4. avail > 0 => r[rb].read < Len(r[rb].data)
      BY <2>4, <3>0 DEF AtRead
    <3> QED BY <3>0, <3>2, <3>3, <3>4 DEF AtRead
  <2>11. write_avail(r[wb + 1]) > 0
    <3>1. r[wb + 1].data = <<>> /\ r[wb + 1].len > 0 /\ r[wb + 1].len \in Nat
      <4>1. wb + 1 > wb
        BY <1>1
      <4>2. r[wb + 1].data = <<>> /\ r[wb + 1].len > 0
        BY <2>3, <2>8, <4>1
      <4>3. r[wb + 1].len \in Nat
        BY <1>3, <2>3, BlockAt
      <4> QED BY <4>2, <4>3
    <3>2. Len(<<>>) = 0
      OBVIOUS
    <3> QED BY <3>1, <3>2 DEF write_avail
  <2>12. /\ wb + 1 \in 0 .. Len(r) /\ wb + 1 # END /\ rb <= wb + 1 /\ rb \in 0 .. Len(r)
    BY <1>1, <1>3, <2>1, <2>3 DEF END
  <2>13. Shape(r, wb + 1, rb, avail)
    BY <1>1, <1>3, <2>1, <2>9, <2>10, <2>12 DEF Shape
  <2> QED BY <1>4, <2>2, <2>3, <2>11, <2>12, <2>13
<1> QED BY <1>5, <1>6

-----------------------------------------------------------------------------
(* Blocks of a queue.                                                      *)

\* the fields of a queue after each call
LEMMA ReadIncrFields ==
  ASSUME NEW b, IsQueue(b), NEW n, NEW c, c = b_read_incr(b, n)
  PROVE  /\ IsQueue(c) /\ c.wb = b.wb /\ c.off = b.off /\ c.avail = b.avail - n
         /\ c.q = ReadQ(b.q, b.rb, n)
         /\ c.rb = IF b_read_avail(b) = n /\ b.avail - n # 0
                   THEN (IF b.rb = Len(c.q) THEN END ELSE b.rb + 1) ELSE b.rb
BY DEF IsQueue, b_read_incr, After, ReadQ

LEMMA WriteIncrFields ==
  ASSUME NEW b, IsQueue(b), NEW x, NEW c, c = b_write_incr(b, x)
  PROVE  /\ IsQueue(c) /\ c.off = b.off + Len(x) /\ c.avail = b.avail + Len(x)
         /\ c.q = WriteQ(b.q, b.wb, x) /\ c.wb = WriteWb(c.q, b.wb) /\ c.rb = WriteRb(c.q, b.rb, x)
<1> DEFINE e == [b EXCEPT !.off = b.off + Len(x), !.avail = b.avail + Len(x),
                          !.q[b.wb].data = b.q[b.wb].data \o x]
           d == IF write_avail(e.q[e.wb]) = 0 /\ e.wb # Len(e.q) THEN [e EXCEPT !.wb = e.wb + 1] ELSE e
<1>1. e = [q |-> WriteQ(b.q, b.wb, x), wb |-> b.wb, rb |-> b.rb, off |-> b.off + Len(x),
           avail |-> b.avail + Len(x)]
  <2>1. e = [b EXCEPT !.off = b.off + Len(x), !.avail = b.avail + Len(x), !.q = WriteQ(b.q, b.wb, x)]
    BY Zenon DEF WriteQ, BlockWith
  <2> DEFINE r == WriteQ(b.q, b.wb, x)
             m == b.off + Len(x)
             k == b.avail + Len(x)
  <2> HIDE DEF e, r, m, k
  <2>2. e = [b EXCEPT !.off = m, !.avail = k, !.q = r]
    BY <2>1 DEF r, m, k
  <2>3. e = [q |-> r, wb |-> b.wb, rb |-> b.rb, off |-> m, avail |-> k]
    BY <2>2 DEF IsQueue
  <2> QED BY <2>3 DEF r, m, k
<1>2. c = IF x # <<>> /\ read_avail(d.q[d.rb]) = 0 THEN [d EXCEPT !.rb = After(d, d.rb)] ELSE d
  BY DEF b_write_incr
<1> DEFINE r == WriteQ(b.q, b.wb, x)
           m == b.off + Len(x)
           k == b.avail + Len(x)
<1> HIDE DEF e, r, m, k
<1>3. e = [q |-> r, wb |-> b.wb, rb |-> b.rb, off |-> m, avail |-> k]
  BY <1>1 DEF r, m, k
<1>4. d = [q |-> r, wb |-> WriteWb(r, b.wb), rb |-> b.rb, off |-> m, avail |-> k]
  BY <1>3 DEF WriteWb
<1> HIDE DEF d
<1>5. c = [q |-> r, wb |-> WriteWb(r, b.wb), rb |-> WriteRb(r, b.rb, x), off |-> m, avail |-> k]
  BY <1>2, <1>4 DEF WriteRb, After
<1>6. /\ c.q = r /\ c.wb = WriteWb(r, b.wb) /\ c.rb = WriteRb(r, b.rb, x) /\ c.off = m /\ c.avail = k
      /\ IsQueue(c)
  BY <1>5 DEF IsQueue
<1> QED BY <1>6 DEF r, m, k

LEMMA AddAvailFields ==
  ASSUME NEW b, IsQueue(b), NEW c, c = b_write_add_avail(b)
  PROVE  /\ IsQueue(c) /\ c.off = b.off /\ c.avail = b.avail
         /\ c.q = AddQ(b.q) /\ c.rb = AddRb(c.q, b.rb) /\ c.wb = AddWb(c.q, b.wb)
BY DEF IsQueue, b_write_add_avail, AddQ, AddRb, AddWb

\* n bytes of the read block are read
LEMMA ReadIncr ==
  ASSUME NEW b, Good(b), NEW n \in Nat, n > 0, n <= b_read_avail(b), NEW c, c = b_read_incr(b, n)
  PROVE  /\ Good(c) /\ content(c) = content(b) /\ c.avail = b.avail - n /\ SameData(b.q, c.q)
         /\ c.wb = b.wb
<1>1. IsQueue(b) /\ Shape(b.q, b.wb, b.rb, b.avail)
  BY DEF Good
<1>2. /\ IsQueue(c) /\ c.wb = b.wb /\ c.avail = b.avail - n /\ c.q = ReadQ(b.q, b.rb, n)
      /\ c.rb = IF b_read_avail(b) = n /\ b.avail - n # 0
                THEN (IF b.rb = Len(c.q) THEN END ELSE b.rb + 1) ELSE b.rb
  BY <1>1, ReadIncrFields
<1>3. b_read_avail(b) = IF b.rb = END THEN 0 ELSE read_avail(b.q[b.rb])
  BY ReadAvail
<1>4. b.rb # END /\ b_read_avail(b) = read_avail(b.q[b.rb])
  BY <1>3
<1>5. Len(c.q) = Len(b.q)
  <2>1. b.q \in Seq(BlockT)
    BY <1>1, ShapeTypes
  <2> QED BY <1>2, <2>1 DEF ReadQ
<1>6. c.rb = ReadRb(b.q, b.rb, n, b.avail)
  BY <1>2, <1>4, <1>5 DEF ReadRb
<1>7. Shape(c.q, b.wb, c.rb, b.avail - n) /\ SameData(b.q, c.q)
  <2>1. n <= read_avail(b.q[b.rb])
    BY <1>4
  <2> QED BY <1>1, <1>2, <1>4, <1>6, <2>1, ReadShape
<1>8. content(c) = content(b)
  BY <1>7, Same DEF content
<1> QED BY <1>2, <1>7, <1>8 DEF Good

\* written only through its write block; what join_ref makes has none, and is not written
Writable(b) == b.q = <<>> \/ b.wb # END

\* x is written to the write block
LEMMA WriteIncr ==
  ASSUME NEW b, Good(b), NEW x \in Seq(Nat), x # <<>>, Len(x) <= b_write_avail(b),
         NEW c, c = b_write_incr(b, x)
  PROVE  Good(c) /\ Writable(c) /\ content(c) = content(b) \o x /\ c.avail = b.avail + Len(x)
<1>1. IsQueue(b) /\ Shape(b.q, b.wb, b.rb, b.avail)
  BY DEF Good
<1>2. b.wb # END /\ Len(x) <= write_avail(b.q[b.wb])
  <2>1. Len(x) > 0
    OBVIOUS
  <2> QED BY <2>1 DEF b_write_avail
<1>3. /\ IsQueue(c) /\ c.avail = b.avail + Len(x)
      /\ c.q = WriteQ(b.q, b.wb, x) /\ c.wb = WriteWb(c.q, b.wb) /\ c.rb = WriteRb(c.q, b.rb, x)
  BY <1>1, WriteIncrFields
<1>4. /\ Shape(c.q, c.wb, c.rb, b.avail + Len(x)) /\ c.wb # END
      /\ written(c.q) = written(b.q) \o x
  BY <1>1, <1>2, <1>3, WriteShape
<1> QED BY <1>3, <1>4 DEF Good, Writable, content

\* a block is added where the write block is full
LEMMA AddAvail ==
  ASSUME SizesAssumption, NEW b, Good(b), Writable(b), b_write_avail(b) = 0,
         NEW c, c = b_write_add_avail(b)
  PROVE  /\ Good(c) /\ Writable(c) /\ content(c) = content(b) /\ c.avail = b.avail
         /\ b_write_avail(c) > 0
<1>1. IsQueue(b) /\ Shape(b.q, b.wb, b.rb, b.avail)
  BY DEF Good
<1>2. /\ IsQueue(c) /\ c.avail = b.avail
      /\ c.q = AddQ(b.q) /\ c.rb = AddRb(c.q, b.rb) /\ c.wb = AddWb(c.q, b.wb)
  BY <1>1, AddAvailFields
<1>3. b.wb = END => b.q = <<>>
  BY DEF Writable
<1>4. b.wb # END => write_avail(b.q[b.wb]) = 0
  BY DEF b_write_avail
<1>5. /\ Shape(c.q, c.wb, c.rb, b.avail) /\ written(c.q) = written(b.q)
      /\ c.wb # END /\ write_avail(c.q[c.wb]) > 0
  BY <1>1, <1>2, <1>3, <1>4, AddShape
<1> QED BY <1>2, <1>5 DEF Good, Writable, content, b_write_avail

\* the room in the write block is a natural
LEMMA WriteAvail ==
  ASSUME NEW b, Good(b)
  PROVE  b_write_avail(b) \in Nat
<1>1. /\ b.q \in Seq(BlockT) /\ Len(b.q) \in Nat /\ b.wb \in Nat /\ b.wb <= Len(b.q)
  BY ShapeTypes DEF Good
<1>2. CASE b.wb = END
  BY <1>2 DEF b_write_avail
<1>3. CASE b.wb # END
  <2>1. b.wb \in 1 .. Len(b.q)
    BY <1>1, <1>3 DEF END
  <2>2. /\ b.q[b.wb].len \in Nat /\ Len(b.q[b.wb].data) \in Nat
        /\ Len(b.q[b.wb].data) <= b.q[b.wb].len
    BY <1>1, <2>1, BlockAt
  <2> QED BY <1>3, <2>2 DEF b_write_avail, write_avail
<1> QED BY <1>2, <1>3

\* a new queue
LEMMA NewGood == Good(NewQ) /\ Writable(NewQ) /\ content(NewQ) = <<>> /\ NewQ.avail = 0
<1>1. /\ NewQ.q = <<>> /\ NewQ.wb = END /\ NewQ.rb = END /\ NewQ.avail = 0 /\ IsQueue(NewQ)
  BY DEF NewQ, IsQueue
<1>2. <<>> \in Seq(BlockT) /\ Len(<<>>) = 0
  OBVIOUS
<1>3. Filled(<<>>, END)
  BY <1>2 DEF Filled
<1>4. Shape(<<>>, END, END, 0)
  BY <1>2, <1>3 DEF Shape, END
<1> QED BY <1>1, <1>4, WrittenNone DEF Good, Writable, content

-----------------------------------------------------------------------------
(* write.                                                                  *)

\* s is where a write of x to b has come to
Writing(s, b, x) ==
  /\ s = [b |-> s.b, left |-> s.left]
  /\ Good(s.b) /\ Writable(s.b) /\ s.left \in Seq(Nat)
  /\ content(s.b) \o s.left = content(b) \o x
  /\ s.b.avail + Len(s.left) = b.avail + Len(x)

\* one round of the loop: less is left to write
LEMMA WriteBlock ==
  ASSUME SizesAssumption, NEW b, NEW x, NEW s, Writing(s, b, x), NEW t, t = write_block(s)
  PROVE  /\ Writing(t, b, x)
         /\ IF s.left = <<>> THEN t.left = <<>> ELSE Len(t.left) < Len(s.left)
<1>1. CASE s.left = <<>>
  BY <1>1 DEF write_block
<1>2. CASE s.left # <<>>
  <2> DEFINE c == IF b_write_avail(s.b) = 0 THEN b_write_add_avail(s.b) ELSE s.b
             n == least(Len(s.left), b_write_avail(c))
             y == SubSeq(s.left, 1, n)
             z == SubSeq(s.left, n + 1, Len(s.left))
             d == b_write_incr(c, y)
  <2>1. t = [b |-> d, left |-> z]
    BY <1>2 DEF write_block
  <2> HIDE DEF c
  <2>2. /\ Good(c) /\ Writable(c) /\ content(c) = content(s.b) /\ c.avail = s.b.avail
        /\ b_write_avail(c) > 0 /\ b_write_avail(c) \in Nat
    <3>1. Good(s.b) /\ Writable(s.b) /\ b_write_avail(s.b) \in Nat
      BY WriteAvail DEF Writing
    <3>2. CASE b_write_avail(s.b) = 0
      <4>1. c = b_write_add_avail(s.b)
        BY <3>2 DEF c
      <4>2. /\ Good(c) /\ Writable(c) /\ content(c) = content(s.b) /\ c.avail = s.b.avail
            /\ b_write_avail(c) > 0
        BY <3>1, <3>2, <4>1, AddAvail
      <4> QED BY <4>2, WriteAvail
    <3>3. CASE b_write_avail(s.b) # 0
      BY <3>1, <3>3 DEF c
    <3> QED BY <3>2, <3>3
  <2>3. s.left \in Seq(Nat) /\ Len(s.left) \in Nat /\ Len(s.left) > 0
    <3>1. s.left \in Seq(Nat)
      BY DEF Writing
    <3> QED BY <1>2, <3>1
  <2> HIDE DEF n
  <2>4. n \in Nat /\ n <= Len(s.left) /\ n <= b_write_avail(c) /\ n > 0
    <3>1. /\ n \in Nat /\ n <= Len(s.left) /\ n <= b_write_avail(c)
          /\ n \in {Len(s.left), b_write_avail(c)}
      BY <2>2, <2>3, Least2 DEF n
    <3> QED BY <2>2, <2>3, <3>1
  <2>5. /\ y \in Seq(Nat) /\ Len(y) = n /\ z \in Seq(Nat) /\ Len(z) = Len(s.left) - n
        /\ s.left = y \o z
    BY <2>3, <2>4, BytesCut DEF Cuts
  <2> HIDE DEF y, z, d
  <2>6. y # <<>> /\ Len(y) <= b_write_avail(c)
    <3>1. Len(<<>>) = 0
      OBVIOUS
    <3> QED BY <2>4, <2>5, <3>1
  <2>7. Good(d) /\ Writable(d) /\ content(d) = content(c) \o y /\ d.avail = c.avail + Len(y)
    <3>1. d = b_write_incr(c, y) /\ y \in Seq(Nat) /\ Good(c)
      BY <2>2, <2>5 DEF d
    <3> QED BY <2>6, <3>1, WriteIncr
  <2>8. content(d) \o z = content(s.b) \o s.left
    <3>1. content(c) \in Seq(Nat)
      <4>1. c.q \in Seq(BlockT)
        BY <2>2, ShapeTypes DEF Good
      <4> QED BY <4>1, WrittenType DEF content
    <3>2. Associate(content(c), y, z)
      BY <2>5, <3>1, BytesAssoc
    <3> QED BY <2>2, <2>5, <2>7, <3>2 DEF Associate
  <2>9. d.avail + Len(z) = s.b.avail + Len(s.left)
    <3>1. s.b.avail \in Nat
      BY ShapeTypes DEF Good, Writing
    <3>2. d.avail = s.b.avail + n /\ Len(z) = Len(s.left) - n
      BY <2>2, <2>5, <2>7
    <3> DEFINE k == Len(s.left)
               a == s.b.avail
               l == Len(z)
    <3> HIDE DEF k, a, l
    <3>3. d.avail = a + n /\ l = k - n /\ a \in Nat /\ k \in Nat /\ n \in Nat
      BY <2>3, <2>4, <3>1, <3>2 DEF k, a, l
    <3>4. d.avail + l = a + k
      BY <3>3
    <3> QED BY <3>4 DEF k, a, l
  <2>10. t.b = d /\ t.left = z /\ t = [b |-> t.b, left |-> t.left]
    BY <2>1
  <2>11. Writing(t, b, x)
    BY <2>5, <2>7, <2>8, <2>9, <2>10 DEF Writing
  <2>12. Len(t.left) < Len(s.left)
    BY <2>3, <2>4, <2>5, <2>10
  <2> QED BY <1>2, <2>11, <2>12
<1> QED BY <1>1, <1>2

\* f is the function write(b, x) is defined by
Writes(f, b, x) ==
  f = [i \in 0 .. Len(x) |-> IF i = 0 THEN [b |-> b, left |-> x] ELSE write_block(f[i - 1])]

\* there is such a function: each round follows from the one before
LEMMA WritesExists ==
  ASSUME NEW b, NEW x, Len(x) \in Nat
  PROVE  \E f : Writes(f, b, x)
<1> DEFINE l == Len(x)
           first == [b |-> b, left |-> x]
           Eq(g, i) == g[i] = IF i = 0 THEN first ELSE write_block(g[i - 1])
           UpTo(g, n) == \A i \in 0 .. l : i <= n => Eq(g, i)
           N == {n \in Nat : \E g : UpTo(g, n)}
<1> HIDE DEF first, l
<1>0. l \in Nat
  BY DEF l
<1>1. 0 \in N
  <2> DEFINE h == [i \in 0 .. l |-> first]
  <2>1. ASSUME NEW i \in 0 .. l, i <= 0 PROVE Eq(h, i)
    <3>1. i = 0
      BY <2>1
    <3> QED BY <3>1
  <2>2. UpTo(h, 0)
    BY <2>1
  <2> HIDE DEF h, UpTo
  <2> QED BY <2>2
<1>2. ASSUME NEW n \in Nat, n \in N PROVE n + 1 \in N
  <2>1. PICK g : UpTo(g, n)
    BY <1>2
  <2> DEFINE h == [i \in 0 .. l |-> IF i = 0 THEN first ELSE write_block(g[i - 1])]
  <2>2. ASSUME NEW i \in 0 .. l, i <= n PROVE h[i] = g[i]
    BY <2>1, <2>2
  <2>3. ASSUME NEW i \in 0 .. l, i <= n + 1 PROVE Eq(h, i)
    <3>1. CASE i = 0
      BY <3>1
    <3>2. CASE i # 0
      <4>1. i - 1 \in 0 .. l /\ i - 1 <= n
        BY <1>0, <2>3, <3>2
      <4>2. h[i - 1] = g[i - 1]
        BY <4>1, <2>2
      <4> QED BY <3>2, <4>2
    <3> QED BY <3>1, <3>2
  <2>4. UpTo(h, n + 1)
    BY <2>3
  <2>5. \E g1 : UpTo(g1, n + 1)
    <3> HIDE DEF h, UpTo
    <3> QED BY <2>4
  <2> HIDE DEF UpTo, h
  <2> QED BY <2>5
<1>3. l \in N
  <2> HIDE DEF N
  <2> QED BY <1>0, <1>1, <1>2, NatSteps
<1>4. PICK g : UpTo(g, l)
  BY <1>3
<1> DEFINE f == [i \in 0 .. l |-> g[i]]
<1>5. ASSUME NEW i \in 0 .. l PROVE f[i] = IF i = 0 THEN first ELSE write_block(f[i - 1])
  <2>1. i # 0 => i - 1 \in 0 .. l
    BY <1>0
  <2>2. i <= l
    BY <1>0
  <2> QED BY <1>4, <2>1, <2>2
<1>6. f = [i \in 0 .. l |-> IF i = 0 THEN first ELSE write_block(f[i - 1])]
  BY <1>5
<1>7. Writes(f, b, x)
  BY <1>6 DEF Writes, first, l
<1> QED BY <1>7

\* after as many rounds as there are bytes, x is written
LEMMA WriteKeeps ==
  ASSUME SizesAssumption, NEW b, Good(b), Writable(b), NEW x \in Seq(Nat), NEW c, c = write(b, x)
  PROVE  Good(c) /\ Writable(c) /\ content(c) = content(b) \o x /\ c.avail = b.avail + Len(x)
<1>0. Len(x) \in Nat
  OBVIOUS
<1> DEFINE f == CHOOSE g : Writes(g, b, x)
           l == Len(x)
<1>1. c = f[l].b
  BY DEF write, Writes
<1>2. Writes(f, b, x)
  BY <1>0, WritesExists
<1> HIDE DEF f, l
<1>3. f[0] = [b |-> b, left |-> x] /\ \A i \in 1 .. l : f[i] = write_block(f[i - 1])
  BY <1>0, <1>2 DEF Writes, l
<1> DEFINE N == {n \in Nat : n <= l => Writing(f[n], b, x) /\ Len(f[n].left) <= l - n}
<1>4. 0 \in N
  <2>1. f[0].b = b /\ f[0].left = x
    BY <1>3
  <2>2. Writing(f[0], b, x)
    BY <1>3, <2>1 DEF Writing
  <2> QED BY <1>0, <2>1, <2>2 DEF l
<1>5. ASSUME NEW n \in Nat, n \in N PROVE n + 1 \in N
  <2> SUFFICES ASSUME n + 1 <= l
               PROVE  Writing(f[n + 1], b, x) /\ Len(f[n + 1].left) <= l - (n + 1)
    OBVIOUS
  <2>0. l \in Nat
    BY <1>0 DEF l
  <2>1. n + 1 \in 1 .. l /\ (n + 1) - 1 = n /\ n <= l
    BY <2>0
  <2>2. f[n + 1] = write_block(f[n])
    BY <1>3, <2>1
  <2>3. Writing(f[n], b, x) /\ Len(f[n].left) <= l - n
    BY <1>5, <2>1
  <2>4. /\ Writing(f[n + 1], b, x)
        /\ IF f[n].left = <<>> THEN f[n + 1].left = <<>> ELSE Len(f[n + 1].left) < Len(f[n].left)
    BY <2>2, <2>3, WriteBlock
  <2>5. Len(f[n + 1].left) <= l - (n + 1)
    <3>1. f[n].left \in Seq(Nat) /\ f[n + 1].left \in Seq(Nat)
      BY <2>3, <2>4 DEF Writing
    <3>2. Len(f[n].left) \in Nat /\ Len(f[n + 1].left) \in Nat /\ Len(<<>>) = 0
      BY <3>1
    <3>3. f[n].left = <<>> => Len(f[n + 1].left) = 0
      BY <2>4, <3>2
    <3>4. f[n].left # <<>> => Len(f[n + 1].left) < Len(f[n].left)
      BY <2>4
    <3> QED BY <2>0, <2>3, <3>2, <3>3, <3>4
  <2> QED BY <2>4, <2>5
<1>6. l \in N
  <2> HIDE DEF N
  <2>1. l \in Nat
    BY <1>0 DEF l
  <2> QED BY <1>4, <1>5, <2>1, NatSteps
<1>7. Writing(f[l], b, x) /\ Len(f[l].left) <= 0
  BY <1>0, <1>6 DEF l
<1>8. f[l].left = <<>> /\ Good(c) /\ Writable(c)
  <2>1. f[l].left \in Seq(Nat)
    BY <1>7 DEF Writing
  <2>2. f[l].left = <<>>
    BY <1>7, <2>1
  <2> QED BY <1>1, <1>7, <2>2 DEF Writing
<1>9. content(c) \o <<>> = content(b) \o x /\ c.avail + 0 = b.avail + Len(x)
  BY <1>1, <1>7, <1>8 DEF Writing
<1>10. content(c) \in Seq(Nat) /\ c.avail \in Nat
  <2>1. c.q \in Seq(BlockT) /\ c.avail \in Nat
    BY <1>8, ShapeTypes DEF Good
  <2> QED BY <2>1, WrittenType DEF content
<1>11. content(c) = content(b) \o x
  BY <1>9, <1>10, ConcatEmpty
<1> QED BY <1>8, <1>9, <1>10, <1>11

-----------------------------------------------------------------------------
(* read.                                                                   *)

\* how many bytes of a queue were read
read_of(b) == Len(content(b)) - b.avail

\* the bytes before the read block and those read of it
LEMMA ReadOf ==
  ASSUME NEW b, Good(b)
  PROVE  /\ content(b) \in Seq(Nat) /\ Len(content(b)) \in Nat /\ b.avail \in Nat
         /\ read_of(b) \in Nat /\ read_of(b) + b.avail = Len(content(b))
         /\ b.rb # END => read_of(b) = held(b.q, b.rb - 1) + b.q[b.rb].read
<1>1. Shape(b.q, b.wb, b.rb, b.avail)
  BY DEF Good
<1>2. b.q \in Seq(BlockT) /\ b.avail \in Nat
  BY <1>1, ShapeTypes
<1>3. content(b) \in Seq(Nat) /\ Len(content(b)) \in Nat
  BY <1>2, WrittenType DEF content
<1>4. CASE b.rb = END
  <2>1. b.avail = 0
    BY <1>1, <1>4 DEF Shape
  <2> QED BY <1>3, <1>4, <2>1 DEF read_of
<1>5. CASE b.rb # END
  <2>1. /\ b.rb \in 1 .. Len(b.q)
        /\ Len(content(b)) = held(b.q, b.rb - 1) + b.q[b.rb].read + b.avail
    BY <1>1, <1>5 DEF Shape, AtRead, content
  <2>2. held(b.q, b.rb - 1) \in Nat /\ b.q[b.rb].read \in Nat
    BY <1>2, <2>1, HeldStep, BlockAt
  <2> DEFINE m == held(b.q, b.rb - 1)
             a == b.q[b.rb].read
             l == Len(content(b))
  <2> HIDE DEF m, a, l
  <2>3. m \in Nat /\ a \in Nat /\ l = m + a + b.avail
    BY <2>1, <2>2 DEF m, a, l
  <2>4. l - b.avail = m + a /\ l - b.avail \in Nat /\ (l - b.avail) + b.avail = l
    BY <1>2, <2>3
  <2> QED BY <1>2, <1>3, <2>4 DEF read_of, m, a, l
<1> QED BY <1>4, <1>5

\* s is where a read of n bytes of b has come to
Reading(s, b, n) ==
  /\ s = [b |-> s.b, left |-> s.left, got |-> s.got]
  /\ Good(s.b) /\ s.left \in Nat /\ s.left <= n /\ s.left <= s.b.avail
  /\ content(s.b) = content(b) /\ s.b.avail + n = b.avail + s.left
  /\ s.got = SubSeq(content(b), read_of(b) + 1, read_of(b) + (n - s.left))

\* one round of the loop: less is left to read
LEMMA ReadBlock ==
  ASSUME NEW b, Good(b), NEW n \in Nat, n <= b.avail, NEW s, Reading(s, b, n),
         NEW t, t = read_block(s)
  PROVE  /\ Reading(t, b, n)
         /\ IF s.left = 0 THEN t.left = 0 ELSE t.left < s.left
<1>1. CASE s.left = 0
  BY <1>1 DEF read_block
<1>2. CASE s.left # 0
  <2> DEFINE k == least(s.left, b_read_avail(s.b))
             blk == s.b.q[s.b.rb]
             y == SubSeq(blk.data, blk.read + 1, blk.read + k)
             d == b_read_incr(s.b, k)
  <2>1. t = [b |-> d, left |-> s.left - k, got |-> s.got \o y]
    BY <1>2, Zenon DEF read_block
  <2> HIDE DEF k
  <2>2. /\ Good(s.b) /\ s.left \in Nat /\ s.left <= n /\ s.left <= s.b.avail
        /\ content(s.b) = content(b) /\ s.b.avail + n = b.avail + s.left
        /\ s.got = SubSeq(content(b), read_of(b) + 1, read_of(b) + (n - s.left))
    BY Zenon DEF Reading
  <2>3. /\ b_read_avail(s.b) = IF s.b.rb = END THEN 0 ELSE read_avail(s.b.q[s.b.rb])
        /\ b_read_avail(s.b) \in Nat /\ b_read_avail(s.b) <= s.b.avail
        /\ s.b.avail > 0 => s.b.rb # END /\ b_read_avail(s.b) > 0
    BY <2>2, ReadAvail
  <2>4. s.b.avail \in Nat /\ s.b.avail > 0
    <3>1. s.b.avail \in Nat
      BY <2>2, ReadOf
    <3> QED BY <1>2, <2>2, <3>1
  <2>5. k \in Nat /\ k > 0 /\ k <= s.left /\ k <= b_read_avail(s.b)
    <3>1. /\ k \in Nat /\ k <= s.left /\ k <= b_read_avail(s.b)
          /\ k \in {s.left, b_read_avail(s.b)}
      BY <2>2, <2>3, Least2 DEF k
    <3> QED BY <1>2, <2>2, <2>3, <2>4, <3>1
  <2>6. Good(d) /\ content(d) = content(s.b) /\ d.avail = s.b.avail - k
    BY <2>2, <2>5, ReadIncr
  <2> DEFINE P == read_of(s.b)
             R == read_of(b)
             C == content(b)
  <2>7. /\ P \in Nat /\ P + s.b.avail = Len(C) /\ R \in Nat /\ R + b.avail = Len(C)
        /\ C \in Seq(Nat) /\ Len(C) \in Nat /\ b.avail \in Nat
    <3>1. P \in Nat /\ P + s.b.avail = Len(content(s.b))
      BY <2>2, ReadOf, Zenon
    <3>2. /\ R \in Nat /\ R + b.avail = Len(C)
          /\ C \in Seq(Nat) /\ Len(C) \in Nat /\ b.avail \in Nat
      BY ReadOf, Zenon
    <3>3. content(s.b) = C
      BY <2>2
    <3> QED BY <3>1, <3>2, <3>3, Zenon
  <2>8. y = SubSeq(C, P + 1, P + k)
    <3>1. s.b.rb # END /\ s.b.q \in Seq(BlockT) /\ s.b.rb \in 1 .. Len(s.b.q)
      <4>1. s.b.rb # END
        BY <2>3, <2>4
      <4> QED BY <2>2, <4>1, AvailIs DEF Good
    <3>2. P = held(s.b.q, s.b.rb - 1) + blk.read
      BY <2>2, <3>1, ReadOf
    <3>3. blk.read \in Nat /\ Len(blk.data) \in Nat
      BY <3>1, BlockAt
    <3>4. blk.read + k <= Len(blk.data)
      <4> DEFINE m == Len(blk.data)
                 v == blk.read
      <4>1. k <= m - v
        <5>1. b_read_avail(s.b) = read_avail(s.b.q[s.b.rb])
          BY <2>3, <3>1
        <5>2. read_avail(s.b.q[s.b.rb]) = m - v
          BY DEF read_avail
        <5> QED BY <2>5, <5>1, <5>2
      <4>2. m \in Nat /\ v \in Nat
        BY <3>3
      <4> HIDE DEF m, v
      <4>3. v + k <= m
        BY <2>5, <4>1, <4>2
      <4> QED BY <4>3 DEF m, v
    <3>5. y = SubSeq(written(s.b.q), held(s.b.q, s.b.rb - 1) + blk.read + 1,
                                     held(s.b.q, s.b.rb - 1) + blk.read + k)
      BY <2>5, <3>1, <3>3, <3>4, PieceAt
    <3>6. written(s.b.q) = C
      BY <2>2 DEF content
    <3> QED BY <3>2, <3>5, <3>6, Zenon
  <2> HIDE DEF P, R, C, d, y, blk
  <2>9. P = R + (n - s.left) /\ R + (n - (s.left - k)) = P + k /\ P + k <= Len(C) /\ R <= P
    <3> DEFINE l == Len(C)
               a == s.b.avail
               m == s.left
               z == b.avail
    <3>1. /\ P \in Nat /\ R \in Nat /\ P + a = l /\ R + z = l /\ a + n = z + m
          /\ m <= n /\ m <= a /\ k <= m /\ a \in Nat /\ l \in Nat /\ m \in Nat /\ z \in Nat
      BY <2>2, <2>4, <2>5, <2>7
    <3> HIDE DEF l, a, m, z
    <3>2. P = R + (n - m) /\ R + (n - (m - k)) = P + k /\ P + k <= l /\ R <= P
      BY <2>5, <3>1
    <3> QED BY <3>2 DEF l, m
  <2>10. s.got \o y = SubSeq(C, R + 1, P + k)
    <3>1. s.got = SubSeq(C, R + 1, P)
      BY <2>2, <2>9 DEF R, C
    <3>2. P + k \in Nat /\ P <= P + k
      BY <2>5, <2>7
    <3> DEFINE e == P + k
    <3> HIDE DEF e
    <3>3. PiecesJoin(C, R, P, e)
      <4>1. e \in Nat /\ P <= e /\ e <= Len(C)
        BY <2>9, <3>2 DEF e
      <4> QED BY <2>7, <2>9, <4>1, BytesJoin
    <3> QED BY <2>8, <3>1, <3>3, Zenon DEF PiecesJoin, e
  <2>11. t.b = d /\ t.left = s.left - k /\ t.got = s.got \o y
         /\ t = [b |-> t.b, left |-> t.left, got |-> t.got]
    BY <2>1
  <2>12. t.left \in Nat /\ t.left <= n /\ t.left < s.left /\ t.left <= d.avail
         /\ d.avail + n = b.avail + t.left
    <3> DEFINE a == s.b.avail
               m == s.left
               z == b.avail
    <3>1. /\ a + n = z + m /\ m <= n /\ m <= a /\ k <= m /\ a \in Nat /\ m \in Nat /\ z \in Nat
          /\ t.left = m - k /\ d.avail = a - k
      BY <2>2, <2>4, <2>5, <2>6, <2>7, <2>11
    <3> HIDE DEF a, m, z
    <3>2. t.left \in Nat /\ t.left <= n /\ t.left < m /\ t.left <= d.avail
          /\ d.avail + n = z + t.left
      BY <2>5, <3>1
    <3> QED BY <3>2 DEF m, z
  <2>13. t.got = SubSeq(C, R + 1, R + (n - t.left))
    BY <2>9, <2>10, <2>11
  <2>14. Reading(t, b, n)
    <3>1. /\ Good(t.b) /\ content(t.b) = content(b) /\ t.left <= t.b.avail
          /\ t.b.avail + n = b.avail + t.left
      BY <2>2, <2>6, <2>11, <2>12, Zenon
    <3>2. t.got = SubSeq(content(b), read_of(b) + 1, read_of(b) + (n - t.left))
      BY <2>13 DEF R, C
    <3> QED BY <2>11, <2>12, <3>1, <3>2, Zenon DEF Reading
  <2> QED BY <1>2, <2>12, <2>14, Zenon
<1> QED BY <1>1, <1>2

\* f is the function read(b, n) is defined by
Reads(f, b, n) ==
  f = [i \in 0 .. n |-> IF i = 0 THEN [b |-> b, left |-> n, got |-> <<>>] ELSE read_block(f[i - 1])]

\* there is such a function: each round follows from the one before
LEMMA ReadsExists ==
  ASSUME NEW b, NEW l \in Nat
  PROVE  \E f : Reads(f, b, l)
<1> DEFINE first == [b |-> b, left |-> l, got |-> <<>>]
           Eq(g, i) == g[i] = IF i = 0 THEN first ELSE read_block(g[i - 1])
           UpTo(g, n) == \A i \in 0 .. l : i <= n => Eq(g, i)
           N == {n \in Nat : \E g : UpTo(g, n)}
<1> HIDE DEF first
<1>1. 0 \in N
  <2> DEFINE h == [i \in 0 .. l |-> first]
  <2>1. ASSUME NEW i \in 0 .. l, i <= 0 PROVE Eq(h, i)
    <3>1. i = 0
      BY <2>1
    <3> QED BY <3>1
  <2>2. UpTo(h, 0)
    BY <2>1
  <2> HIDE DEF h, UpTo
  <2> QED BY <2>2
<1>2. ASSUME NEW n \in Nat, n \in N PROVE n + 1 \in N
  <2>1. PICK g : UpTo(g, n)
    BY <1>2
  <2> DEFINE h == [i \in 0 .. l |-> IF i = 0 THEN first ELSE read_block(g[i - 1])]
  <2>2. ASSUME NEW i \in 0 .. l, i <= n PROVE h[i] = g[i]
    BY <2>1, <2>2
  <2>3. ASSUME NEW i \in 0 .. l, i <= n + 1 PROVE Eq(h, i)
    <3>1. CASE i = 0
      BY <3>1
    <3>2. CASE i # 0
      <4>1. i - 1 \in 0 .. l /\ i - 1 <= n
        BY <2>3, <3>2
      <4>2. h[i - 1] = g[i - 1]
        BY <4>1, <2>2
      <4> QED BY <3>2, <4>2
    <3> QED BY <3>1, <3>2
  <2>4. UpTo(h, n + 1)
    BY <2>3
  <2>5. \E g1 : UpTo(g1, n + 1)
    <3> HIDE DEF h, UpTo
    <3> QED BY <2>4
  <2> HIDE DEF UpTo, h
  <2> QED BY <2>5
<1>3. l \in N
  <2> HIDE DEF N
  <2> QED BY <1>1, <1>2, NatSteps
<1>4. PICK g : UpTo(g, l)
  BY <1>3
<1> DEFINE f == [i \in 0 .. l |-> g[i]]
<1>5. ASSUME NEW i \in 0 .. l PROVE f[i] = IF i = 0 THEN first ELSE read_block(f[i - 1])
  <2>1. i # 0 => i - 1 \in 0 .. l
    OBVIOUS
  <2>2. i <= l
    OBVIOUS
  <2> QED BY <1>4, <2>1, <2>2
<1>6. f = [i \in 0 .. l |-> IF i = 0 THEN first ELSE read_block(f[i - 1])]
  BY <1>5
<1>7. Reads(f, b, l)
  BY <1>6 DEF Reads, first
<1> QED BY <1>7

\* what read leaves, and what it copies out
LEMMA ReadKeeps ==
  ASSUME NEW b, Good(b), NEW n \in Nat, n <= b.avail, NEW r, r = read(b, n)
  PROVE  /\ Good(r.b) /\ content(r.b) = content(b) /\ r.b.avail = b.avail - n
         /\ read_of(r.b) = read_of(b) + n
         /\ r.got = SubSeq(content(b), read_of(b) + 1, read_of(b) + n)
<1> DEFINE f == CHOOSE g : Reads(g, b, n)
<1>1. r = f[n]
  BY DEF read, Reads
<1>2. Reads(f, b, n)
  BY ReadsExists
<1> HIDE DEF f
<1>3. /\ f[0] = [b |-> b, left |-> n, got |-> <<>>]
      /\ \A i \in 1 .. n : f[i] = read_block(f[i - 1])
  BY <1>2 DEF Reads
<1> DEFINE N == {i \in Nat : i <= n => Reading(f[i], b, n) /\ f[i].left <= n - i}
<1>4. 0 \in N
  <2>1. f[0].b = b /\ f[0].left = n /\ f[0].got = <<>> /\ f[0] = [b |-> f[0].b, left |-> f[0].left, got |-> f[0].got]
    BY <1>3
  <2>2. content(b) \in Seq(Nat) /\ read_of(b) \in Nat
    BY ReadOf
  <2>3. SubSeq(content(b), read_of(b) + 1, read_of(b) + (n - n)) = <<>>
    <3> DEFINE C == content(b)
               R == read_of(b)
    <3> HIDE DEF C, R
    <3>1. C \in Seq(Nat) /\ R \in Nat /\ R + (n - n) = R
      BY <2>2 DEF C, R
    <3>2. SubSeq(C, R + 1, R) = <<>>
      BY <3>1
    <3> QED BY <3>1, <3>2 DEF C, R
  <2>4. Reading(f[0], b, n)
    <3>1. n \in Nat /\ n <= n /\ n <= b.avail /\ b.avail + n = b.avail + n
      OBVIOUS
    <3> QED BY <2>1, <2>3, <3>1, Zenon DEF Reading
  <2> QED BY <2>1, <2>4
<1>5. ASSUME NEW i \in Nat, i \in N PROVE i + 1 \in N
  <2> SUFFICES ASSUME i + 1 <= n
               PROVE  Reading(f[i + 1], b, n) /\ f[i + 1].left <= n - (i + 1)
    OBVIOUS
  <2>1. i + 1 \in 1 .. n /\ (i + 1) - 1 = i /\ i <= n
    OBVIOUS
  <2>2. f[i + 1] = read_block(f[i])
    BY <1>3, <2>1
  <2>3. Reading(f[i], b, n) /\ f[i].left <= n - i
    BY <1>5, <2>1
  <2>4. /\ Reading(f[i + 1], b, n)
        /\ IF f[i].left = 0 THEN f[i + 1].left = 0 ELSE f[i + 1].left < f[i].left
    BY <2>2, <2>3, ReadBlock
  <2>5. f[i + 1].left <= n - (i + 1)
    <3>1. f[i].left \in Nat /\ f[i + 1].left \in Nat
      BY <2>3, <2>4 DEF Reading
    <3> QED BY <2>3, <2>4, <3>1
  <2> QED BY <2>4, <2>5
<1>6. n \in N
  <2> HIDE DEF N
  <2> QED BY <1>4, <1>5, NatSteps
<1>7. Reading(r, b, n) /\ r.left <= n - n
  BY <1>1, <1>6
<1>8. /\ Good(r.b) /\ r.left = 0 /\ content(r.b) = content(b) /\ r.b.avail + n = b.avail + r.left
      /\ r.got = SubSeq(content(b), read_of(b) + 1, read_of(b) + (n - r.left))
  BY <1>7 DEF Reading
<1>9. r.b.avail \in Nat /\ b.avail \in Nat /\ Len(content(b)) \in Nat /\ read_of(b) \in Nat
  BY <1>8, ReadOf
<1>10. r.b.avail = b.avail - n /\ n - r.left = n
  BY <1>8, <1>9
<1>11. read_of(r.b) = read_of(b) + n
  <2> DEFINE l == Len(content(b))
  <2> HIDE DEF l
  <2>1. l - (b.avail - n) = (l - b.avail) + n
    BY <1>9 DEF l
  <2> QED BY <1>8, <1>10, <2>1 DEF read_of, l
<1> QED BY <1>8, <1>10, <1>11

-----------------------------------------------------------------------------
(* From the start: reset_read, reset_write and join_ref.                   *)

\* a queue of which nothing was read
LEMMA StartShape ==
  ASSUME NEW q \in Seq(BlockT), NEW wb \in 0 .. Len(q), Filled(q, wb),
         \A i \in 1 .. Len(q) : q[i].read = 0,
         NEW rb, rb = IF q = <<>> THEN END ELSE 1
  PROVE  Shape(q, wb, rb, Len(written(q)))
<1>0. Len(q) \in Nat /\ Len(written(q)) \in Nat
  BY WrittenType
<1>1. CASE q = <<>>
  <2>1. rb = END /\ rb \in 0 .. Len(q) /\ Len(written(q)) = 0
    <3>1. Len(written(<<>>)) = 0
      BY WrittenNone
    <3> QED BY <1>1, <3>1 DEF END
  <2>2. wb = END
    BY <1>1 DEF END
  <2> QED BY <1>0, <1>1, <2>1, <2>2 DEF Shape
<1>2. CASE q # <<>>
  <2>1. rb = 1 /\ 1 \in 1 .. Len(q) /\ 1 \in 0 .. Len(q)
    <3>1. Len(q) # 0
      BY <1>2
    <3> QED BY <1>0, <1>2, <3>1
  <2>2. Len(written(q)) = held(q, 1 - 1) + q[1].read + Len(written(q))
    <3>1. held(q, 1 - 1) = 0
      BY HeldEnds
    <3>2. q[1].read = 0
      BY <2>1
    <3> QED BY <1>0, <3>1, <3>2
  <2>3. ASSUME Len(written(q)) > 0 PROVE q[1].read < Len(q[1].data)
    <3>1. q[1].data \in Seq(Nat)
      BY <2>1, BlockAt
    <3>2. ASSUME q[1].data = <<>> PROVE FALSE
      <4>1. ASSUME NEW i \in 1 .. Len(q) PROVE q[i].data = <<>>
        <5>1. i = 1 \/ 1 < i
          OBVIOUS
        <5> QED BY <2>1, <3>2, <5>1 DEF Filled
      <4>2. written(q) = <<>>
        BY <4>1, WrittenEmpties
      <4> QED BY <2>3, <4>2
    <3>3. Len(q[1].data) > 0
      BY <3>1, <3>2
    <3> QED BY <2>1, <3>3
  <2>4. AtRead(q, 1, Len(written(q)))
    <3>1. \A i \in 1 .. Len(q) : ~(i < 1)
      OBVIOUS
    <3> QED BY <2>1, <2>2, <2>3, <3>1 DEF AtRead
  <2>5. wb # END => rb <= wb
    BY <2>1 DEF END
  <2> QED BY <1>0, <1>2, <2>1, <2>4, <2>5 DEF Shape, END
<1> QED BY <1>1, <1>2

\* q with nothing of it read
Unread(q) == [i \in DOMAIN q |-> [q[i] EXCEPT !.read = 0]]

\* the blocks of q and r are the same but for what was read of them
SameButRead(q, r) ==
  /\ DOMAIN q = DOMAIN r /\ (q = <<>> <=> r = <<>>)
  /\ \A i \in DOMAIN q : q[i].data = r[i].data /\ [q[i] EXCEPT !.read = 0] = [r[i] EXCEPT !.read = 0]

\* a block with nothing read of it
AsUnread(blk) == [blk EXCEPT !.read = 0]

\* is a block
LEMMA UnreadBlock ==
  ASSUME NEW blk \in BlockT, NEW c, c = AsUnread(blk)
  PROVE  /\ c \in BlockT /\ c.data = blk.data /\ c.len = blk.len /\ c.ref = blk.ref /\ c.read = 0
<1>1. /\ blk.data \in Seq(Nat) /\ blk.len \in Nat /\ blk.read \in Nat /\ blk.ref \in BOOLEAN
      /\ Len(blk.data) \in Nat /\ blk.read <= Len(blk.data) /\ Len(blk.data) <= blk.len
  BY BlockIs
<1>2. blk = [data |-> blk.data, len |-> blk.len, read |-> blk.read, ref |-> blk.ref]
  BY DEF BlockT
<1>3. c = [data |-> blk.data, len |-> blk.len, read |-> 0, ref |-> blk.ref]
  BY <1>2 DEF AsUnread
<1>4. /\ c.data = blk.data /\ c.len = blk.len /\ c.ref = blk.ref /\ c.read = 0
      /\ c \in [data : Seq(Nat), len : Nat, read : Nat, ref : BOOLEAN]
  <2>1. HasFields(c, blk.data, blk.len, 0, blk.ref)
    BY <1>1, <1>3, BlockOf
  <2> QED BY <2>1, Zenon DEF HasFields
<1>5. c.read <= Len(c.data) /\ Len(c.data) <= c.len
  BY <1>1, <1>4
<1>6. c.len > 0 \/ c.ref
  BY <1>4, BlockIs
<1> QED BY <1>4, <1>5, <1>6 DEF BlockT

\* the blocks of r, from the start
LEMMA UnreadIs ==
  ASSUME NEW q, NEW r \in Seq(BlockT), SameButRead(q, r)
  PROVE  /\ Unread(q) \in Seq(BlockT) /\ Len(Unread(q)) = Len(r) /\ DOMAIN q = 1 .. Len(r)
         /\ \A i \in 1 .. Len(r) : /\ Unread(q)[i].data = r[i].data
                                   /\ Unread(q)[i].len = r[i].len
                                   /\ Unread(q)[i].read = 0
         /\ written(Unread(q)) = written(r) /\ written(q) = written(r)
         /\ Unread(q) = <<>> <=> r = <<>>
<1> DEFINE l == Len(r)
           x(i) == [r[i] EXCEPT !.read = 0]
           u == Unread(q)
<1>1. l \in Nat /\ DOMAIN r = 1 .. l /\ DOMAIN q = 1 .. l
  BY DEF SameButRead
<1>2. \A i \in 1 .. l : /\ x(i) \in BlockT /\ x(i).data = r[i].data /\ x(i).len = r[i].len
                        /\ x(i).read = 0
  <2> TAKE i \in 1 .. l
  <2>1. r[i] \in BlockT
    BY BlockAt
  <2> QED BY <2>1, UnreadBlock DEF AsUnread
<1>3. u = [i \in 1 .. l |-> x(i)]
  BY <1>1 DEF Unread, SameButRead
<1>4. u \in Seq(BlockT) /\ Len(u) = l /\ \A i \in 1 .. l : u[i] = x(i)
  <2>1. \A i \in 1 .. l : x(i) \in BlockT
    BY <1>2
  <2> HIDE DEF x, l, u
  <2> QED BY <1>1, <1>3, <2>1
<1>5. written(u) = written(r)
  <2>1. \A i \in 1 .. Len(u) : u[i].data = r[i].data
    BY <1>2, <1>4
  <2> HIDE DEF u, x
  <2> QED BY <1>4, <2>1, WrittenSame
<1>6. written(q) = written(r)
  <2>1. [i \in DOMAIN q |-> q[i].data] = [i \in DOMAIN r |-> r[i].data]
    BY DEF SameButRead
  <2> QED BY <2>1 DEF written
<1>7. u = <<>> <=> r = <<>>
  <2> HIDE DEF u, x
  <2>1. u = <<>> <=> Len(u) = 0
    BY <1>4
  <2>2. r = <<>> <=> Len(r) = 0
    OBVIOUS
  <2> QED BY <1>4, <2>1, <2>2 DEF l
<1> HIDE DEF x
<1> QED BY <1>1, <1>2, <1>4, <1>5, <1>6, <1>7

\* a rewind
LEMMA ResetReadKeeps ==
  ASSUME NEW b, IsQueue(b), NEW r \in Seq(BlockT), SameButRead(b.q, r),
         b.wb \in 0 .. Len(r), Filled(r, b.wb), NEW c, c = reset_read(b)
  PROVE  /\ Good(c) /\ content(c) = written(r) /\ c.avail = Len(written(r)) /\ read_of(c) = 0
         /\ c.wb = b.wb
<1> DEFINE u == Unread(b.q)
<1>1. /\ u \in Seq(BlockT) /\ Len(u) = Len(r) /\ DOMAIN b.q = 1 .. Len(r)
      /\ \A i \in 1 .. Len(r) : /\ u[i].data = r[i].data /\ u[i].len = r[i].len
                                /\ u[i].read = 0
      /\ written(u) = written(r) /\ written(b.q) = written(r)
      /\ u = <<>> <=> r = <<>>
  BY UnreadIs
<1> HIDE DEF u
<1>2. /\ IsQueue(c) /\ c.q = u /\ c.wb = b.wb /\ c.avail = Len(written(b.q)) /\ c.rb = Begin(b)
  BY DEF reset_read, IsQueue, u, Unread, content
<1>3. c.rb = IF u = <<>> THEN END ELSE 1
  BY <1>1, <1>2 DEF Begin, SameButRead
<1>4. Filled(u, b.wb) /\ b.wb \in 0 .. Len(u) /\ \A i \in 1 .. Len(u) : u[i].read = 0
  BY <1>1 DEF Filled
<1>5. Shape(u, b.wb, c.rb, Len(written(u)))
  BY <1>1, <1>3, <1>4, StartShape
<1>6. Good(c) /\ content(c) = written(r) /\ c.avail = Len(written(r))
  BY <1>1, <1>2, <1>5 DEF Good, content
<1>7. read_of(c) = 0
  <2>1. Len(written(r)) \in Nat
    BY WrittenType
  <2> QED BY <1>6, <2>1 DEF read_of
<1> QED BY <1>2, <1>6, <1>7

\* of a queue that keeps the invariant: every byte is to be read again
LEMMA ResetReadRewinds ==
  ASSUME NEW b, Good(b), NEW c, c = reset_read(b)
  PROVE  /\ Good(c) /\ content(c) = content(b) /\ c.avail = Len(content(b)) /\ read_of(c) = 0
<1>1. IsQueue(b) /\ b.q \in Seq(BlockT) /\ b.wb \in 0 .. Len(b.q) /\ Filled(b.q, b.wb)
  BY DEF Good, Shape
<1>2. SameButRead(b.q, b.q)
  BY DEF SameButRead
<1> QED BY <1>1, <1>2, ResetReadKeeps DEF content

\* an emptied block of the queue's own
EmptyT == {blk \in BlockT : blk.data = <<>> /\ blk.read = 0 /\ blk.len > 0}

\* what is made of a block that is not a reference
Emptied(blk) == [blk EXCEPT !.data = <<>>, !.read = 0]

\* has room and no bytes
LEMMA EmptiedBlock ==
  ASSUME NEW blk \in BlockT, ~blk.ref, NEW c, c = Emptied(blk)
  PROVE  c \in EmptyT
<1>1. /\ blk.data \in Seq(Nat) /\ blk.len \in Nat /\ blk.read \in Nat /\ blk.ref \in BOOLEAN
  BY BlockIs
<1>2. blk = [data |-> blk.data, len |-> blk.len, read |-> blk.read, ref |-> blk.ref]
  BY DEF BlockT
<1>3. c = [data |-> <<>>, len |-> blk.len, read |-> 0, ref |-> blk.ref]
  BY <1>2 DEF Emptied
<1>4. <<>> \in Seq(Nat) /\ Len(<<>>) = 0
  OBVIOUS
<1>5. /\ c.data = <<>> /\ c.len = blk.len /\ c.ref = blk.ref /\ c.read = 0
      /\ c \in [data : Seq(Nat), len : Nat, read : Nat, ref : BOOLEAN]
  <2>1. HasFields(c, <<>>, blk.len, 0, blk.ref)
    BY <1>1, <1>3, <1>4, BlockOf
  <2> QED BY <2>1, Zenon DEF HasFields
<1>6. c.read <= Len(c.data) /\ Len(c.data) <= c.len
  BY <1>1, <1>4, <1>5
<1>7. c.len > 0
  BY <1>5, BlockIs
<1> QED BY <1>5, <1>6, <1>7 DEF BlockT, EmptyT

\* f is the function reset_write(b) is defined by
Keeps(f, q) ==
  f = [i \in 0 .. Len(q) |->
         IF i = 0 THEN <<>>
         ELSE IF q[i].ref THEN f[i - 1]
         ELSE Append(f[i - 1], [q[i] EXCEPT !.data = <<>>, !.read = 0])]

\* there is such a function: each block follows from the one before
LEMMA KeepsExists ==
  ASSUME NEW q, Len(q) \in Nat
  PROVE  \E f : Keeps(f, q)
<1> DEFINE l == Len(q)
           next(i, s) == IF q[i].ref THEN s ELSE Append(s, [q[i] EXCEPT !.data = <<>>, !.read = 0])
           Eq(g, i) == g[i] = IF i = 0 THEN <<>> ELSE next(i, g[i - 1])
           UpTo(g, n) == \A i \in 0 .. l : i <= n => Eq(g, i)
           N == {n \in Nat : \E g : UpTo(g, n)}
<1> HIDE DEF next, l
<1>0. l \in Nat
  BY DEF l
<1>1. 0 \in N
  <2> DEFINE h == [i \in 0 .. l |-> <<>>]
  <2>1. ASSUME NEW i \in 0 .. l, i <= 0 PROVE Eq(h, i)
    <3>1. i = 0
      BY <2>1
    <3> QED BY <3>1
  <2>2. UpTo(h, 0)
    BY <2>1
  <2> HIDE DEF h, UpTo
  <2> QED BY <2>2
<1>2. ASSUME NEW n \in Nat, n \in N PROVE n + 1 \in N
  <2>1. PICK g : UpTo(g, n)
    BY <1>2
  <2> DEFINE h == [i \in 0 .. l |-> IF i = 0 THEN <<>> ELSE next(i, g[i - 1])]
  <2>2. ASSUME NEW i \in 0 .. l, i <= n PROVE h[i] = g[i]
    BY <2>1, <2>2
  <2>3. ASSUME NEW i \in 0 .. l, i <= n + 1 PROVE Eq(h, i)
    <3>1. CASE i = 0
      BY <3>1
    <3>2. CASE i # 0
      <4>1. i - 1 \in 0 .. l /\ i - 1 <= n
        BY <1>0, <2>3, <3>2
      <4>2. h[i - 1] = g[i - 1]
        BY <4>1, <2>2
      <4> QED BY <3>2, <4>2
    <3> QED BY <3>1, <3>2
  <2>4. UpTo(h, n + 1)
    BY <2>3
  <2>5. \E g1 : UpTo(g1, n + 1)
    <3> HIDE DEF h, UpTo
    <3> QED BY <2>4
  <2> HIDE DEF UpTo, h
  <2> QED BY <2>5
<1>3. l \in N
  <2> HIDE DEF N
  <2> QED BY <1>0, <1>1, <1>2, NatSteps
<1>4. PICK g : UpTo(g, l)
  BY <1>3
<1> DEFINE f == [i \in 0 .. l |-> g[i]]
<1>5. ASSUME NEW i \in 0 .. l PROVE f[i] = IF i = 0 THEN <<>> ELSE next(i, f[i - 1])
  <2>1. i # 0 => i - 1 \in 0 .. l
    BY <1>0
  <2>2. i <= l
    BY <1>0
  <2> QED BY <1>4, <2>1, <2>2
<1>6. f = [i \in 0 .. l |-> IF i = 0 THEN <<>> ELSE next(i, f[i - 1])]
  BY <1>5
<1>7. Keeps(f, q)
  BY <1>6, Zenon DEF Keeps, next, l
<1> QED BY <1>7

\* reset_write leaves empty blocks of its own, and nothing to read
LEMMA ResetWriteKeeps ==
  ASSUME NEW b, Good(b), NEW c, c = reset_write(b)
  PROVE  Good(c) /\ content(c) = <<>> /\ c.avail = 0 /\ read_of(c) = 0
<1>0. IsQueue(b) /\ b.q \in Seq(BlockT) /\ Len(b.q) \in Nat
  BY ShapeTypes DEF Good
<1> DEFINE q == b.q
           f == CHOOSE g : Keeps(g, q)
           l == Len(q)
           k == f[l]
<1>1. /\ IsQueue(c) /\ c.q = k /\ c.avail = 0
      /\ c.wb = IF k = <<>> THEN END ELSE 1
      /\ c.rb = IF k = <<>> THEN END ELSE 1
  <2> DEFINE e == [b EXCEPT !.q = k]
  <2>1. c = [e EXCEPT !.wb = Begin(e), !.rb = Begin(e), !.avail = 0, !.off = 0]
    BY DEF reset_write, Keeps
  <2> HIDE DEF k
  <2>2. e = [q |-> k, wb |-> b.wb, rb |-> b.rb, off |-> b.off, avail |-> b.avail]
    BY <1>0 DEF IsQueue
  <2> HIDE DEF e
  <2> QED BY <2>1, <2>2 DEF Begin, IsQueue
<1>2. Keeps(f, q)
  BY <1>0, KeepsExists
<1> HIDE DEF f, q, l
<1>3. /\ f[0] = <<>> /\ l \in Nat
      /\ \A i \in 1 .. l : f[i] = IF q[i].ref THEN f[i - 1]
                                  ELSE Append(f[i - 1], [q[i] EXCEPT !.data = <<>>, !.read = 0])
  <2> DEFINE next(i, e) == IF q[i].ref THEN e
                           ELSE Append(e, [q[i] EXCEPT !.data = <<>>, !.read = 0])
  <2>1. f = [i \in 0 .. l |-> IF i = 0 THEN <<>> ELSE next(i, f[i - 1])]
    BY <1>2, Zenon DEF Keeps, l
  <2>2. l \in Nat
    BY <1>0 DEF l, q
  <2> HIDE DEF next
  <2>3. f[0] = <<>> /\ \A i \in 1 .. l : f[i] = next(i, f[i - 1])
    BY <2>1, <2>2
  <2> QED BY <2>2, <2>3, Zenon DEF next
<1> DEFINE N == {n \in Nat : n <= l => f[n] \in Seq(EmptyT)}
<1>4. 0 \in N
  <2>1. <<>> \in Seq(EmptyT)
    OBVIOUS
  <2> QED BY <1>3, <2>1
<1>5. ASSUME NEW n \in Nat, n \in N PROVE n + 1 \in N
  <2> SUFFICES ASSUME n + 1 <= l PROVE f[n + 1] \in Seq(EmptyT)
    OBVIOUS
  <2>0. l \in Nat
    BY <1>3
  <2>1. n + 1 \in 1 .. l /\ (n + 1) - 1 = n /\ n <= l
    BY <2>0
  <2> DEFINE i == n + 1
             e == [q[i] EXCEPT !.data = <<>>, !.read = 0]
  <2>2. f[i] = IF q[i].ref THEN f[n] ELSE Append(f[n], e)
    BY <1>3, <2>1, Zenon
  <2>3. f[n] \in Seq(EmptyT)
    BY <1>5, <2>1
  <2>4. ASSUME ~q[i].ref PROVE e \in EmptyT
    <3>1. q[i] \in BlockT
      BY <1>0, <2>1, BlockAt DEF q, l
    <3> QED BY <2>4, <3>1, EmptiedBlock DEF Emptied
  <2> HIDE DEF e
  <2> QED BY <2>2, <2>3, <2>4
<1>6. k \in Seq(EmptyT)
  <2> HIDE DEF N
  <2>0. l \in Nat /\ l <= l
    <3>1. l \in Nat
      BY <1>3
    <3> QED BY <3>1
  <2>1. l \in N
    BY <2>0, <1>4, <1>5, NatSteps
  <2>2. f[l] \in Seq(EmptyT)
    BY <2>0, <2>1, Zenon DEF N
  <2> QED BY <2>2
<1> HIDE DEF k
<1>7. /\ k \in Seq(BlockT) /\ Len(k) \in Nat
      /\ \A i \in 1 .. Len(k) : k[i].data = <<>> /\ k[i].read = 0 /\ k[i].len > 0
  <2>1. \A i \in 1 .. Len(k) : k[i] \in EmptyT
    BY <1>6
  <2>2. \A i \in 1 .. Len(k) : k[i] \in BlockT /\ k[i].data = <<>> /\ k[i].read = 0 /\ k[i].len > 0
    BY <2>1 DEF EmptyT
  <2>3. k \in Seq(BlockT)
    <3>1. EmptyT \subseteq BlockT
      BY DEF EmptyT
    <3> HIDE DEF EmptyT
    <3> QED BY <1>6, <3>1
  <2> QED BY <1>6, <2>2, <2>3
<1>8. written(k) = <<>>
  BY <1>7, WrittenEmpties
<1>9. c.wb \in 0 .. Len(k) /\ c.wb <= 1 /\ c.wb \in Nat
  <2>1. k # <<>> => Len(k) # 0
    BY <1>7
  <2> QED BY <1>1, <1>7, <2>1 DEF END
<1>10. Filled(k, c.wb)
  <2>1. \A i \in 1 .. Len(k) : ~(i < c.wb)
    BY <1>9
  <2> QED BY <1>7, <2>1 DEF Filled
<1>11. Shape(k, c.wb, c.rb, 0)
  <2>1. Shape(k, c.wb, c.rb, Len(written(k)))
    BY <1>1, <1>7, <1>9, <1>10, StartShape
  <2>2. Len(<<>>) = 0
    OBVIOUS
  <2> QED BY <1>8, <2>1, <2>2
<1>12. Good(c) /\ content(c) = <<>> /\ c.avail = 0
  BY <1>1, <1>8, <1>11 DEF Good, content
<1> QED BY <1>12 DEF read_of

-----------------------------------------------------------------------------
(* shrink.                                                                 *)

\* the blocks from the read block on, the write block among them, and the bytes in them
ShrinkQ(q, rb) == SubSeq(q, rb, Len(q))
ShrinkWb(wb, rb) == IF wb = END THEN END ELSE wb - (rb - 1)
Shrunk(q, rb, r) ==
  written(r) = SubSeq(written(q), held(q, rb - 1) + 1, Len(written(q))) /\ r[1] = q[rb]

\* keep the invariant, and the bytes from the read block on
LEMMA ShrinkShape ==
  ASSUME NEW q, NEW wb, NEW rb, NEW avail, Shape(q, wb, rb, avail), rb # END,
         NEW r, r = ShrinkQ(q, rb), NEW wb2, wb2 = ShrinkWb(wb, rb)
  PROVE  Shape(r, wb2, 1, avail) /\ Shrunk(q, rb, r)
<1>0. r = SubSeq(q, rb, Len(q)) /\ wb2 = IF wb = END THEN END ELSE wb - (rb - 1)
  BY DEF ShrinkQ, ShrinkWb
<1> DEFINE m == rb - 1
           l == Len(q)
<1>1. /\ q \in Seq(BlockT) /\ l \in Nat
      /\ wb \in Nat /\ wb <= l /\ rb \in Nat /\ rb <= l /\ avail \in Nat
  BY ShapeTypes
<1>2. Filled(q, wb) /\ AtRead(q, rb, avail) /\ rb \in 1 .. l /\ (wb # END => rb <= wb)
  BY DEF Shape, AtRead
<1>3. m \in Nat /\ m < l /\ rb = m + 1 /\ m \in 0 .. l /\ l - m \in Nat /\ l - m > 0
  BY <1>1, <1>2
<1> HIDE DEF m, l
<1>4. r \in Seq(BlockT) /\ Len(r) = l - m /\ \A i \in 1 .. l - m : r[i] = q[m + i]
  <2>1. rb \in Nat \ {0} /\ rb <= l + 1 /\ l <= Len(q) /\ l - rb + 1 = l - m
    BY <1>1, <1>3 DEF l
  <2>2. \A i \in 1 .. l - m : rb + i - 1 = m + i
    BY <1>1, <1>3
  <2>3. /\ r \in Seq(BlockT) /\ Len(r) = l - rb + 1
        /\ \A i \in 1 .. l - rb + 1 : r[i] = q[rb + i - 1]
    BY <1>0, <1>1, <2>1, Piece DEF l
  <2> QED BY <2>1, <2>2, <2>3
<1>5. ASSUME NEW i \in 1 .. l - m PROVE m + i \in 1 .. l /\ (i > 1 => m + i > rb)
  <2>1. i \in Nat /\ 1 <= i /\ i <= l - m /\ l \in Nat
    BY <1>1, <1>3
  <2> QED BY <1>3, <2>1
<1> DEFINE A == written(SubSeq(q, 1, m))
           B == written(r)
<1>6. /\ A \in Seq(Nat) /\ B \in Seq(Nat) /\ Len(A) = held(q, m) /\ written(q) = A \o B
      /\ Len(A) \in Nat /\ Len(B) \in Nat
  <2>1. q = SubSeq(q, 1, m) \o r
    BY <1>0, <1>1, <1>3, CutAt DEF l
  <2>2. SubSeq(q, 1, m) \in Seq(BlockT)
    BY <1>1, <1>2, Parts DEF m, l
  <2>3. written(q) = A \o B
    BY <1>4, <2>1, <2>2, WrittenBoth
  <2>4. A \in Seq(Nat) /\ Len(A) \in Nat
    BY <2>2, WrittenType
  <2>5. B \in Seq(Nat) /\ Len(B) \in Nat
    BY <1>4, WrittenType
  <2> QED BY <2>3, <2>4, <2>5 DEF held
<1> HIDE DEF A, B
<1>7. Len(written(q)) = Len(A) + Len(B)
  BY <1>6, BytesBoth
<1>8. B = SubSeq(written(q), held(q, m) + 1, Len(written(q)))
  BY <1>6, <1>7, BytesParts DEF TwoParts
<1>9. /\ Len(written(q)) = held(q, m) + q[rb].read + avail
      /\ avail > 0 => q[rb].read < Len(q[rb].data)
      /\ \A i \in 1 .. l : i > rb => q[i].read = 0
  BY <1>2 DEF AtRead, m, l
<1>10. q[rb].read \in Nat
  BY <1>1, <1>2, BlockAt DEF l
<1>11. 1 \in 1 .. l - m /\ r[1] = q[rb]
  BY <1>3, <1>4
<1>12. AtRead(r, 1, avail)
  <2>1. held(r, 1 - 1) = 0
    <3>1. 1 - 1 = 0
      OBVIOUS
    <3>2. r \in Seq(BlockT)
      BY <1>4
    <3> QED BY <3>1, <3>2, HeldEnds, Zenon
  <2>2. Len(B) = q[rb].read + avail
    <3> DEFINE x == q[rb].read
               h == held(q, m)
               y == Len(B)
    <3> HIDE DEF x, h, y
    <3>1. h + y = h + x + avail /\ h \in Nat /\ x \in Nat /\ y \in Nat
      BY <1>6, <1>7, <1>9, <1>10 DEF x, h, y
    <3>2. y = x + avail
      BY <1>1, <3>1
    <3> QED BY <3>2 DEF x, y
  <2>3. Len(written(r)) = held(r, 1 - 1) + r[1].read + avail
    BY <1>1, <1>10, <1>11, <2>1, <2>2 DEF B
  <2>4. avail > 0 => r[1].read < Len(r[1].data)
    BY <1>9, <1>11
  <2>5. ASSUME NEW i \in 1 .. Len(r)
        PROVE  /\ i < 1 => r[i].read = Len(r[i].data)
               /\ i > 1 => r[i].read = 0
    <3>1. ~(i < 1)
      OBVIOUS
    <3>2. i > 1 => q[m + i].read = 0
      BY <1>4, <1>5, <1>9
    <3> QED BY <1>4, <3>1, <3>2
  <2>6. 1 \in 1 .. Len(r)
    BY <1>4, <1>11
  <2> QED BY <2>3, <2>4, <2>5, <2>6 DEF AtRead
<1>13. wb2 \in Nat /\ wb2 <= l - m /\ (wb2 # END => wb # END /\ wb = m + wb2 /\ 1 <= wb2)
  <2>1. CASE wb = END
    BY <1>0, <1>3, <2>1 DEF END
  <2>2. CASE wb # END
    <3>1. wb2 = wb - m /\ rb <= wb
      BY <1>0, <1>2, <2>2 DEF m
    <3> QED BY <1>1, <1>3, <2>2, <3>1
  <2> QED BY <2>1, <2>2
<1>14. Filled(r, wb2)
  <2>1. ASSUME NEW i \in 1 .. Len(r), NEW j \in 1 .. Len(r), i < j, r[j].data # <<>>
        PROVE  r[i].data # <<>>
    <3>1. m + i < m + j
      BY <1>3, <2>1
    <3>2. m + i \in 1 .. l /\ m + j \in 1 .. l /\ r[i] = q[m + i] /\ r[j] = q[m + j]
      BY <1>4, <1>5
    <3> QED BY <1>2, <2>1, <3>1, <3>2 DEF Filled, l
  <2>2. ASSUME wb2 # END, NEW i \in 1 .. Len(r)
        PROVE  /\ r[i].len > 0
               /\ i < wb2 => r[i].data # <<>>
               /\ i > wb2 => r[i].data = <<>>
    <3>1. wb # END /\ (i < wb2 => m + i < wb) /\ (i > wb2 => m + i > wb)
      BY <1>3, <1>13, <2>2
    <3>2. m + i \in 1 .. l /\ r[i] = q[m + i]
      BY <1>4, <1>5
    <3> QED BY <1>2, <3>1, <3>2 DEF Filled, l
  <2> QED BY <2>1, <2>2 DEF Filled
<1>15. wb2 \in 0 .. Len(r) /\ 1 \in 0 .. Len(r) /\ (wb2 # END => 1 <= wb2)
  BY <1>3, <1>4, <1>13
<1>16. Shape(r, wb2, 1, avail)
  BY <1>1, <1>4, <1>12, <1>14, <1>15 DEF Shape, END
<1> QED BY <1>8, <1>11, <1>16 DEF B, m, Shrunk

\* shrink frees no byte that was not read
LEMMA ShrinkKeeps ==
  ASSUME NEW b, Good(b), NEW c, c = shrink(b)
  PROVE  /\ Good(c) /\ c.avail = b.avail
         /\ \E n \in 0 .. read_of(b) :
              /\ content(c) = SubSeq(content(b), n + 1, Len(content(b)))
              /\ read_of(c) = read_of(b) - n
<1>1. IsQueue(b) /\ Shape(b.q, b.wb, b.rb, b.avail)
  BY DEF Good
<1>2. /\ b.q \in Seq(BlockT) /\ Len(b.q) \in Nat
      /\ b.wb \in Nat /\ b.wb <= Len(b.q) /\ b.rb \in Nat /\ b.rb <= Len(b.q) /\ b.avail \in Nat
  BY <1>1, ShapeTypes
<1>3. /\ content(b) \in Seq(Nat) /\ Len(content(b)) \in Nat
      /\ read_of(b) \in Nat /\ read_of(b) + b.avail = Len(content(b))
      /\ b.rb # END => read_of(b) = held(b.q, b.rb - 1) + b.q[b.rb].read
  BY ReadOf
<1> DEFINE gone == IF b.rb = END THEN Len(b.q) ELSE b.rb - 1
           At(i) == IF i = END THEN END ELSE i - gone
           size == FoldSeq(LAMBDA blk, n : blk.len + n, 0, SubSeq(b.q, 1, gone))
           r == SubSeq(b.q, gone + 1, Len(b.q))
           e == [b EXCEPT !.q = r, !.rb = At(b.rb), !.wb = At(b.wb), !.off = b.off - size]
<1>4. c = IF e.rb # END /\ e.rb = e.wb /\ read_avail(e.q[e.rb]) = 0 /\ write_avail(e.q[e.rb]) = 0
          THEN NewQ ELSE e
  BY DEF shrink
<1> HIDE DEF r, size, gone, At
<1>5. /\ IsQueue(e) /\ e.q = r /\ e.rb = At(b.rb) /\ e.wb = At(b.wb) /\ e.avail = b.avail
  <2> DEFINE x == At(b.rb)
             y == At(b.wb)
             z == b.off - size
  <2> HIDE DEF x, y, z, e
  <2>1. e = [b EXCEPT !.q = r, !.rb = x, !.wb = y, !.off = z]
    BY DEF e, x, y, z
  <2>2. e = [q |-> r, wb |-> y, rb |-> x, off |-> z, avail |-> b.avail]
    BY <1>1, <2>1 DEF IsQueue
  <2>3. IsQueue(e) /\ e.q = r /\ e.rb = x /\ e.wb = y /\ e.avail = b.avail
    BY <2>2 DEF IsQueue
  <2> QED BY <2>3 DEF x, y
<1> HIDE DEF e
<1>6. CASE b.rb = END
  <2>1. b.q = <<>> /\ b.avail = 0 /\ b.wb = END
    <3>1. b.q = <<>> /\ b.avail = 0
      BY <1>1, <1>6 DEF Shape
    <3>2. Len(b.q) = 0
      BY <3>1
    <3> QED BY <1>2, <3>1, <3>2 DEF END
  <2>2. r = <<>> /\ At(b.rb) = END /\ At(b.wb) = END
    <3>1. gone = 0 /\ Len(b.q) = 0
      BY <1>6, <2>1 DEF gone
    <3>2. SubSeq(<<>>, 0 + 1, 0) = <<>>
      OBVIOUS
    <3> QED BY <1>6, <2>1, <3>1, <3>2 DEF r, At
  <2>3. c = e
    BY <1>4, <1>5, <2>2
  <2>4. Good(c) /\ content(c) = content(b) /\ c.avail = b.avail
    BY <1>1, <1>5, <1>6, <2>1, <2>2, <2>3, Zenon DEF Good, content
  <2>5. content(b) = SubSeq(content(b), 0 + 1, Len(content(b)))
    BY <1>3
  <2>6. read_of(c) = read_of(b) - 0 /\ 0 \in 0 .. read_of(b)
    BY <1>3, <2>4 DEF read_of
  <2> QED BY <2>4, <2>5, <2>6
<1>7. CASE b.rb # END
  <2> DEFINE h == held(b.q, b.rb - 1)
             C == content(b)
  <2>0. /\ b.rb \in 1 .. Len(b.q) /\ h \in Nat /\ b.q[b.rb].read \in Nat /\ h <= read_of(b)
        /\ h \in 0 .. read_of(b)
    <3>1. b.rb \in 1 .. Len(b.q)
      BY <1>2, <1>7 DEF END
    <3>2. h \in Nat /\ b.q[b.rb].read \in Nat
      BY <1>2, <3>1, HeldStep, BlockAt
    <3> HIDE DEF h
    <3>3. read_of(b) = h + b.q[b.rb].read
      BY <1>3, <1>7 DEF h
    <3>4. h <= read_of(b)
      BY <3>2, <3>3
    <3> QED BY <1>3, <3>1, <3>2, <3>4
  <2>1. gone = b.rb - 1 /\ gone + 1 = b.rb /\ At(b.rb) = 1
        /\ At(b.wb) = IF b.wb = END THEN END ELSE b.wb - (b.rb - 1)
    BY <1>2, <1>7 DEF gone, At
  <2>2. r = SubSeq(b.q, b.rb, Len(b.q))
    BY <2>1 DEF r
  <2>3. /\ Shape(r, At(b.wb), 1, b.avail) /\ r[1] = b.q[b.rb]
        /\ written(r) = SubSeq(written(b.q), h + 1, Len(written(b.q)))
    <3> DEFINE w == At(b.wb)
    <3> HIDE DEF w
    <3>1. w = ShrinkWb(b.wb, b.rb) /\ r = ShrinkQ(b.q, b.rb)
      BY <2>1, <2>2 DEF w, ShrinkWb, ShrinkQ
    <3>2. Shape(r, w, 1, b.avail) /\ Shrunk(b.q, b.rb, r)
      BY <1>1, <1>7, <3>1, ShrinkShape
    <3> QED BY <3>2 DEF w, Shrunk
  <2>4. Good(e) /\ content(e) = SubSeq(C, h + 1, Len(C)) /\ e.avail = b.avail
    BY <1>5, <2>1, <2>3 DEF Good, content
  <2> HIDE DEF h, C
  <2>5. CASE c = e
    <3>1. Len(content(e)) = Len(C) - h
      <4>1. h <= Len(C) /\ C \in Seq(Nat) /\ Len(C) \in Nat
        BY <1>2, <1>3, <2>0 DEF C
      <4>2. Len(SubSeq(C, h + 1, Len(C))) = Len(C) - h
        BY <2>0, <4>1, BytesCut
      <4> QED BY <2>4, <4>2
    <3>2. read_of(c) = read_of(b) - h
      <4> DEFINE l == Len(C)
      <4> HIDE DEF l
      <4>1. (l - h) - b.avail = (l - b.avail) - h /\ l \in Nat
        BY <1>2, <1>3, <2>0 DEF l, C
      <4>2. read_of(c) = (l - h) - b.avail /\ read_of(b) = l - b.avail
        BY <2>4, <2>5, <3>1 DEF read_of, l, C
      <4> QED BY <4>1, <4>2
    <3> QED BY <2>0, <2>4, <2>5, <3>2 DEF C
  <2>6. CASE c # e
    <3>1. /\ c = NewQ /\ e.rb # END /\ e.rb = e.wb /\ read_avail(e.q[e.rb]) = 0
      BY <1>4, <2>6
    <3>2. b.avail = 0
      <4>1. e.avail = read_avail(e.q[e.rb])
        BY <2>4, <3>1, AvailIs DEF Good
      <4> QED BY <2>4, <3>1, <4>1
    <3>3. Good(c) /\ content(c) = <<>> /\ c.avail = 0
      BY <3>1, NewGood
    <3>4. read_of(b) = Len(C) /\ Len(C) \in 0 .. read_of(b)
      BY <1>3, <3>2 DEF C
    <3>5. SubSeq(C, Len(C) + 1, Len(C)) = <<>>
      BY <1>3 DEF C
    <3>6. read_of(c) = read_of(b) - Len(C)
      <4>1. Len(<<>>) = 0 /\ Len(C) \in Nat
        BY <1>3 DEF C
      <4> QED BY <3>3, <3>4, <4>1 DEF read_of
    <3> QED BY <3>2, <3>3, <3>4, <3>5, <3>6 DEF C
  <2> QED BY <2>5, <2>6
<1> QED BY <1>6, <1>7

-----------------------------------------------------------------------------
(* join_ref.                                                               *)

\* a body's blocks: the empty ones, if there are any, are the last
IsBody(body) ==
  /\ body \in Seq(Seq(Nat))
  /\ \A i, j \in DOMAIN body : i < j /\ body[j] # <<>> => body[i] # <<>>

\* blocks with bytes of which none was read
AllUnread(q) == \A i \in DOMAIN q : q[i].data # <<>> /\ q[i].read = 0

\* references to the blocks of a body
RefsTo(body) == [i \in DOMAIN body |-> RefTo(body[i])]

\* a reference holds the bytes of its block, none of them read
LEMMA RefIs ==
  ASSUME NEW x \in Seq(Nat)
  PROVE  RefTo(x) \in BlockT /\ RefTo(x).data = x /\ RefTo(x).read = 0
<1> DEFINE c == RefTo(x)
           l == Len(x)
<1>1. l \in Nat /\ 0 \in Nat /\ TRUE \in BOOLEAN
  OBVIOUS
<1>2. c = [data |-> x, len |-> l, read |-> 0, ref |-> TRUE]
  BY DEF RefTo
<1> HIDE DEF c, l
<1>3. HasFields(c, x, l, 0, TRUE)
  BY <1>1, <1>2, BlockOf
<1>4. /\ c.data = x /\ c.len = l /\ c.read = 0 /\ c.ref = TRUE
      /\ c \in [data : Seq(Nat), len : Nat, read : Nat, ref : BOOLEAN]
  BY <1>3, Zenon DEF HasFields
<1>5. c.read <= Len(c.data) /\ Len(c.data) <= c.len
  BY <1>1, <1>4 DEF l
<1>6. c.len > 0 \/ c.ref
  BY <1>4
<1> QED BY <1>4, <1>5, <1>6 DEF BlockT, c

\* hold the bytes of the body
LEMMA RefsAre ==
  ASSUME NEW body \in Seq(Seq(Nat)), NEW r, r = RefsTo(body)
  PROVE  /\ r \in Seq(BlockT) /\ Len(r) = Len(body) /\ written(r) = FlattenSeq(body)
         /\ \A i \in 1 .. Len(body) : r[i].data = body[i] /\ r[i].read = 0
<1> DEFINE l == Len(body)
           x(i) == RefTo(body[i])
<1>1. l \in Nat /\ DOMAIN body = 1 .. l
  OBVIOUS
<1>2. \A i \in 1 .. l : x(i) \in BlockT /\ x(i).data = body[i] /\ x(i).read = 0
  BY RefIs
<1>3. r = [i \in 1 .. l |-> x(i)]
  BY <1>1 DEF RefsTo
<1> HIDE DEF x, l
<1>4. r \in Seq(BlockT) /\ Len(r) = l /\ \A i \in 1 .. l : r[i] = x(i)
  <2>1. l \in Nat /\ \A i \in 1 .. l : x(i) \in BlockT
    BY <1>1, <1>2
  <2> QED BY <1>3, <2>1
<1>5. written(r) = FlattenSeq(body)
  <2>1. /\ Data(r) \in Seq(Seq(Nat)) /\ Len(Data(r)) = Len(r)
        /\ written(r) = FlattenSeq(Data(r))
        /\ \A i \in 1 .. Len(r) : Data(r)[i] = r[i].data
    BY <1>4, DataOf
  <2>2. \A i \in 1 .. Len(Data(r)) : Data(r)[i] = body[i]
    BY <1>2, <1>4, <2>1
  <2>3. Data(r) = body
    <3>1. Len(Data(r)) = Len(body)
      BY <1>4, <2>1 DEF l
    <3> QED BY <2>1, <2>2, <3>1, SameSeq
  <2> QED BY <2>1, <2>3
<1> QED BY <1>2, <1>4, <1>5 DEF l

\* q and the blocks of a body after it
Joined(q, body) == q \o RefsTo(body)

\* the blocks of q and the references: what is written to them, and where
LEMMA JoinedIs ==
  ASSUME NEW q \in Seq(BlockT), AllUnread(q), NEW body, IsBody(body), NEW r, r = Joined(q, body)
  PROVE  /\ r \in Seq(BlockT) /\ written(r) = written(q) \o FlattenSeq(body)
         /\ FlattenSeq(body) \in Seq(Nat)
         /\ Len(written(r)) = Len(written(q)) + Len(FlattenSeq(body))
         /\ Filled(r, END) /\ \A i \in 1 .. Len(r) : r[i].read = 0
         /\ q # <<>> => r # <<>>
<1> DEFINE t == RefsTo(body)
           m == Len(q)
           n == Len(body)
<1>1. body \in Seq(Seq(Nat)) /\ m \in Nat /\ n \in Nat /\ DOMAIN body = 1 .. n /\ DOMAIN q = 1 .. m
  BY DEF IsBody
<1>2. /\ t \in Seq(BlockT) /\ Len(t) = n /\ written(t) = FlattenSeq(body)
      /\ \A i \in 1 .. n : t[i].data = body[i] /\ t[i].read = 0
  BY <1>1, RefsAre
<1> HIDE DEF t, n
<1>3. /\ r \in Seq(BlockT) /\ Len(r) = m + n
      /\ \A j \in 1 .. m : r[j] = q[j]
      /\ \A j \in m + 1 .. m + n : r[j] = t[j - m]
  <2>1. r = q \o t
    BY DEF Joined, t
  <2> QED BY <1>2, <2>1, Concatenated
<1>4. written(r) = written(q) \o FlattenSeq(body)
  BY <1>2, WrittenBoth DEF Joined, t
<1>5. FlattenSeq(body) \in Seq(Nat)
  BY <1>1, FlattenType
<1>6. Len(written(r)) = Len(written(q)) + Len(FlattenSeq(body))
  BY <1>4, <1>5, WrittenType, BytesBoth
<1> HIDE DEF m
<1>7. ASSUME NEW i \in 1 .. Len(r), ~(i \in 1 .. m)
      PROVE  i \in m + 1 .. m + n /\ i - m \in 1 .. n /\ r[i] = t[i - m]
  <2>1. i \in m + 1 .. m + n
    BY <1>1, <1>3, <1>7
  <2>2. i - m \in 1 .. n
    BY <1>1, <2>1
  <2> QED BY <1>3, <2>1, <2>2
<1>8. \A i \in 1 .. m : r[i].data # <<>> /\ r[i].read = 0
  BY <1>1, <1>3 DEF AllUnread
<1>9. ASSUME NEW i \in 1 .. Len(r) PROVE r[i].read = 0
  <2>1. CASE i \in 1 .. m
    BY <1>8, <2>1
  <2>2. CASE ~(i \in 1 .. m)
    BY <1>2, <1>7, <2>2
  <2> QED BY <2>1, <2>2
<1>10. ASSUME NEW i \in 1 .. Len(r), NEW j \in 1 .. Len(r), i < j, r[j].data # <<>>
       PROVE  r[i].data # <<>>
  <2>1. CASE i \in 1 .. m
    BY <1>8, <2>1
  <2>2. CASE ~(i \in 1 .. m)
    <3>1. ~(j \in 1 .. m)
      BY <1>1, <1>10, <2>2
    <3>2. i - m \in 1 .. n /\ j - m \in 1 .. n /\ i - m < j - m
      BY <1>1, <1>7, <1>10, <2>2, <3>1
    <3>3. r[i].data = body[i - m] /\ r[j].data = body[j - m]
      BY <1>2, <1>7, <2>2, <3>1
    <3> QED BY <1>1, <1>10, <3>2, <3>3 DEF IsBody
  <2> QED BY <2>1, <2>2
<1>11. Filled(r, END)
  BY <1>10 DEF Filled
<1>12. q # <<>> => r # <<>>
  <2>1. q # <<>> => m # 0
    BY <1>1 DEF m
  <2>2. r = <<>> => Len(r) = 0
    OBVIOUS
  <2> QED BY <1>1, <1>3, <2>1, <2>2
<1> QED BY <1>3, <1>4, <1>5, <1>6, <1>9, <1>11, <1>12

\* join_ref keeps the invariant and adds the bytes of the body
LEMMA JoinRefKeeps ==
  ASSUME NEW b, Good(b), AllUnread(b.q), NEW body, IsBody(body), NEW c, c = join_ref(b, body)
  PROVE  /\ Good(c) /\ content(c) = content(b) \o FlattenSeq(body)
         /\ c.avail = b.avail + Len(FlattenSeq(body)) /\ read_of(c) = read_of(b)
<1>1. IsQueue(b) /\ Shape(b.q, b.wb, b.rb, b.avail)
  BY DEF Good
<1>2. /\ b.q \in Seq(BlockT) /\ Len(b.q) \in Nat /\ b.rb \in Nat /\ b.avail \in Nat
  BY <1>1, ShapeTypes
<1> DEFINE r == Joined(b.q, body)
           F == FlattenSeq(body)
<1>3. /\ r \in Seq(BlockT) /\ written(r) = written(b.q) \o F
      /\ F \in Seq(Nat) /\ Len(written(r)) = Len(written(b.q)) + Len(F)
      /\ Filled(r, END) /\ \A i \in 1 .. Len(r) : r[i].read = 0
      /\ b.q # <<>> => r # <<>>
  BY <1>2, JoinedIs
<1>4. /\ IsQueue(c) /\ c.q = r /\ c.wb = END /\ c.avail = b.avail + Len(F)
      /\ c.rb = IF b.q = <<>> THEN (IF r = <<>> THEN END ELSE 1) ELSE b.rb
  <2> DEFINE z == b.off + Len(F)
             y == b.avail + Len(F)
             e == [b EXCEPT !.q = r, !.wb = END, !.off = z, !.avail = y]
  <2>1. c = IF b.q = <<>> THEN [e EXCEPT !.rb = Begin(e)] ELSE e
    BY DEF join_ref, Joined, RefsTo
  <2> HIDE DEF z, y, r, e
  <2>2. e = [q |-> r, wb |-> END, rb |-> b.rb, off |-> z, avail |-> y]
    <3> DEFINE w == END
    <3> HIDE DEF w
    <3>1. e = [b EXCEPT !.q = r, !.wb = w, !.off = z, !.avail = y]
      BY DEF e, w
    <3>2. e = [q |-> r, wb |-> w, rb |-> b.rb, off |-> z, avail |-> y]
      BY <1>1, <3>1 DEF IsQueue
    <3> QED BY <3>2 DEF w
  <2>3. /\ IsQueue(c) /\ c.q = r /\ c.wb = END /\ c.avail = y
        /\ c.rb = IF b.q = <<>> THEN (IF r = <<>> THEN END ELSE 1) ELSE b.rb
    BY <2>1, <2>2 DEF Begin, IsQueue
  <2> QED BY <2>3 DEF y
<1> HIDE DEF r, F
<1>5. b.avail = Len(written(b.q)) /\ (b.q # <<>> => b.rb = 1)
  <2>1. CASE b.rb = END
    <3>1. b.q = <<>> /\ b.avail = 0
      BY <1>1, <2>1 DEF Shape
    <3>2. Len(<<>>) = 0
      OBVIOUS
    <3> QED BY <3>1, <3>2, WrittenNone
  <2>2. CASE b.rb # END
    <3>1. /\ b.rb \in 1 .. Len(b.q)
          /\ Len(written(b.q)) = held(b.q, b.rb - 1) + b.q[b.rb].read + b.avail
          /\ \A i \in 1 .. Len(b.q) : i < b.rb => b.q[i].read = Len(b.q[i].data)
      BY <1>1, <2>2 DEF Shape, AtRead
    <3>2. \A i \in 1 .. Len(b.q) : b.q[i].data # <<>> /\ b.q[i].read = 0
      BY <1>2 DEF AllUnread
    <3>3. b.rb = 1
      <4> SUFFICES ASSUME b.rb # 1 PROVE FALSE
        OBVIOUS
      <4>1. 1 < b.rb /\ 1 \in 1 .. Len(b.q)
        BY <1>2, <3>1
      <4>2. Len(b.q[1].data) = 0 /\ b.q[1].data # <<>> /\ b.q[1].data \in Seq(Nat)
        BY <1>2, <3>1, <3>2, <4>1, BlockAt
      <4> QED BY <4>2
    <3>4. held(b.q, b.rb - 1) = 0 /\ b.q[b.rb].read = 0
      <4>1. b.rb - 1 = 0
        BY <3>3
      <4> QED BY <1>2, <3>1, <3>2, <4>1, HeldEnds
    <3> QED BY <1>2, <3>1, <3>3, <3>4
  <2> QED BY <2>1, <2>2
<1>6. c.rb = IF r = <<>> THEN END ELSE 1
  BY <1>3, <1>4, <1>5
<1>7. Shape(r, END, c.rb, Len(written(r)))
  <2>1. END \in 0 .. Len(r)
    BY <1>3 DEF END
  <2> QED BY <1>3, <1>6, <2>1, StartShape
<1>8. c.avail = Len(written(r))
  BY <1>3, <1>4, <1>5
<1>9. Good(c)
  BY <1>4, <1>7, <1>8 DEF Good
<1>10. read_of(c) = 0 /\ read_of(b) = 0
  <2>1. Len(written(r)) \in Nat
    BY <1>3, WrittenType
  <2> QED BY <1>2, <1>4, <1>5, <1>8, <2>1 DEF read_of, content
<1> QED BY <1>3, <1>4, <1>9, <1>10 DEF content, F

-----------------------------------------------------------------------------
(* split.                                                                  *)

\* block i has the byte at offset n
HasByte(q, n, i) == held(q, i - 1) <= n /\ n < held(q, i)

\* is the block split finds
LEMMA AtBlock ==
  ASSUME NEW q \in Seq(BlockT), NEW n \in Nat, n < Len(written(q))
  PROVE  at_block(q, n) \in 1 .. Len(q) /\ HasByte(q, n, at_block(q, n))
<1> DEFINE T == {i \in 1 .. Len(q) : n < held(q, i)}
           l == Len(q)
<1>0. l \in Nat /\ DOMAIN q = 1 .. l /\ held(q, 0) = 0 /\ held(q, l) = Len(written(q))
  BY HeldEnds
<1>1. T \subseteq Nat /\ T # {}
  <2>1. l # 0
    BY <1>0
  <2>2. l \in T
    BY <1>0, <2>1
  <2> QED BY <2>2
<1>2. PICK k \in T : \A y \in T : k <= y
  <2> HIDE DEF T
  <2> QED BY <1>1, Least
<1>3. k \in 1 .. l /\ n < held(q, k)
  BY <1>2
<1>4. held(q, k - 1) <= n
  <2>1. CASE k = 1
    <3>1. k - 1 = 0
      BY <2>1
    <3> QED BY <1>0, <3>1
  <2>2. CASE k # 1
    <3>1. k - 1 \in 1 .. l /\ ~(k <= k - 1)
      BY <1>0, <1>3, <2>2
    <3>2. ~(n < held(q, k - 1))
      BY <1>2, <3>1
    <3>3. held(q, k - 1) \in Nat
      BY <1>3, HeldStep
    <3> QED BY <3>2, <3>3
  <2> QED BY <2>1, <2>2
<1> HIDE DEF T
<1>5. \E i \in DOMAIN q : held(q, i - 1) <= n /\ n < held(q, i)
  BY <1>0, <1>3, <1>4
<1>6. /\ at_block(q, n) \in DOMAIN q
      /\ held(q, at_block(q, n) - 1) <= n /\ n < held(q, at_block(q, n))
  BY <1>5, Zenon DEF at_block
<1> QED BY <1>0, <1>6 DEF HasByte

\* the blocks that stay, the last of them cut at o; what is read of that one is as it was
CutBlock(blk, o) == [blk EXCEPT !.data = SubSeq(blk.data, 1, o)]
KeptQ(q, i, o) ==
  IF o = 0 THEN SubSeq(q, 1, i) ELSE Append(SubSeq(q, 1, i - 1), CutBlock(q[i], o))

\* the same with nothing read of the block that was cut
KeptUnread(q, i, o) ==
  IF o = 0 THEN SubSeq(q, 1, i) ELSE Append(SubSeq(q, 1, i - 1), AsUnread(CutBlock(q[i], o)))

\* is a block with some bytes
LEMMA CutBlockIs ==
  ASSUME NEW blk \in BlockT, NEW o \in Nat, 0 < o, o <= Len(blk.data),
         NEW d, d = CutBlock(blk, o), NEW c, c = AsUnread(d)
  PROVE  /\ c \in BlockT /\ c.data = SubSeq(blk.data, 1, o) /\ d.data = c.data
         /\ AsUnread(d) = AsUnread(c) /\ c.data # <<>>
<1>1. /\ blk.data \in Seq(Nat) /\ blk.len \in Nat /\ blk.read \in Nat /\ blk.ref \in BOOLEAN
      /\ Len(blk.data) \in Nat /\ blk.read <= Len(blk.data) /\ Len(blk.data) <= blk.len
  BY BlockIs
<1>2. blk = [data |-> blk.data, len |-> blk.len, read |-> blk.read, ref |-> blk.ref]
  BY DEF BlockT
<1> DEFINE x == SubSeq(blk.data, 1, o)
<1>3. x \in Seq(Nat) /\ Len(x) = o
  BY <1>1, BytesCut
<1> HIDE DEF x
<1>4. d = [data |-> x, len |-> blk.len, read |-> blk.read, ref |-> blk.ref]
  BY <1>2 DEF CutBlock, x
<1>5. c = [data |-> x, len |-> blk.len, read |-> 0, ref |-> blk.ref]
  BY <1>4 DEF AsUnread
<1>6. HasFields(c, x, blk.len, 0, blk.ref)
  BY <1>1, <1>3, <1>5, BlockOf
<1>7. /\ c.data = x /\ c.len = blk.len /\ c.read = 0 /\ c.ref = blk.ref
      /\ c \in [data : Seq(Nat), len : Nat, read : Nat, ref : BOOLEAN]
  BY <1>6, Zenon DEF HasFields
<1>8. d.data = x /\ AsUnread(c) = c
  <2>1. d.data = x
    BY <1>4
  <2>2. AsUnread(c) = c
    BY <1>5 DEF AsUnread
  <2> QED BY <2>1, <2>2
<1>9. c.read <= Len(c.data) /\ Len(c.data) <= c.len
  BY <1>1, <1>3, <1>7
<1>10. c.len > 0 \/ c.ref
  BY <1>7, BlockIs
<1>11. x # <<>>
  <2>1. Len(<<>>) = 0
    OBVIOUS
  <2> QED BY <1>3, <2>1
<1> QED BY <1>7, <1>8, <1>9, <1>10, <1>11 DEF BlockT, x

\* r is a and x after it
IsSnoc(r, X, a, x) ==
  /\ r \in Seq(X) /\ Len(r) = Len(a) + 1
  /\ r[Len(a) + 1] = x /\ \A j \in 1 .. Len(a) : r[j] = a[j]

\* as Append makes it
LEMMA SnocIs ==
  ASSUME NEW X, NEW a \in Seq(X), NEW x \in X
  PROVE  IsSnoc(Append(a, x), X, a, x)
BY DEF IsSnoc

\* blocks that all have bytes, the last of them the write block
LEMMA NoneEmpty ==
  ASSUME NEW r \in Seq(BlockT), \A i \in 1 .. Len(r) : r[i].data # <<>>
  PROVE  Filled(r, Len(r))
<1>1. ASSUME NEW i \in 1 .. Len(r) PROVE r[i].len > 0 /\ ~(i > Len(r))
  <2>1. /\ r[i].data \in Seq(Nat) /\ r[i].len \in Nat /\ Len(r[i].data) \in Nat
        /\ Len(r[i].data) <= r[i].len
    BY BlockAt
  <2>2. Len(r[i].data) # 0
    BY <2>1
  <2>3. ~(i > Len(r))
    OBVIOUS
  <2> QED BY <2>1, <2>2, <2>3
<1> QED BY <1>1 DEF Filled

\* what stays, and what goes to the tail
LEMMA KeptIs ==
  ASSUME NEW q \in Seq(BlockT), NEW wb, Filled(q, wb), NEW n \in Nat, n > 0,
         NEW i \in 1 .. Len(q), HasByte(q, n, i), NEW o, o = n - held(q, i - 1),
         NEW r, r = KeptUnread(q, i, o), NEW k, k = KeptQ(q, i, o)
  PROVE  /\ r \in Seq(BlockT) /\ SameButRead(k, r) /\ Len(k) = Len(r) /\ Len(r) \in Nat
         /\ Filled(r, Len(r)) /\ o \in Nat /\ o < Len(q[i].data)
<1>1. /\ q[i] \in BlockT /\ q[i].data \in Seq(Nat) /\ Len(q[i].data) \in Nat
      /\ Len(q) \in Nat /\ i \in Nat
  BY BlockAt
<1>2. /\ held(q, i - 1) \in Nat /\ held(q, i) \in Nat
      /\ held(q, i) = held(q, i - 1) + Len(q[i].data)
  BY HeldStep
<1>3. o \in Nat /\ o < Len(q[i].data)
  <2> DEFINE h == held(q, i - 1)
             g == held(q, i)
             l == Len(q[i].data)
  <2>1. h <= n /\ n < g /\ h \in Nat /\ g \in Nat /\ g = h + l /\ o = n - h /\ l \in Nat
    BY <1>1, <1>2 DEF HasByte
  <2> HIDE DEF h, g, l
  <2>2. o \in Nat /\ o < l
    BY <2>1
  <2> QED BY <2>2 DEF l
<1>4. \A j \in 1 .. i : q[j].data # <<>>
  <2>1. q[i].data # <<>>
    <3>1. Len(<<>>) = 0
      OBVIOUS
    <3> QED BY <1>1, <1>3, <3>1
  <2>2. \A j \in 1 .. i : j \in 1 .. Len(q) /\ (j = i \/ j < i)
    BY <1>1
  <2> QED BY <2>1, <2>2 DEF Filled
<1> DEFINE a == SubSeq(q, 1, i - 1)
           d == CutBlock(q[i], o)
           c == AsUnread(d)
           s == SubSeq(q, 1, i)
<1>5. CASE o = 0
  <2>1. r = s /\ k = s
    BY <1>5 DEF KeptUnread, KeptQ
  <2>2. s \in Seq(BlockT) /\ Len(s) = i /\ \A j \in 1 .. i : s[j] = q[j]
    <3>1. i \in Nat /\ i <= Len(q)
      BY <1>1
    <3> QED BY <3>1, Piece
  <2> HIDE DEF s
  <2>3. SameButRead(k, r)
    BY <2>1 DEF SameButRead
  <2>4. \A j \in 1 .. Len(r) : r[j].data # <<>>
    BY <1>4, <2>1, <2>2
  <2>5. r \in Seq(BlockT) /\ Len(k) = Len(r) /\ Len(r) \in Nat
    BY <1>1, <2>1, <2>2
  <2>6. Filled(r, Len(r))
    BY <2>4, <2>5, NoneEmpty
  <2> QED BY <1>3, <2>3, <2>5, <2>6
<1>6. CASE o # 0
  <2>1. r = Append(a, c) /\ k = Append(a, d)
    BY <1>6 DEF KeptUnread, KeptQ
  <2>2. a \in Seq(BlockT) /\ Len(a) = i - 1 /\ \A j \in 1 .. i - 1 : a[j] = q[j]
    <3>1. i - 1 \in Nat /\ i - 1 <= Len(q) /\ 1 <= (i - 1) + 1
      BY <1>1
    <3> DEFINE m == i - 1
    <3>2. m - 1 + 1 = m /\ \A j \in 1 .. m : 1 + j - 1 = j
      BY <3>1
    <3> HIDE DEF m
    <3> QED BY <3>1, <3>2, Piece DEF m
  <2>3. /\ c \in BlockT /\ c.data # <<>> /\ d.data = c.data /\ AsUnread(d) = AsUnread(c)
    <3>1. 0 < o /\ o <= Len(q[i].data)
      BY <1>1, <1>3, <1>6
    <3> QED BY <1>1, <1>3, <3>1, CutBlockIs
  <2> HIDE DEF a, c, d
  <2>4. /\ r \in Seq(BlockT) /\ Len(r) = Len(a) + 1 /\ r[Len(a) + 1] = c
        /\ Len(a) \in Nat /\ \A j \in 1 .. Len(a) : r[j] = a[j]
    <3>1. a \in Seq(BlockT) /\ c \in BlockT
      BY <2>2, <2>3
    <3>2. Len(a) \in Nat
      BY <3>1
    <3>3. IsSnoc(r, BlockT, a, c)
      BY <2>1, <3>1, SnocIs, Zenon
    <3> QED BY <3>2, <3>3 DEF IsSnoc
  <2>5. /\ DOMAIN k = 1 .. Len(a) + 1 /\ Len(k) = Len(a) + 1 /\ k[Len(a) + 1] = d
        /\ \A j \in 1 .. Len(a) : k[j] = a[j]
        /\ k # <<>>
    <3>1. a \in Seq(BlockT \cup {d}) /\ d \in BlockT \cup {d}
      BY <2>2
    <3>2. k \in Seq(BlockT \cup {d}) /\ Len(k) = Len(a) + 1 /\ k[Len(a) + 1] = d
          /\ \A j \in 1 .. Len(a) : k[j] = a[j]
      <4>1. IsSnoc(k, BlockT \cup {d}, a, d)
        BY <2>1, <3>1, SnocIs, Zenon
      <4> QED BY <4>1, Zenon DEF IsSnoc
    <3> QED BY <2>4, <3>2
  <2>6. \A j \in 1 .. Len(a) + 1 : j \in 1 .. Len(a) \/ j = Len(a) + 1
    BY <2>4
  <2>7. SameButRead(k, r)
    <3>1. \A j \in 1 .. Len(a) + 1 : k[j].data = r[j].data /\ AsUnread(k[j]) = AsUnread(r[j])
      BY <2>3, <2>4, <2>5, <2>6
    <3>2. DOMAIN r = 1 .. Len(a) + 1 /\ r # <<>>
      BY <2>4
    <3> QED BY <2>5, <3>1, <3>2 DEF SameButRead, AsUnread
  <2>8. \A j \in 1 .. Len(r) : r[j].data # <<>>
    <3>1. \A j \in 1 .. Len(a) : a[j].data # <<>>
      <4>1. \A j \in 1 .. i - 1 : j \in 1 .. i
        BY <1>1
      <4> QED BY <1>4, <2>2, <4>1
    <3> QED BY <2>3, <2>4, <2>6, <3>1
  <2>9. Len(k) = Len(r) /\ Len(r) \in Nat
    BY <2>4, <2>5
  <2>10. Filled(r, Len(r))
    BY <2>4, <2>8, <2>9, NoneEmpty
  <2> QED BY <1>3, <2>4, <2>7, <2>9, <2>10
<1> QED BY <1>5, <1>6

\* split, by name
SplitHead(b, i, o, k) ==
  [b EXCEPT !.q = k, !.off = b.off - Len(written(SubSeq(b.q, i + 1, Len(b.q)))), !.wb = Len(k)]
SplitNew(b, i, o) ==
  IF o = 0 THEN NewQ
  ELSE write(b_write_add_avail(NewQ), SubSeq(b.q[i].data, o + 1, Len(b.q[i].data)))
SplitMoved(b, i, t) ==
  LET moved == SubSeq(b.q, i + 1, Len(b.q))
  IN [t EXCEPT !.q = t.q \o moved, !.off = t.off + Len(written(moved))]
SplitTail(u) == [u EXCEPT !.wb = Len(u.q)]

\* split is these
LEMMA SplitIs ==
  ASSUME NEW b, NEW n, NEW i, i = at_block(b.q, n), NEW o, o = n - held(b.q, i - 1)
  PROVE  split(b, n) = [head |-> reset_read(SplitHead(b, i, o, KeptQ(b.q, i, o))),
                        tail |-> reset_read(SplitTail(SplitMoved(b, i, SplitNew(b, i, o))))]
BY Zenon DEF split, SplitHead, SplitNew, SplitMoved, SplitTail, KeptQ, CutBlock

\* the head is a queue, whatever the offset
LEMMA SplitHeadIs ==
  ASSUME NEW b, Good(b), NEW n \in Nat, n > 0, n < Len(content(b)),
         NEW i, i = at_block(b.q, n), NEW o, o = n - held(b.q, i - 1),
         NEW k, k = KeptQ(b.q, i, o), NEW c, c = reset_read(SplitHead(b, i, o, k))
  PROVE  /\ Good(c) /\ read_of(c) = 0 /\ content(c) = written(KeptUnread(b.q, i, o))
         /\ c.avail = Len(content(c))
         /\ i \in 1 .. Len(b.q) /\ o \in Nat /\ o < Len(b.q[i].data)
<1>1. IsQueue(b) /\ b.q \in Seq(BlockT) /\ Filled(b.q, b.wb)
  BY DEF Good, Shape
<1>2. i \in 1 .. Len(b.q) /\ HasByte(b.q, n, i)
  BY <1>1, AtBlock DEF content
<1> DEFINE r == KeptUnread(b.q, i, o)
<1>3. /\ r \in Seq(BlockT) /\ SameButRead(k, r) /\ Len(k) = Len(r) /\ Len(r) \in Nat
      /\ Filled(r, Len(r)) /\ o \in Nat /\ o < Len(b.q[i].data)
  BY <1>1, <1>2, KeptIs
<1> HIDE DEF r
<1> DEFINE e == SplitHead(b, i, o, k)
<1>4. IsQueue(e) /\ e.q = k /\ e.wb = Len(k)
  <2> DEFINE z == b.off - Len(written(SubSeq(b.q, i + 1, Len(b.q))))
             l == Len(k)
  <2>1. e = [b EXCEPT !.q = k, !.off = z, !.wb = l]
    BY DEF SplitHead
  <2> HIDE DEF e, z, l
  <2>2. e = [q |-> k, wb |-> l, rb |-> b.rb, off |-> z, avail |-> b.avail]
    BY <1>1, <2>1 DEF IsQueue
  <2>3. IsQueue(e) /\ e.q = k /\ e.wb = l
    BY <2>2 DEF IsQueue
  <2> QED BY <2>3 DEF l
<1> HIDE DEF e
<1>5. /\ Good(c) /\ content(c) = written(r) /\ c.avail = Len(written(r)) /\ read_of(c) = 0
  <2>1. e.wb \in 0 .. Len(r) /\ Filled(r, e.wb) /\ SameButRead(e.q, r)
    BY <1>3, <1>4
  <2>2. c = reset_read(e)
    BY DEF e
  <2> QED BY <1>3, <1>4, <2>1, <2>2, ResetReadKeeps
<1> QED BY <1>2, <1>3, <1>5 DEF r

\* four pieces: the two in the middle first, or the two on each side
Regroup(a, b, c, d) == (a \o (b \o c)) \o d = (a \o b) \o (c \o d)

\* makes no difference
LEMMA BytesRegroup ==
  ASSUME NEW a \in Seq(Nat), NEW b \in Seq(Nat), NEW c \in Seq(Nat), NEW d \in Seq(Nat)
  PROVE  Regroup(a, b, c, d)
<1>1. a \o b \in Seq(Nat) /\ b \o c \in Seq(Nat)
  BY BytesBoth
<1>2. Associate(a, b, c)
  BY BytesAssoc
<1>3. Associate(a \o b, c, d)
  BY <1>1, BytesAssoc
<1> QED BY <1>2, <1>3, Zenon DEF Associate, Regroup

\* a queue with the bytes of d and the blocks of moved
LEMMA SplitTailIs ==
  ASSUME SizesAssumption, NEW b, Good(b), NEW i \in 1 .. Len(b.q), NEW o \in Nat, o # 0,
         o < Len(b.q[i].data),
         NEW c, c = reset_read(SplitTail(SplitMoved(b, i, SplitNew(b, i, o))))
  PROVE  content(c) = SubSeq(b.q[i].data, o + 1, Len(b.q[i].data)) \o Beyond(b.q, i)
<1> DEFINE d == SubSeq(b.q[i].data, o + 1, Len(b.q[i].data))
           moved == SubSeq(b.q, i + 1, Len(b.q))
           s == b_write_add_avail(NewQ)
           t == SplitNew(b, i, o)
           u == SplitMoved(b, i, t)
           v == SplitTail(u)
<1>1. b.q \in Seq(BlockT)
  BY ShapeTypes DEF Good
<1>2. d \in Seq(Nat)
  <2>1. b.q[i].data \in Seq(Nat) /\ Len(b.q[i].data) \in Nat
    BY <1>1, BlockAt
  <2>2. o <= Len(b.q[i].data)
    BY <2>1
  <2> QED BY <2>1, <2>2, BytesCut
<1>3. moved \in Seq(BlockT)
  BY <1>1, Parts
<1>4. Good(s) /\ Writable(s) /\ content(s) = <<>>
  <2>1. b_write_avail(NewQ) = 0
    BY DEF b_write_avail, NewQ
  <2> QED BY <2>1, NewGood, AddAvail
<1>5. t = write(s, d)
  BY DEF SplitNew
<1> HIDE DEF d, s, t
<1>6. Good(t) /\ content(t) = d
  <2>1. Good(t) /\ content(t) = content(s) \o d
    BY <1>2, <1>4, <1>5, WriteKeeps
  <2>2. <<>> \o d = d
    BY <1>2, ConcatEmpty
  <2> QED BY <1>4, <2>1, <2>2
<1>7. IsQueue(t) /\ t.q \in Seq(BlockT)
  BY <1>6, ShapeTypes DEF Good
<1> HIDE DEF moved
<1> DEFINE w == t.q \o moved
<1>8. w \in Seq(BlockT) /\ written(w) = written(t.q) \o written(moved)
  BY <1>3, <1>7, WrittenBoth
<1> HIDE DEF w
<1>9. IsQueue(v) /\ v.q = w
  <2> DEFINE z == t.off + Len(written(moved))
             l == Len(w)
  <2>1. u = [t EXCEPT !.q = w, !.off = z]
    BY DEF SplitMoved, moved, w
  <2> HIDE DEF z, l, u
  <2>2. u = [q |-> w, wb |-> t.wb, rb |-> t.rb, off |-> z, avail |-> t.avail]
    BY <1>7, <2>1 DEF IsQueue
  <2>3. v = [u EXCEPT !.wb = l]
    BY <2>2 DEF SplitTail, l
  <2> HIDE DEF v
  <2>4. v = [q |-> w, wb |-> l, rb |-> t.rb, off |-> z, avail |-> t.avail]
    BY <2>2, <2>3
  <2> QED BY <2>4 DEF IsQueue
<1>10. c = reset_read(v)
  BY DEF t
<1> HIDE DEF v
<1>11. content(c) = written(Unread(w))
  <2>1. c.q = Unread(v.q)
    BY <1>9, <1>10 DEF reset_read, IsQueue, Unread
  <2> QED BY <1>9, <2>1 DEF content
<1>12. written(Unread(w)) = written(w)
  <2>1. SameButRead(w, w)
    BY DEF SameButRead
  <2> QED BY <1>8, <2>1, UnreadIs
<1>13. written(t.q) = d /\ written(moved) = Beyond(b.q, i)
  BY <1>6 DEF content, moved, Beyond
<1> QED BY <1>8, <1>11, <1>12, <1>13, Zenon DEF d

\* the offset is inside a block: what is before it stays and what is after it goes to the tail
LEMMA SplitKeeps ==
  ASSUME SizesAssumption, NEW b, Good(b), NEW n \in Nat, n > 0, n < Len(content(b)),
         \A j \in DOMAIN b.q : held(b.q, j) # n, NEW s, s = split(b, n)
  PROVE  /\ content(s.head) = SubSeq(content(b), 1, n)
         /\ content(s.tail) = SubSeq(content(b), n + 1, Len(content(b)))
<1> DEFINE q == b.q
           i == at_block(q, n)
           o == n - held(q, i - 1)
           k == KeptQ(q, i, o)
<1>1. s.head = reset_read(SplitHead(b, i, o, k))
      /\ s.tail = reset_read(SplitTail(SplitMoved(b, i, SplitNew(b, i, o))))
  <2> HIDE DEF i, o, k
  <2>1. s = [head |-> reset_read(SplitHead(b, i, o, k)),
             tail |-> reset_read(SplitTail(SplitMoved(b, i, SplitNew(b, i, o))))]
    BY SplitIs DEF i, o, k
  <2> QED BY <2>1
<1>2. /\ content(s.head) = written(KeptUnread(q, i, o))
      /\ i \in 1 .. Len(q) /\ o \in Nat /\ o < Len(q[i].data)
  BY <1>1, SplitHeadIs
<1>3. /\ q \in Seq(BlockT) /\ Len(q) \in Nat /\ DOMAIN q = 1 .. Len(q)
  BY ShapeTypes DEF Good
<1>4. q[i] \in BlockT /\ q[i].data \in Seq(Nat) /\ Len(q[i].data) \in Nat
  BY <1>2, <1>3, BlockAt
<1> HIDE DEF i
<1>5. o # 0
  <2> SUFFICES ASSUME o = 0 PROVE FALSE
    OBVIOUS
  <2>1. held(q, i - 1) \in Nat /\ held(q, 0) = 0
    BY <1>2, <1>3, HeldStep, HeldEnds
  <2>2. held(q, i - 1) = n
    BY <2>1
  <2>3. i # 1
    <3>1. 1 - 1 = 0
      OBVIOUS
    <3> QED BY <2>1, <2>2, <3>1
  <2>4. i - 1 \in 1 .. Len(q)
    BY <1>2, <1>3, <2>3
  <2> QED BY <1>3, <2>2, <2>4
<1> DEFINE A == Before(q, i)
           d == q[i].data
           d1 == SubSeq(d, 1, o)
           d2 == SubSeq(d, o + 1, Len(d))
           Z == Beyond(q, i)
           H == A \o d1
           T == d2 \o Z
<1>6. /\ A \in Seq(Nat) /\ Z \in Seq(Nat) /\ Len(A) = held(q, i - 1) /\ Len(A) \in Nat
      /\ SubSeq(q, 1, i - 1) \in Seq(BlockT)
  BY <1>2, <1>3, Parts
<1>7. /\ d = d1 \o d2 /\ d1 \in Seq(Nat) /\ d2 \in Seq(Nat) /\ Len(d1) = o
  <2>1. o <= Len(d)
    BY <1>2, <1>4
  <2> HIDE DEF o
  <2> QED BY <1>2, <1>4, <2>1, BytesCut DEF Cuts
<1>8. content(s.head) = H
  <2> DEFINE e == AsUnread(CutBlock(q[i], o))
             a == SubSeq(q, 1, i - 1)
  <2>1. KeptUnread(q, i, o) = Append(a, e)
    BY <1>5 DEF KeptUnread
  <2>2. e \in BlockT /\ e.data = d1
    <3>1. 0 < o /\ o <= Len(d)
      BY <1>2, <1>4, <1>5
    <3> HIDE DEF o
    <3> QED BY <1>2, <1>4, <3>1, CutBlockIs
  <2> HIDE DEF e
  <2>3. written(Append(a, e)) = written(a) \o e.data
    BY <1>6, <2>2, WrittenSnoc
  <2>4. written(a) = A
    BY DEF Before
  <2> QED BY <1>2, <2>1, <2>2, <2>3, <2>4, Zenon
<1>9. content(s.tail) = T
  <2> HIDE DEF o
  <2> QED BY <1>1, <1>2, <1>5, SplitTailIs
<1>10. content(b) = (A \o d) \o Z
  BY <1>2, <1>3, Around DEF content
<1> HIDE DEF A, Z, d1, d2, d
<1>11. content(b) = H \o T
  <2>1. Regroup(A, d1, d2, Z)
    BY <1>6, <1>7, BytesRegroup
  <2> QED BY <1>7, <1>10, <2>1, Zenon DEF Regroup
<1>12. H \in Seq(Nat) /\ T \in Seq(Nat)
  BY <1>6, <1>7, BytesBoth
<1>13. Len(H) = n
  <2>1. Len(H) = Len(A) + Len(d1)
    BY <1>6, <1>7, BytesBoth
  <2> DEFINE h == held(q, i - 1)
  <2>2. Len(H) = h + (n - h) /\ h \in Nat
    BY <1>6, <1>7, <2>1
  <2> HIDE DEF h, H
  <2> QED BY <2>2
<1>14. Len(content(b)) = Len(H) + Len(T)
  <2> HIDE DEF H, T
  <2> QED BY <1>11, <1>12, BytesBoth
<1> HIDE DEF H, T
<1>15. TwoParts(H, T)
  BY <1>12, BytesParts
<1> QED BY <1>8, <1>9, <1>11, <1>13, <1>14, <1>15, Zenon DEF TwoParts

-----------------------------------------------------------------------------
(* The calls: each keeps the invariant, and is a step of the byte queue.   *)

\* what every call keeps
NbqInv == Good(nbq) /\ next_byte \in Nat \ {0}

\* n fresh bytes
Run(first, n) == [i \in 1 .. n |-> first + i - 1]

\* are bytes
LEMMA RunIs ==
  ASSUME NEW first \in Nat \ {0}, NEW n \in Nat
  PROVE  Run(first, n) \in Seq(Nat) /\ Len(Run(first, n)) = n
<1>1. \A i \in 1 .. n : first + i - 1 \in Nat
  OBVIOUS
<1> QED BY <1>1 DEF Run

\* bytes that are written are not read
LEMMA AppendedReadOf ==
  ASSUME NEW b, Good(b), NEW x \in Seq(Nat), NEW c, content(c) = content(b) \o x,
         c.avail = b.avail + Len(x)
  PROVE  read_of(c) = read_of(b)
<1>1. content(b) \in Seq(Nat) /\ b.avail \in Nat
  BY ReadOf
<1> DEFINE l == Len(content(b))
           n == Len(x)
<1>2. Len(content(c)) = l + n /\ l \in Nat /\ n \in Nat
  BY <1>1, BytesBoth
<1>3. read_of(c) = (l + n) - (b.avail + n) /\ read_of(b) = l - b.avail
  BY <1>2 DEF read_of
<1> HIDE DEF l, n
<1> QED BY <1>1, <1>2, <1>3

\* writing fresh bytes is a step of the byte queue
LEMMA RunStep ==
  ASSUME SizesAssumption, next_byte \in Nat \ {0}, NEW n \in 1 .. MaxBytes - next_byte + 1,
         content(nbq') = content(nbq) \o Run(next_byte, n), read_of(nbq') = read_of(nbq),
         taken' = <<>>, tail' = tail
  PROVE  BQ!Next
<1>1. next_byte \in 1 .. MaxBytes /\ n \in 1 .. MaxBytes
  BY DEF SizesAssumption
<1>2. BQ!Append_(Run(next_byte, n))
  BY DEF BQ!Append_, read_of
<1>3. BQ!Append_([i \in 1 .. n |-> next_byte + i - 1])
  BY <1>2 DEF Run
<1> QED BY <1>1, <1>3, Zenon DEF BQ!Next

\* write, in as many blocks as it takes
LEMMA WriteStep ==
  ASSUME SizesAssumption, NbqInv, Write
  PROVE  NbqInv' /\ BQ!Next
<1>0. Good(nbq) /\ next_byte \in Nat \ {0}
  BY DEF NbqInv
<1>1. PICK n \in 1 .. MaxBytes - next_byte + 1 :
        /\ writable
        /\ nbq' = write(nbq, Run(next_byte, n))
        /\ next_byte' = next_byte + n
        /\ taken' = <<>> /\ tail' = tail
  BY Zenon DEF Write, Run
<1>2. Run(next_byte, n) \in Seq(Nat) /\ Len(Run(next_byte, n)) = n /\ n \in Nat
  BY <1>0, RunIs
<1>3. /\ Good(nbq') /\ content(nbq') = content(nbq) \o Run(next_byte, n)
      /\ nbq'.avail = nbq.avail + Len(Run(next_byte, n))
  <2>1. Writable(nbq)
    BY <1>1 DEF writable, Writable
  <2> QED BY <1>0, <1>1, <1>2, <2>1, WriteKeeps
<1>4. read_of(nbq') = read_of(nbq)
  BY <1>0, <1>2, <1>3, AppendedReadOf
<1>5. next_byte' \in Nat \ {0}
  BY <1>0, <1>1, <1>2
<1>6. BQ!Next
  BY <1>0, <1>1, <1>3, <1>4, RunStep
<1> QED BY <1>3, <1>5, <1>6 DEF NbqInv

\* what nconn reads from the socket, into one block
LEMMA NcReadStep ==
  ASSUME SizesAssumption, NbqInv, NcRead
  PROVE  NbqInv' /\ BQ!Next
<1>0. Good(nbq) /\ next_byte \in Nat \ {0}
  BY DEF NbqInv
<1> DEFINE b == IF b_write_avail(nbq) = 0 THEN b_write_add_avail(nbq) ELSE nbq
<1>1. /\ writable
      /\ \E n \in 1 .. least(b_write_avail(b), MaxBytes - next_byte + 1) :
           /\ nbq' = b_write_incr(b, Run(next_byte, n))
           /\ next_byte' = next_byte + n
      /\ taken' = <<>> /\ tail' = tail
  BY Zenon DEF NcRead, Run
<1> HIDE DEF b
<1>2. /\ Good(b) /\ content(b) = content(nbq) /\ b.avail = nbq.avail /\ b_write_avail(b) \in Nat
  <2>1. Writable(nbq)
    BY <1>1 DEF writable, Writable
  <2>2. CASE b_write_avail(nbq) = 0
    <3>1. b = b_write_add_avail(nbq)
      BY <2>2 DEF b
    <3>2. Good(b) /\ content(b) = content(nbq) /\ b.avail = nbq.avail
      BY <1>0, <2>1, <2>2, <3>1, AddAvail
    <3> QED BY <3>2, WriteAvail
  <2>3. CASE b_write_avail(nbq) # 0
    <3>1. b = nbq
      BY <2>3 DEF b
    <3> QED BY <1>0, <3>1, WriteAvail
  <2> QED BY <2>2, <2>3
<1>3. PICK n \in 1 .. least(b_write_avail(b), MaxBytes - next_byte + 1) :
        nbq' = b_write_incr(b, Run(next_byte, n)) /\ next_byte' = next_byte + n
  BY <1>1
<1>4. n \in Nat /\ n > 0 /\ n <= b_write_avail(b) /\ n \in 1 .. MaxBytes - next_byte + 1
  BY <1>0, <1>2, <1>3 DEF least, SizesAssumption
<1>5. Run(next_byte, n) \in Seq(Nat) /\ Len(Run(next_byte, n)) = n
  BY <1>0, <1>4, RunIs
<1>6. /\ Good(nbq') /\ content(nbq') = content(nbq) \o Run(next_byte, n)
      /\ nbq'.avail = nbq.avail + Len(Run(next_byte, n))
  <2> DEFINE x == Run(next_byte, n)
             c == nbq'
  <2>1. x # <<>>
    <3>1. Len(<<>>) = 0
      OBVIOUS
    <3> QED BY <1>4, <1>5, <3>1
  <2>2. c = b_write_incr(b, x) /\ x \in Seq(Nat) /\ Len(x) <= b_write_avail(b)
    BY <1>3, <1>4, <1>5
  <2> HIDE DEF x, c
  <2>3. Good(c) /\ content(c) = content(b) \o x /\ c.avail = b.avail + Len(x)
    BY <1>2, <2>1, <2>2, WriteIncr
  <2> QED BY <1>2, <2>3, Zenon DEF x, c
<1>7. read_of(nbq') = read_of(nbq)
  BY <1>0, <1>5, <1>6, AppendedReadOf
<1>8. next_byte' \in Nat \ {0}
  BY <1>0, <1>3, <1>4
<1>9. BQ!Next
  BY <1>0, <1>1, <1>4, <1>6, <1>7, RunStep
<1> QED BY <1>6, <1>8, <1>9 DEF NbqInv

\* a body joined by reference
LEMMA JoinRefStep ==
  ASSUME BodiesAssumption, NbqInv, JoinRef
  PROVE  NbqInv' /\ BQ!Next
<1>0. Good(nbq) /\ next_byte \in Nat \ {0}
  BY DEF NbqInv
<1>1. PICK body \in Bodies :
        /\ fresh /\ own
        /\ nbq' = join_ref(nbq, body)
        /\ taken' = <<>> /\ UNCHANGED <<tail, next_byte>>
  BY DEF JoinRef
<1>2. IsBody(body)
  BY DEF BodiesAssumption, IsBody
<1>3. AllUnread(nbq.q)
  BY <1>1 DEF fresh, AllUnread
<1>4. /\ Good(nbq') /\ content(nbq') = content(nbq) \o FlattenSeq(body)
      /\ read_of(nbq') = read_of(nbq)
  BY <1>0, <1>1, <1>2, <1>3, JoinRefKeeps
<1>5. BQ!Append_(FlattenSeq(body))
  BY <1>1, <1>4 DEF BQ!Append_, read_of
<1>6. FlattenSeq(body) \in {FlattenSeq(d) : d \in Bodies}
  OBVIOUS
<1>7. BQ!Next
  BY <1>5, <1>6, Zenon DEF BQ!Next
<1>8. next_byte' = next_byte
  BY <1>1
<1> QED BY <1>0, <1>4, <1>7, <1>8 DEF NbqInv

\* n of the bytes that are left are read
LEMMA ReadStepOf ==
  ASSUME Good(nbq), NEW n \in Nat, n > 0, n <= nbq.avail,
         content(nbq') = content(nbq), read_of(nbq') = read_of(nbq) + n,
         taken' = SubSeq(content(nbq), read_of(nbq) + 1, read_of(nbq) + n), tail' = tail
  PROVE  BQ!Next
<1>1. /\ Len(content(nbq)) \in Nat /\ nbq.avail \in Nat
      /\ read_of(nbq) \in Nat /\ read_of(nbq) + nbq.avail = Len(content(nbq))
  BY ReadOf
<1>2. n \in 1 .. Len(content(nbq))
  BY <1>1
<1>3. n \in 1 .. Len(content(nbq)) - read_of(nbq)
  BY <1>1
<1>4. BQ!Read(n)
  <2>1. n \in 1 .. Len(content(nbq)) - (Len(content(nbq)) - nbq.avail)
    BY <1>3, Zenon DEF read_of
  <2>2. taken' = SubSeq(content(nbq), (Len(content(nbq)) - nbq.avail) + 1,
                        (Len(content(nbq)) - nbq.avail) + n)
    BY Zenon DEF read_of
  <2>3. (Len(content(nbq)) - nbq.avail)' = (Len(content(nbq)) - nbq.avail) + n
    BY Zenon DEF read_of
  <2>4. UNCHANGED <<content(nbq), content(tail)>>
    OBVIOUS
  <2> QED BY <2>1, <2>2, <2>3, <2>4, Zenon DEF BQ!Read
<1> QED BY <1>2, <1>4, Zenon DEF BQ!Next

\* what nconn writes to the socket, out of one block
LEMMA NcWriteStep ==
  ASSUME NbqInv, NcWrite
  PROVE  NbqInv' /\ BQ!Next
<1>0. Good(nbq) /\ next_byte \in Nat \ {0}
  BY DEF NbqInv
<1> DEFINE blk == nbq.q[nbq.rb]
<1>1. PICK n \in 1 .. b_read_avail(nbq) :
        /\ taken' = SubSeq(blk.data, blk.read + 1, blk.read + n)
        /\ nbq' = b_read_incr(nbq, n)
        /\ UNCHANGED <<tail, next_byte>>
  BY DEF NcWrite
<1>2. /\ b_read_avail(nbq) = IF nbq.rb = END THEN 0 ELSE read_avail(nbq.q[nbq.rb])
      /\ b_read_avail(nbq) \in Nat /\ b_read_avail(nbq) <= nbq.avail
  BY <1>0, ReadAvail
<1>3. n \in Nat /\ n > 0 /\ n <= b_read_avail(nbq) /\ n <= nbq.avail /\ nbq.rb # END
      /\ n <= read_avail(blk) /\ nbq.avail \in Nat
  <2>1. n \in Nat /\ n > 0 /\ n <= b_read_avail(nbq)
    BY <1>2
  <2>2. nbq.rb # END
    BY <1>2, <2>1
  <2>3. n <= read_avail(blk)
    BY <1>2, <2>1, <2>2
  <2>4. nbq.avail \in Nat
    BY <1>0, ReadOf
  <2> QED BY <1>2, <2>1, <2>2, <2>3, <2>4
<1>4. Good(nbq') /\ content(nbq') = content(nbq) /\ nbq'.avail = nbq.avail - n
  BY <1>0, <1>1, <1>3, ReadIncr
<1>5. read_of(nbq') = read_of(nbq) + n
  <2> DEFINE l == Len(content(nbq))
  <2>1. l \in Nat
    BY <1>0, ReadOf
  <2> HIDE DEF l
  <2>2. l - (nbq.avail - n) = (l - nbq.avail) + n
    BY <1>3, <2>1
  <2> QED BY <1>4, <2>2, Zenon DEF read_of, l
<1>6. nbq.q \in Seq(BlockT) /\ nbq.rb \in 1 .. Len(nbq.q)
  BY <1>0, <1>3, AvailIs DEF Good
<1>7. taken' = SubSeq(content(nbq), read_of(nbq) + 1, read_of(nbq) + n)
  <2>1. read_of(nbq) = held(nbq.q, nbq.rb - 1) + blk.read
    BY <1>0, <1>3, ReadOf
  <2>2. blk.read \in Nat /\ Len(blk.data) \in Nat
    BY <1>6, BlockAt
  <2>3. blk.read + n <= Len(blk.data)
    <3> DEFINE m == Len(blk.data)
               v == blk.read
    <3>1. n <= m - v
      BY <1>3 DEF read_avail
    <3>2. m \in Nat /\ v \in Nat
      BY <2>2
    <3> HIDE DEF m, v
    <3>3. v + n <= m
      BY <1>3, <3>1, <3>2
    <3> QED BY <3>3 DEF m, v
  <2>4. SubSeq(blk.data, blk.read + 1, blk.read + n)
          = SubSeq(written(nbq.q), held(nbq.q, nbq.rb - 1) + blk.read + 1,
                                   held(nbq.q, nbq.rb - 1) + blk.read + n)
    BY <1>3, <1>6, <2>2, <2>3, PieceAt
  <2> QED BY <1>1, <2>1, <2>4, Zenon DEF content
<1>8. tail' = tail /\ next_byte' = next_byte
  BY <1>1
<1>9. BQ!Next
  BY <1>0, <1>3, <1>4, <1>5, <1>7, <1>8, ReadStepOf
<1> QED BY <1>0, <1>4, <1>8, <1>9 DEF NbqInv

\* read, out of as many blocks as it takes
LEMMA ReadStep ==
  ASSUME NbqInv, Read
  PROVE  NbqInv' /\ BQ!Next
<1>0. Good(nbq) /\ next_byte \in Nat \ {0}
  BY DEF NbqInv
<1>1. PICK n \in 1 .. nbq.avail :
        /\ nbq' = read(nbq, n).b /\ taken' = read(nbq, n).got
        /\ tail' = tail /\ next_byte' = next_byte
  BY Zenon DEF Read
<1>2. nbq.avail \in Nat
  BY <1>0, ReadOf
<1>3. n \in Nat /\ n > 0 /\ n <= nbq.avail
  BY <1>2
<1>4. /\ Good(nbq') /\ content(nbq') = content(nbq) /\ read_of(nbq') = read_of(nbq) + n
      /\ taken' = SubSeq(content(nbq), read_of(nbq) + 1, read_of(nbq) + n)
  BY <1>0, <1>1, <1>3, ReadKeeps
<1>5. BQ!Next
  BY <1>0, <1>1, <1>3, <1>4, ReadStepOf
<1> QED BY <1>0, <1>1, <1>4, <1>5 DEF NbqInv

\* read_from: reset_read, a read that is dropped, and a read
LEMMA ReadFromStep ==
  ASSUME NbqInv, ReadFrom
  PROVE  NbqInv' /\ BQ!Next
<1>0. Good(nbq) /\ next_byte \in Nat \ {0}
  BY DEF NbqInv
<1> DEFINE C == content(nbq)
           l == Len(C)
<1>1. PICK n_off \in 0 .. l, n \in 1 .. l + 1 :
        LET s == read(reset_read(nbq), n_off).b
            r == read(s, least(n, s.avail))
        IN nbq' = r.b /\ taken' = r.got /\ tail' = tail /\ next_byte' = next_byte
  BY Zenon DEF ReadFrom
<1>2. l \in Nat
  BY <1>0, ReadOf
<1> DEFINE e == reset_read(nbq)
           s == read(e, n_off).b
           m == least(n, s.avail)
           r == read(s, m)
<1>3. nbq' = r.b /\ taken' = r.got /\ tail' = tail /\ next_byte' = next_byte
  BY <1>1, Zenon
<1>4. Good(e) /\ content(e) = C /\ e.avail = l /\ read_of(e) = 0
  BY <1>0, ResetReadRewinds
<1> HIDE DEF e, l
<1>5. n_off \in Nat /\ n_off <= l /\ n \in Nat /\ n > 0
  BY <1>1, <1>2
<1>6. Good(s) /\ content(s) = C /\ s.avail = l - n_off /\ read_of(s) = 0 + n_off
  BY <1>4, <1>5, ReadKeeps
<1> HIDE DEF s
<1>7. m \in Nat /\ m <= s.avail /\ n_off + m = IF n_off + n < l THEN n_off + n ELSE l
  BY <1>2, <1>5, <1>6 DEF least
<1> HIDE DEF m
<1>8. /\ Good(r.b) /\ content(r.b) = C /\ read_of(r.b) = read_of(s) + m
      /\ r.got = SubSeq(content(s), read_of(s) + 1, read_of(s) + m)
  BY <1>6, <1>7, ReadKeeps
<1> DEFINE to == IF n_off + n < l THEN n_off + n ELSE l
<1>9. read_of(nbq') = to /\ taken' = SubSeq(C, n_off + 1, to) /\ content(nbq') = C
  <2>1. read_of(s) = n_off /\ read_of(s) + m = to
    <3>1. read_of(s) = n_off
      BY <1>5, <1>6
    <3> QED BY <1>7, <3>1, Zenon
  <2> HIDE DEF to
  <2> QED BY <1>3, <1>6, <1>8, <2>1
<1>10. BQ!ReadFrom(n_off, n)
  <2>1. to = IF n_off + n < Len(content(nbq)) THEN n_off + n ELSE Len(content(nbq))
    BY DEF l
  <2>2. (Len(content(nbq)) - nbq.avail)' = to
    BY <1>9, Zenon DEF read_of
  <2> HIDE DEF to
  <2>3. UNCHANGED <<content(nbq), content(tail)>>
    BY <1>3, <1>9
  <2> QED BY <1>9, <2>1, <2>2, <2>3, Zenon DEF BQ!ReadFrom
<1>11. BQ!Next
  BY <1>1, <1>10, Zenon DEF BQ!Next, l
<1> QED BY <1>0, <1>3, <1>8, <1>11 DEF NbqInv

\* reset_read
LEMMA ResetReadStep ==
  ASSUME NbqInv, ResetRead
  PROVE  NbqInv' /\ BQ!Next
<1>0. Good(nbq) /\ next_byte \in Nat \ {0}
  BY Zenon DEF NbqInv
<1>1. nbq' = reset_read(nbq) /\ taken' = <<>> /\ tail' = tail /\ next_byte' = next_byte
  BY Zenon DEF ResetRead
<1>2. Good(nbq') /\ content(nbq') = content(nbq) /\ read_of(nbq') = 0
  BY <1>0, <1>1, ResetReadRewinds
<1>3. BQ!Rewind
  BY <1>1, <1>2 DEF BQ!Rewind, read_of
<1>4. BQ!Next
  BY <1>3, Zenon DEF BQ!Next
<1> QED BY <1>0, <1>1, <1>2, <1>4 DEF NbqInv

\* nothing written is an empty byte queue
LEMMA ClearStep ==
  ASSUME content(nbq') = <<>>, read_of(nbq') = 0, taken' = <<>>, tail' = tail
  PROVE  BQ!Next
<1>1. BQ!Clear
  BY DEF BQ!Clear, read_of
<1> QED BY <1>1, Zenon DEF BQ!Next

\* reset_write
LEMMA ResetWriteStep ==
  ASSUME NbqInv, ResetWrite
  PROVE  NbqInv' /\ BQ!Next
<1>1. nbq' = reset_write(nbq) /\ next_byte' = 1 /\ taken' = <<>> /\ tail' = tail
  BY Zenon DEF ResetWrite
<1>2. Good(nbq') /\ content(nbq') = <<>> /\ read_of(nbq') = 0
  BY <1>1, ResetWriteKeeps DEF NbqInv
<1>3. BQ!Next
  BY <1>1, <1>2, ClearStep
<1> QED BY <1>1, <1>2, <1>3 DEF NbqInv

\* reset
LEMMA ResetStep ==
  ASSUME NbqInv, Reset
  PROVE  NbqInv' /\ BQ!Next
<1>1. nbq' = NewQ /\ next_byte' = 1 /\ taken' = <<>> /\ tail' = tail
  BY Zenon DEF Reset
<1>2. Good(nbq') /\ content(nbq') = <<>> /\ read_of(nbq') = 0
  <2>1. Good(NewQ) /\ content(NewQ) = <<>> /\ NewQ.avail = 0
    BY NewGood
  <2>2. Len(<<>>) - 0 = 0
    OBVIOUS
  <2> QED BY <1>1, <2>1, <2>2 DEF read_of
<1>3. BQ!Next
  BY <1>1, <1>2, ClearStep
<1> QED BY <1>1, <1>2, <1>3 DEF NbqInv

\* shrink drops the bytes of the blocks before the read block, which were all read
LEMMA ShrinkStep ==
  ASSUME NbqInv, Shrink
  PROVE  NbqInv' /\ BQ!Next
<1>0. Good(nbq) /\ next_byte \in Nat \ {0}
  BY Zenon DEF NbqInv
<1>1. nbq' = shrink(nbq) /\ taken' = <<>> /\ tail' = tail /\ next_byte' = next_byte
  BY Zenon DEF Shrink
<1>2. /\ Good(nbq')
      /\ \E n \in 0 .. read_of(nbq) :
           /\ content(nbq') = SubSeq(content(nbq), n + 1, Len(content(nbq)))
           /\ read_of(nbq') = read_of(nbq) - n
  BY <1>0, <1>1, ShrinkKeeps
<1>3. PICK n \in 0 .. read_of(nbq) :
        /\ content(nbq') = SubSeq(content(nbq), n + 1, Len(content(nbq)))
        /\ read_of(nbq') = read_of(nbq) - n
  BY <1>2
<1>4. n \in 0 .. Len(content(nbq))
  <2>1. /\ Len(content(nbq)) \in Nat /\ nbq.avail \in Nat
        /\ read_of(nbq) \in Nat /\ read_of(nbq) + nbq.avail = Len(content(nbq))
    BY <1>0, ReadOf
  <2> QED BY <1>3, <2>1
<1>5. BQ!Drop(n)
  <2>1. n \in 0 .. Len(content(nbq)) - nbq.avail
    BY <1>3, Zenon DEF read_of
  <2>2. (Len(content(nbq)) - nbq.avail)' = (Len(content(nbq)) - nbq.avail) - n
    BY <1>3, Zenon DEF read_of
  <2> QED BY <1>1, <1>3, <2>1, <2>2 DEF BQ!Drop
<1>6. BQ!Next
  BY <1>4, <1>5, Zenon DEF BQ!Next
<1> QED BY <1>0, <1>1, <1>2, <1>6 DEF NbqInv

\* split: a step of the byte queue if it cuts a block in two
LEMMA SplitStep ==
  ASSUME SizesAssumption, NbqInv, Split
  PROVE  NbqInv' /\ (~SplitAnywhere => BQ!Next)
<1>0. Good(nbq) /\ next_byte \in Nat \ {0}
  BY Zenon DEF NbqInv
<1> DEFINE C == content(nbq)
<1>1. PICK n \in 1 .. nbq.off - 1 :
        /\ nbq.off = Len(C)
        /\ ~at_boundary(n) \/ SplitAnywhere
        /\ nbq' = split(nbq, n).head /\ tail' = split(nbq, n).tail
        /\ taken' = <<>> /\ next_byte' = next_byte
  BY Zenon DEF Split, SplitAt
<1>2. n \in Nat /\ n > 0 /\ n < Len(C) /\ n \in 1 .. Len(C) - 1 /\ Len(C) \in Nat
  <2>1. Len(C) \in Nat
    BY <1>0, ReadOf
  <2> HIDE DEF C
  <2> QED BY <1>1, <2>1
<1> DEFINE i == at_block(nbq.q, n)
           o == n - held(nbq.q, i - 1)
           k == KeptQ(nbq.q, i, o)
<1>3. Good(nbq') /\ read_of(nbq') = 0
  <2> HIDE DEF i, o, k
  <2>1. nbq' = reset_read(SplitHead(nbq, i, o, k))
    <3>1. split(nbq, n) =
            [head |-> reset_read(SplitHead(nbq, i, o, k)),
             tail |-> reset_read(SplitTail(SplitMoved(nbq, i, SplitNew(nbq, i, o))))]
      BY SplitIs DEF i, o, k
    <3> QED BY <1>1, <3>1
  <2> QED BY <1>0, <1>2, <2>1, SplitHeadIs DEF i, o, k
<1>4. ASSUME ~SplitAnywhere PROVE BQ!Next
  <2>1. \A j \in DOMAIN nbq.q : held(nbq.q, j) # n
    BY <1>1, <1>4 DEF at_boundary
  <2>2. content(nbq') = SubSeq(C, 1, n) /\ content(tail') = SubSeq(C, n + 1, Len(C))
    BY <1>0, <1>1, <1>2, <2>1, SplitKeeps
  <2>3. BQ!Split(n)
    BY <1>1, <1>2, <1>3, <2>2 DEF BQ!Split, read_of
  <2>4. n \in 1 .. Len(content(nbq))
    BY <1>2
  <2> QED BY <2>3, <2>4, Zenon DEF BQ!Next
<1> QED BY <1>0, <1>1, <1>3, <1>4 DEF NbqInv

-----------------------------------------------------------------------------
(* Theorems.                                                               *)

\* a queue begins with no block
LEMMA InitNbqInv == NbqInit => NbqInv
BY NewGood DEF NbqInit, NbqInv

\* each call keeps the invariant; but for a split that cuts no block, it is a step of the byte queue
LEMMA NextNbqInv ==
  ASSUME SizesAssumption, BodiesAssumption, NbqInv, [NbqNext]_nbq_vars
  PROVE  NbqInv' /\ (~SplitAnywhere => [BQ!Next]_(BQ!vars))
<1>1. CASE Write
  BY <1>1, WriteStep
<1>2. CASE NcRead
  BY <1>2, NcReadStep
<1>3. CASE JoinRef
  BY <1>3, JoinRefStep
<1>4. CASE NcWrite
  BY <1>4, NcWriteStep
<1>5. CASE Read
  BY <1>5, ReadStep
<1>6. CASE ReadFrom
  BY <1>6, ReadFromStep
<1>7. CASE ResetRead
  BY <1>7, ResetReadStep
<1>8. CASE ResetWrite
  BY <1>8, ResetWriteStep
<1>9. CASE Reset
  BY <1>9, ResetStep
<1>10. CASE Shrink
  BY <1>10, ShrinkStep
<1>11. CASE Split
  BY <1>11, SplitStep
<1>12. CASE UNCHANGED nbq_vars
  <2>1. nbq' = nbq /\ tail' = tail /\ next_byte' = next_byte /\ taken' = taken
    BY <1>12 DEF nbq_vars
  <2>2. NbqInv'
    BY <2>1 DEF NbqInv
  <2>3. UNCHANGED BQ!vars
    BY <2>1 DEF BQ!vars
  <2> QED BY <2>2, <2>3
<1> QED
  BY <1>1, <1>2, <1>3, <1>4, <1>5, <1>6, <1>7, <1>8, <1>9, <1>10, <1>11, <1>12, Zenon DEF NbqNext

\* the invariant alone
LEMMA NbqInvNext ==
  SizesAssumption /\ BodiesAssumption /\ NbqInv /\ [NbqNext]_nbq_vars => NbqInv'
BY NextNbqInv

\* and what the property asks of it
LEMMA NbqInvAtHand == NbqInv => NextAtHand
<1> SUFFICES ASSUME NbqInv PROVE NextAtHand
  OBVIOUS
<1>1. Good(nbq)
  BY Zenon DEF NbqInv
<1>2. /\ b_read_avail(nbq) = IF nbq.rb = END THEN 0 ELSE read_avail(nbq.q[nbq.rb])
      /\ b_read_avail(nbq) \in Nat
      /\ nbq.avail > 0 => b_read_avail(nbq) > 0
  BY <1>1, ReadAvail
<1>3. nbq.rb # END => b_read_avail(nbq) <= read_avail(nbq.q[nbq.rb])
  BY <1>2
<1> QED BY <1>2, <1>3 DEF NextAtHand

\* The socket is always handed bytes that are there: however the queue was written, read,
\* rewound, joined, shrunk or split, the read block has a byte as long as bytes are left.
THEOREM NextAtHandHolds ==
  SizesAssumption /\ BodiesAssumption => (NbqSpec => []NextAtHand)
<1>1. NbqInit => NbqInv
  BY InitNbqInv
<1>2. SizesAssumption /\ BodiesAssumption /\ NbqInv /\ [NbqNext]_nbq_vars => NbqInv'
  BY NbqInvNext
<1>3. NbqInv => NextAtHand
  BY NbqInvAtHand
<1> SUFFICES ASSUME SizesAssumption /\ BodiesAssumption PROVE NbqSpec => []NextAtHand
  OBVIOUS
<1> QED
  BY <1>1, <1>2, <1>3, PTL DEF NbqSpec

\* no bytes are an empty byte queue
LEMMA InitByteQueue == NbqInit => BQ!Init
<1> SUFFICES ASSUME NbqInit PROVE BQ!Init
  OBVIOUS
<1>1. nbq = NewQ /\ tail = NewQ /\ taken = <<>>
  BY DEF NbqInit
<1>2. content(NewQ) = <<>> /\ NewQ.avail = 0
  BY NewGood
<1>3. Len(<<>>) - 0 = 0
  OBVIOUS
<1> QED BY <1>1, <1>2, <1>3 DEF BQ!Init

\* Where no split is at the end of a block, nbq is a byte queue: every call is one step of it,
\* so bytes come out in the order they went in, none twice and none skipped.
THEOREM ByteQueueHolds ==
  SizesAssumption /\ BodiesAssumption /\ ~SplitAnywhere => (NbqSpec => ImplementsByteQueue)
<1>1. NbqInit => NbqInv /\ BQ!Init
  BY InitNbqInv, InitByteQueue
<1>2. SizesAssumption /\ BodiesAssumption /\ ~SplitAnywhere /\ NbqInv /\ [NbqNext]_nbq_vars
        => NbqInv' /\ [BQ!Next]_(BQ!vars)
  BY NextNbqInv
<1> SUFFICES ASSUME SizesAssumption /\ BodiesAssumption /\ ~SplitAnywhere
             PROVE  NbqSpec => ImplementsByteQueue
  OBVIOUS
<1> QED
  BY <1>1, <1>2, PTL DEF NbqSpec, ImplementsByteQueue, BQ!Spec
=============================================================================
