-------------------------- MODULE H2SessionProofs ---------------------------
(***************************************************************************)
(* What H2Session keeps, for every -f and -N, every size of the bodies and *)
(* the windows, and any faults: the types, the accounting of the streams,  *)
(* whole bodies, a request open wherever the connection waits, and the     *)
(* refinement of LoadGen.                                                  *)
(*                                                                         *)
(* The argument goes by three parts of the state: the frames queued and    *)
(* what is left of the body (Whole), the frames in flight and whose turn   *)
(* it is (Turns, Busy), and the counters (Counts, Sent).  Types holds of   *)
(* all of them, and says what there is before the handshake is over.       *)
(***************************************************************************)
EXTENDS H2Session, SequenceTheorems, FiniteSetTheorems, TLAPS

(* Frames in a queue or a record.                                          *)

Ctl == {"ACK", "WU"}
Heads == {"HEADERS", "HEADERS_END"}
Data == {"DATA", "DATA_END"}
Sending == {"open", "half_remote"}
Ends == {"END", "RST"}

\* one of the frames of a queue or a record is in F
Has(q, F) == \E i \in 1 .. Len(q) : q[i] \in F

\* DATA frames in a queue
DataFrames(q) == Cardinality({i \in 1 .. Len(q) : q[i] \in Data})

\* m_out_q: HEADERS go behind control frames only, no DATA follows the last of a body, and none
\* has been queued while there is more to read
Queue(q, s) ==
  /\ \A i \in 1 .. Len(q) :
       /\ q[i] \in Heads => q[i] = headers /\ \A j \in 1 .. i - 1 : q[j] \in Ctl
       /\ q[i] = "DATA_END" => \A j \in i + 1 .. Len(q) : q[j] \notin Data
       /\ q[i] \in Data => BodyFrames > 0
  /\ s.stream \in Sending => body_left(s) > 0 /\ ~Has(q, {"DATA_END"})

\* What the server has of the body, what is queued and what is left to read make up the body.
\* As long as the HEADERS are queued, the server has none of it.
Bodies(q, s, g) ==
  LET base == IF Has(q, Heads) THEN 0 ELSE g IN
  /\ s.stream \in Sending => base + DataFrames(q) + body_left(s) = BodyFrames
  /\ Has(q, {"DATA_END"}) => base + DataFrames(q) = BodyFrames

\* A frame of two queues is in one of them.
LEMMA HasConcat ==
  ASSUME NEW S, NEW p \in Seq(S), NEW q \in Seq(S), NEW F
  PROVE  Has(p \o q, F) <=> Has(p, F) \/ Has(q, F)
<1>1. Has(p, F) => Has(p \o q, F)
  BY DEF Has
<1>2. Has(q, F) => Has(p \o q, F)
  <2> SUFFICES ASSUME NEW i \in 1 .. Len(q), q[i] \in F PROVE Has(p \o q, F)
    BY DEF Has
  <2>1. Len(p) + i \in 1 .. Len(p \o q) /\ (p \o q)[Len(p) + i] = q[i]
    OBVIOUS
  <2> QED
    BY <2>1 DEF Has
<1>3. Has(p \o q, F) => Has(p, F) \/ Has(q, F)
  <2> SUFFICES ASSUME NEW i \in 1 .. Len(p \o q), (p \o q)[i] \in F PROVE Has(p, F) \/ Has(q, F)
    BY DEF Has
  <2>1. CASE i <= Len(p)
    BY <2>1 DEF Has
  <2>2. CASE i > Len(p)
    <3>1. i - Len(p) \in 1 .. Len(q) /\ (p \o q)[i] = q[i - Len(p)]
      BY <2>2
    <3> QED
      BY <3>1 DEF Has
  <2> QED
    BY <2>1, <2>2
<1> QED
  BY <1>1, <1>2, <1>3

\* A record has one frame or two.
LEMMA HasFew ==
  ASSUME NEW q, NEW F
  PROVE  /\ Len(q) = 1 => (Has(q, F) <=> q[1] \in F)
         /\ Len(q) = 2 => (Has(q, F) <=> q[1] \in F \/ q[2] \in F)
         /\ Len(q) = 1 => \A j, k \in 1 .. Len(q) : j = k
         /\ Len(q) = 2 => \A j, k \in 1 .. Len(q) :
                             q[j] \in F /\ q[k] \in F /\ j # k => q[1] \in F /\ q[2] \in F
<1>1. Len(q) = 1 => 1 .. Len(q) = {1}
  OBVIOUS
<1>2. Len(q) = 2 => 1 .. Len(q) = {1, 2}
  OBVIOUS
<1> QED
  BY <1>1, <1>2 DEF Has

\* A frame is the first of a queue or behind it.
LEMMA HasTail ==
  ASSUME NEW S, NEW q \in Seq(S), q # << >>, NEW F
  PROVE  Has(q, F) <=> Head(q) \in F \/ Has(Tail(q), F)
<1>1. ASSUME Head(q) \in F PROVE Has(q, F)
  BY <1>1 DEF Has
<1>2. ASSUME NEW i \in 1 .. Len(Tail(q)), Tail(q)[i] \in F PROVE Has(q, F)
  <2>1. i + 1 \in 1 .. Len(q) /\ q[i + 1] = Tail(q)[i]
    OBVIOUS
  <2> QED
    BY <1>2, <2>1 DEF Has
<1>3. ASSUME NEW i \in 1 .. Len(q), q[i] \in F, i # 1 PROVE Has(Tail(q), F)
  <2>1. i - 1 \in 1 .. Len(Tail(q)) /\ q[i] = Tail(q)[i - 1]
    BY <1>3
  <2> QED
    BY <1>3, <2>1 DEF Has
<1> QED
  BY <1>1, <1>2, <1>3 DEF Has

\* The number of DATA frames is a number, and none if no frame is DATA.
LEMMA DataFinite ==
  ASSUME NEW q \in Seq(Frames)
  PROVE  /\ IsFiniteSet({i \in 1 .. Len(q) : q[i] \in Data})
         /\ DataFrames(q) \in Nat
         /\ DataFrames(q) = 0 <=> ~Has(q, Data)
<1> DEFINE D == {i \in 1 .. Len(q) : q[i] \in Data}
<1>1. IsFiniteSet(1 .. Len(q)) /\ D \in SUBSET (1 .. Len(q))
  BY FS_Interval
<1>2. IsFiniteSet(D)
  BY <1>1, FS_Subset
<1>3. D = {} <=> ~Has(q, Data)
  BY DEF Has
<1> HIDE DEF D
<1>4. Cardinality(D) \in Nat /\ (Cardinality(D) = 0 <=> D = {})
  BY <1>2, FS_CardinalityType, FS_EmptySet
<1> QED
  BY <1>2, <1>3, <1>4 DEF DataFrames, D

\* Two queues have the DATA frames of both.
LEMMA DataConcat ==
  ASSUME NEW p \in Seq(Frames), NEW q \in Seq(Frames)
  PROVE  DataFrames(p \o q) = DataFrames(p) + DataFrames(q)
<1> DEFINE P == {i \in 1 .. Len(p) : p[i] \in Data}
           Q == {i \in 1 .. Len(q) : q[i] \in Data}
           R == {i \in 1 .. Len(p \o q) : (p \o q)[i] \in Data}
           M == {i \in Len(p) + 1 .. Len(p \o q) : (p \o q)[i] \in Data}
           f == [i \in Q |-> Len(p) + i]
<1>1. R = P \cup M /\ P \cap M = {}
  OBVIOUS
<1>2. f \in Bijection(Q, M)
  <2>1. f \in [Q -> M]
    OBVIOUS
  <2>2. \A i, j \in Q : f[i] = f[j] => i = j
    OBVIOUS
  <2>3. \A m \in M : m - Len(p) \in Q /\ f[m - Len(p)] = m
    OBVIOUS
  <2>4. f \in Surjection(Q, M)
    BY <2>1, <2>3 DEF Surjection
  <2>5. f \in Injection(Q, M)
    BY <2>1, <2>2 DEF Injection, IsInjective
  <2> QED
    BY <2>4, <2>5 DEF Bijection
<1>3. IsFiniteSet(P) /\ IsFiniteSet(Q)
  BY DataFinite
<1> HIDE DEF P, Q, R, M, f
<1>4. IsFiniteSet(M) /\ Cardinality(M) = Cardinality(Q)
  BY <1>2, <1>3, FS_Bijection DEF ExistsBijection
<1>5. Cardinality(R) = Cardinality(P) + Cardinality(M)
  <2>1. Cardinality(R) = Cardinality(P) + Cardinality(M) - Cardinality({})
    BY <1>1, <1>3, <1>4, FS_Union
  <2>2. Cardinality({}) = 0 /\ Cardinality(P) \in Nat /\ Cardinality(M) \in Nat
    BY <1>3, <1>4, FS_EmptySet, FS_CardinalityType
  <2> QED
    BY <2>1, <2>2
<1> QED
  BY <1>4, <1>5 DEF DataFrames, P, Q, R

\* Writing the first frame of a queue takes its DATA frame, if it is one.
LEMMA DataTail ==
  ASSUME NEW q \in Seq(Frames), q # << >>
  PROVE  DataFrames(Tail(q)) = DataFrames(q) - (IF Head(q) \in Data THEN 1 ELSE 0)
<1> DEFINE h == <<Head(q)>>
           D == {i \in 1 .. Len(h) : h[i] \in Data}
<1>1. h \in Seq(Frames) /\ Tail(q) \in Seq(Frames) /\ q = h \o Tail(q)
  OBVIOUS
<1>2. DataFrames(h) = IF Head(q) \in Data THEN 1 ELSE 0
  <2>1. D = IF Head(q) \in Data THEN {1} ELSE {}
    OBVIOUS
  <2>2. Cardinality({1}) = 1 /\ Cardinality({}) = 0
    BY FS_Singleton, FS_EmptySet
  <2> QED
    BY <2>1, <2>2 DEF DataFrames
<1> HIDE DEF h
<1>3. DataFrames(q) = DataFrames(h) + DataFrames(Tail(q))
  BY <1>1, DataConcat
<1>4. DataFrames(h) \in Nat /\ DataFrames(Tail(q)) \in Nat
  BY <1>1, DataFinite
<1> QED
  BY <1>2, <1>3, <1>4

\* A queue of DATA only.
LEMMA AllData ==
  ASSUME NEW q \in Seq(Data)
  PROVE  DataFrames(q) = Len(q)
<1>1. {i \in 1 .. Len(q) : q[i] \in Data} = 1 .. Len(q)
  OBVIOUS
<1>2. Cardinality(1 .. Len(q)) = Len(q)
  <2>1. Cardinality(1 .. Len(q)) = IF 1 > Len(q) THEN 0 ELSE Len(q) - 1 + 1
    BY FS_Interval
  <2> QED
    BY <2>1
<1> QED
  BY <1>1, <1>2 DEF DataFrames

-----------------------------------------------------------------------------
(* What nghttp2 sends and what it leaves.                                  *)

\* Min and Max of two.
LEMMA MinPair ==
  ASSUME NEW a \in Int, NEW b \in Int
  PROVE  Min({a, b}) = (IF a <= b THEN a ELSE b) /\ Max({a, b}) = (IF a <= b THEN b ELSE a)
  BY DEF Min, Max

\* The control frames that wait, in some order.
LEMMA CtlSeq ==
  ASSUME NEW C \in SUBSET Ctl
  PROVE  SetToSeq(C) \in Seq(Ctl)
<1>1. IsFiniteSet(C)
  <2>1. IsFiniteSet({"ACK"}) /\ IsFiniteSet({"ACK"} \cup {"WU"})
    BY FS_Singleton, FS_AddElement
  <2>2. Ctl = {"ACK"} \cup {"WU"}
    BY DEF Ctl
  <2> QED
    BY <2>1, <2>2, FS_Subset
<1>2. Cardinality(C) \in Nat /\ \E f \in Bijection(1 .. Cardinality(C), C) : TRUE
  BY <1>1, FS_CardinalityType DEF ExistsBijection
<1>3. \E f \in [1 .. Cardinality(C) -> C] : IsInjective(f)
  BY <1>2 DEF Bijection, Injection
<1>4. SetToSeq(C) \in [1 .. Cardinality(C) -> C]
  BY <1>3 DEF SetToSeq
<1> QED
  BY <1>2, <1>4

\* No more is left to read than the body has.
LEMMA BodyLeft ==
  ASSUME NEW s \in Session
  PROVE  body_left(s) \in 0 .. BodyFrames /\ body_left(s) \in Nat
  BY FramesAssumption DEF body_left, Session

\* DATA is sent within the window, on a stream that sends, and no more than is left.
LEMMA MaySend ==
  ASSUME NEW s \in Session
  PROVE  /\ may_send(s) \in 0 .. s.window /\ may_send(s) \in Nat
         /\ s.stream \notin Sending => may_send(s) = 0
         /\ body_left(s) > 0 => may_send(s) <= body_left(s)
<1>1. s.window \in Nat
  BY DEF Session
<1>2. Min({s.window, body_left(s)}) = IF s.window <= body_left(s) THEN s.window ELSE body_left(s)
  BY <1>1, BodyLeft, MinPair
<1> QED
  BY <1>1, <1>2, BodyLeft DEF may_send, Sending

\* stream_close_cb counts the stream and leaves m_h2_body_q alone.
LEMMA StreamClosed ==
  ASSUME NEW s \in Session
  PROVE  LET t == stream_closed(s) IN
         /\ t \in Session /\ t.stream = "none" /\ t.closed = 1
         /\ t.ctl = s.ctl /\ t.body_q = s.body_q /\ (s.goaway => t.goaway)
<1> DEFINE g == s.goaway \/ ~can_reuse(m_num_reqs + 1) \/ ~m_keepalive
           a == [s EXCEPT !.stream = "none"]
           b == [a EXCEPT !.closed = 1]
           c == [b EXCEPT !.goaway = g]
<1>1. stream_closed(s) = c
  BY DEF stream_closed, Session
<1>2. g \in BOOLEAN /\ (s.goaway => g)
  OBVIOUS
<1> HIDE DEF g
<1>3. a \in Session /\ a.stream = "none" /\ a.ctl = s.ctl /\ a.body_q = s.body_q
  BY DEF Session
<1> HIDE DEF a
<1>4. b \in Session /\ b.stream = "none" /\ b.closed = 1 /\ b.ctl = s.ctl /\ b.body_q = s.body_q
  BY <1>3 DEF Session
<1> HIDE DEF b
<1>5. /\ c \in Session /\ c.stream = "none" /\ c.closed = 1 /\ c.ctl = s.ctl /\ c.body_q = s.body_q
      /\ c.goaway = g
  BY <1>2, <1>4 DEF Session
<1> QED
  BY <1>1, <1>2, <1>5

data_frames(s) == [i \in 1 .. may_send(s) |-> IF i >= body_left(s) THEN "DATA_END" ELSE "DATA"]

\* nghttp2 sends control frames and then DATA.
LEMMA Sends ==
  ASSUME NEW s \in Session
  PROVE  /\ sends(s) = SetToSeq(s.ctl) \o data_frames(s)
         /\ SetToSeq(s.ctl) \in Seq(Ctl)
         /\ data_frames(s) \in Seq(Data) /\ Len(data_frames(s)) = may_send(s)
         /\ sends(s) \in Seq(Frames)
<1>1. may_send(s) \in Nat
  BY MaySend DEF Session
<1>2. data_frames(s) \in Seq(Data) /\ Len(data_frames(s)) = may_send(s)
  BY <1>1 DEF data_frames, Data
<1>3. SetToSeq(s.ctl) \in Seq(Ctl)
  BY CtlSeq DEF Session, Ctl
<1>4. sends(s) = SetToSeq(s.ctl) \o data_frames(s)
  BY DEF sends, data_frames
<1>5. SetToSeq(s.ctl) \in Seq(Frames) /\ data_frames(s) \in Seq(Frames)
  BY <1>2, <1>3 DEF Ctl, Data, Frames
<1> QED
  BY <1>2, <1>3, <1>4, <1>5

\* Data is all that takes part of the body; the last frame of it ends our side of the stream.
LEMMA AfterSend ==
  ASSUME NEW s \in Session
  PROVE  LET t == after_send(s) IN
         /\ t \in Session /\ t.ctl = {}
         /\ may_send(s) = 0 => t.stream = s.stream /\ body_left(t) = body_left(s)
         /\ may_send(s) > 0 /\ may_send(s) < body_left(s)
              => t.stream = s.stream /\ body_left(t) = body_left(s) - may_send(s)
         /\ may_send(s) > 0 /\ may_send(s) >= body_left(s)
              => t.stream = IF s.stream = "open" THEN "half_local" ELSE "none"
<1> DEFINE n == may_send(s)
           b == body_left(s)
           q == IF n > 0 THEN Max({b - n, 0}) ELSE s.body_q
           t == [s EXCEPT !.ctl = {}, !.window = @ - n, !.body_q = q]
<1>1. n \in Nat /\ n <= s.window /\ s.window \in Nat /\ b \in 0 .. BodyFrames
  BY MaySend, BodyLeft DEF Session
<1>2. n > 0 => q = IF b > n THEN b - n ELSE 0
  <2> HIDE DEF n, b
  <2>1. b \in Nat /\ n \in Nat
    BY <1>1, FramesAssumption
  <2> QED
    BY <2>1 DEF Max
<1>3. q \in {-1} \cup 0 .. BodyFrames
  BY <1>1, <1>2, FramesAssumption DEF Session
<1> HIDE DEF n, b, q
<1>4. t \in Session /\ t.ctl = {} /\ t.stream = s.stream /\ t.body_q = q
  <2>1. s.window - n \in Nat
    BY <1>1
  <2> HIDE DEF n
  <2> QED
    BY <1>3, <2>1 DEF Session
<1>5. after_send(s) = IF n = 0 \/ n < b THEN t
                      ELSE IF s.stream = "open" THEN [t EXCEPT !.stream = "half_local"]
                      ELSE stream_closed(t)
  BY DEF after_send, n, b, q
<1> HIDE DEF t
<1>6. /\ n = 0 => body_left(t) = b
      /\ n > 0 /\ n < b => body_left(t) = b - n
  <2>1. CASE n = 0
    BY <1>4, <2>1 DEF body_left, b, q
  <2>2. CASE n > 0 /\ n < b
    BY <1>1, <1>2, <1>4, <2>2, FramesAssumption DEF body_left
  <2> QED
    BY <1>1, <2>1, <2>2
<1>7. stream_closed(t) \in Session /\ stream_closed(t).ctl = {} /\ stream_closed(t).stream = "none"
  BY <1>4, StreamClosed
<1>8. [t EXCEPT !.stream = "half_local"] \in Session
  BY <1>4 DEF Session
<1> QED
  BY <1>1, <1>4, <1>5, <1>6, <1>7, <1>8 DEF n, b, Session

\* What sends(s) adds to a queue.
LEMMA SendsAdds ==
  ASSUME NEW q \in Seq(Frames), NEW s \in Session
  PROVE  LET r == q \o sends(s) IN
         /\ r \in Seq(Frames)
         /\ Has(r, Heads) <=> Has(q, Heads)
         /\ Has(r, {"DATA_END"}) <=> Has(q, {"DATA_END"}) \/ Has(data_frames(s), {"DATA_END"})
         /\ DataFrames(r) = DataFrames(q) + may_send(s)
<1> DEFINE c == SetToSeq(s.ctl)
           d == data_frames(s)
<1>1. /\ sends(s) = c \o d /\ c \in Seq(Ctl) /\ d \in Seq(Data) /\ Len(d) = may_send(s)
      /\ c \in Seq(Frames) /\ d \in Seq(Frames) /\ sends(s) \in Seq(Frames)
  BY Sends DEF Ctl, Data, Frames
<1> HIDE DEF c, d
<1>2. /\ ~Has(c, Heads) /\ ~Has(d, Heads) /\ ~Has(c, {"DATA_END"}) /\ ~Has(c, Data)
  <2>1. \A i \in 1 .. Len(c) : c[i] \in Ctl
    BY <1>1
  <2>2. \A i \in 1 .. Len(d) : d[i] \in Data
    BY <1>1
  <2> QED
    BY <2>1, <2>2 DEF Has, Heads, Ctl, Data
<1>3. \A F : Has(sends(s), F) <=> Has(c, F) \/ Has(d, F)
  BY <1>1, HasConcat
<1>4. \A F : Has(q \o sends(s), F) <=> Has(q, F) \/ Has(sends(s), F)
  BY <1>1, HasConcat
<1>5. DataFrames(c) = 0 /\ DataFrames(d) = may_send(s)
  BY <1>1, <1>2, DataFinite, AllData
<1>6. DataFrames(sends(s)) = DataFrames(c) + DataFrames(d)
  BY <1>1, DataConcat
<1>7. DataFrames(q \o sends(s)) = DataFrames(q) + DataFrames(sends(s))
  BY <1>1, DataConcat
<1>8. DataFrames(q) \in Nat /\ may_send(s) \in Nat
  BY DataFinite, MaySend
<1> QED
  BY <1>1, <1>2, <1>3, <1>4, <1>5, <1>6, <1>7, <1>8 DEF d

\* The last DATA frame is among the next ones iff they are all that is left of the body.
LEMMA LastOfBody ==
  ASSUME NEW s \in Session, body_left(s) > 0
  PROVE  /\ Has(data_frames(s), {"DATA_END"}) <=> may_send(s) = body_left(s)
         /\ \A i \in 1 .. may_send(s) - 1 : data_frames(s)[i] = "DATA"
<1>1. may_send(s) \in Nat /\ body_left(s) \in Nat /\ may_send(s) <= body_left(s)
  BY MaySend, BodyLeft DEF Session
<1>2. Len(data_frames(s)) = may_send(s)
  BY Sends
<1>3. \A i \in 1 .. may_send(s) :
         data_frames(s)[i] = IF i >= body_left(s) THEN "DATA_END" ELSE "DATA"
  BY DEF data_frames
<1> QED
  BY <1>1, <1>2, <1>3 DEF Has

\* A connection that may send nothing sends control frames only.
LEMMA SendsControl ==
  ASSUME NEW s \in Session, may_send(s) = 0
  PROVE  \A i \in 1 .. Len(sends(s)) : sends(s)[i] \in Ctl
  BY Sends

\* What is queued is no longer left to read.
LEMMA BodiesSends ==
  ASSUME NEW q \in Seq(Frames), NEW s \in Session, NEW g \in Nat, Queue(q, s), Bodies(q, s, g)
  PROVE  Bodies(q \o sends(s), after_send(s), g)
<1> DEFINE r == q \o sends(s)
           t == after_send(s)
           n == may_send(s)
           b == body_left(s)
           base == IF Has(q, Heads) THEN 0 ELSE g
<1>1. /\ DataFrames(r) = DataFrames(q) + n
      /\ Has(r, Heads) <=> Has(q, Heads)
      /\ Has(r, {"DATA_END"}) <=> Has(q, {"DATA_END"}) \/ Has(data_frames(s), {"DATA_END"})
  BY SendsAdds
<1>2. n \in Nat /\ b \in Nat /\ base \in Nat /\ DataFrames(q) \in Nat
  BY MaySend, BodyLeft, DataFinite
<1>3. /\ s.stream \in Sending => base + DataFrames(q) + b = BodyFrames
      /\ Has(q, {"DATA_END"}) => base + DataFrames(q) = BodyFrames
  BY DEF Bodies
<1>4. CASE s.stream \in Sending
  <2>1. b > 0 /\ ~Has(q, {"DATA_END"}) /\ n <= b
    BY <1>4, MaySend DEF Queue
  <2>2. Has(r, {"DATA_END"}) <=> n = b
    BY <1>1, <2>1, LastOfBody
  <2>3. n < b => body_left(t) = b - n
    BY <1>2, AfterSend
  <2>4. n = b => t.stream \notin Sending
    BY <1>2, <2>1, AfterSend DEF Sending
  <2> HIDE DEF r, t, n, b
  <2>5. t.stream \in Sending => base + DataFrames(r) + body_left(t) = BodyFrames
    BY <1>1, <1>2, <1>3, <1>4, <2>1, <2>3, <2>4
  <2>6. Has(r, {"DATA_END"}) => base + DataFrames(r) = BodyFrames
    BY <1>1, <1>2, <1>3, <1>4, <2>2
  <2> QED
    BY <1>1, <2>5, <2>6 DEF Bodies, r, t
<1>5. CASE s.stream \notin Sending
  <2>1. n = 0
    BY <1>5, MaySend
  <2>2. t.stream = s.stream
    BY <2>1, AfterSend
  <2>3. ~Has(data_frames(s), {"DATA_END"})
    BY <2>1, Sends DEF Has
  <2> QED
    BY <1>1, <1>2, <1>3, <1>5, <2>1, <2>2, <2>3 DEF Bodies
<1> QED
  BY <1>4, <1>5

\* Control frames may be queued at any time.
LEMMA QueueControl ==
  ASSUME NEW q \in Seq(Frames), NEW s, Queue(q, s), NEW c \in Seq(Ctl)
  PROVE  Queue(q \o c, s)
<1> DEFINE r == q \o c
<1>1. c \in Seq(Frames)
  BY DEF Ctl, Frames
<1>2. /\ Len(r) = Len(q) + Len(c)
      /\ \A i \in 1 .. Len(q) : r[i] = q[i]
      /\ \A i \in 1 .. Len(r) : i > Len(q) => r[i] \in Ctl
  <2>1. \A i \in 1 .. Len(r) : i > Len(q) => i - Len(q) \in 1 .. Len(c) /\ r[i] = c[i - Len(q)]
    BY <1>1
  <2> QED
    BY <1>1, <2>1
<1>3. Len(q) \in Nat /\ Len(c) \in Nat
  BY <1>1
<1> HIDE DEF r
<1>4. ASSUME NEW i \in 1 .. Len(r), r[i] \notin Ctl
      PROVE  i \in 1 .. Len(q) /\ r[i] = q[i]
  BY <1>2, <1>3, <1>4
<1>5. ASSUME NEW i \in 1 .. Len(r), r[i] \in Heads
      PROVE  r[i] = headers /\ \A j \in 1 .. i - 1 : r[j] \in Ctl
  <2>1. i \in 1 .. Len(q) /\ r[i] = q[i]
    BY <1>4, <1>5 DEF Heads, Ctl
  <2>2. q[i] = headers /\ \A j \in 1 .. i - 1 : q[j] \in Ctl
    BY <1>5, <2>1 DEF Queue
  <2> QED
    BY <1>2, <1>3, <2>1, <2>2
<1>6. ASSUME NEW i \in 1 .. Len(r), r[i] = "DATA_END", NEW j \in i + 1 .. Len(r), r[j] \in Data
      PROVE  FALSE
  <2>1. i \in 1 .. Len(q) /\ q[i] = "DATA_END"
    BY <1>4, <1>6 DEF Ctl
  <2>2. j \in 1 .. Len(r)
    BY <1>2, <1>3
  <2>3. j \in 1 .. Len(q) /\ q[j] \in Data
    BY <1>4, <1>6, <2>2 DEF Ctl, Data
  <2>4. j \in i + 1 .. Len(q)
    BY <1>3, <2>3
  <2> QED
    BY <2>1, <2>3, <2>4 DEF Queue
<1>7. ASSUME NEW i \in 1 .. Len(r), r[i] \in Data
      PROVE  BodyFrames > 0
  BY <1>4, <1>7 DEF Ctl, Data, Queue
<1>8. ~Has(c, {"DATA_END"})
  BY DEF Has, Ctl
<1>9. Has(r, {"DATA_END"}) <=> Has(q, {"DATA_END"})
  BY <1>1, <1>8, HasConcat DEF r
<1> QED
  BY <1>5, <1>6, <1>7, <1>9 DEF Queue, r

\* DATA may be queued as long as the last of the body has not been.
LEMMA QueueData ==
  ASSUME NEW q \in Seq(Frames), NEW s \in Session, Queue(q, s)
  PROVE  Queue(q \o data_frames(s), after_send(s))
<1> DEFINE d == data_frames(s)
           r == q \o d
           t == after_send(s)
           n == may_send(s)
           b == body_left(s)
<1>1. d \in Seq(Data) /\ Len(d) = n /\ d \in Seq(Frames)
  BY Sends DEF Data, Frames
<1>2. n \in Nat /\ b \in Nat /\ Len(q) \in Nat
  BY MaySend, BodyLeft
<1>3. n > 0 => s.stream \in Sending
  BY MaySend
<1>4. s.stream \in Sending =>
        /\ b > 0 /\ n <= b /\ ~Has(q, {"DATA_END"})
        /\ Has(d, {"DATA_END"}) <=> n = b
        /\ \A i \in 1 .. n - 1 : d[i] = "DATA"
  BY MaySend, LastOfBody DEF Queue
<1>5. /\ Len(r) = Len(q) + n
      /\ \A i \in 1 .. Len(q) : r[i] = q[i]
      /\ \A i \in 1 .. Len(r) : i > Len(q) =>
           i - Len(q) \in 1 .. n /\ r[i] = d[i - Len(q)] /\ r[i] \in Data
  BY <1>1
<1> HIDE DEF d, n, b, t, r
<1>6. ASSUME NEW i \in 1 .. Len(r), r[i] \in Heads
      PROVE  r[i] = headers /\ \A j \in 1 .. i - 1 : r[j] \in Ctl
  <2>1. i \in 1 .. Len(q)
    BY <1>2, <1>5, <1>6 DEF Heads, Data
  <2>2. q[i] = headers /\ \A j \in 1 .. i - 1 : q[j] \in Ctl
    BY <1>5, <1>6, <2>1 DEF Queue
  <2> QED
    BY <1>2, <1>5, <2>1, <2>2
<1>7. ASSUME NEW i \in 1 .. Len(r), r[i] = "DATA_END", NEW j \in i + 1 .. Len(r), r[j] \in Data
      PROVE  FALSE
  <2>1. CASE i <= Len(q)
    <3>1. q[i] = "DATA_END" /\ i \in 1 .. Len(q)
      BY <1>2, <1>5, <1>7, <2>1
    <3>2. n = 0
      BY <1>2, <1>3, <1>4, <3>1 DEF Has
    <3>3. j \in i + 1 .. Len(q) /\ q[j] \in Data
      BY <1>2, <1>5, <1>7, <3>1, <3>2
    <3> QED
      BY <3>1, <3>3 DEF Queue
  <2>2. CASE i > Len(q)
    <3>1. i - Len(q) \in 1 .. n /\ d[i - Len(q)] = "DATA_END"
      BY <1>5, <1>7, <2>2
    <3>2. i - Len(q) = n
      BY <1>2, <1>3, <1>4, <3>1
    <3> QED
      BY <1>2, <1>5, <3>2
  <2> QED
    BY <1>2, <2>1, <2>2
<1>8. ASSUME NEW i \in 1 .. Len(r), r[i] \in Data
      PROVE  BodyFrames > 0
  <2>1. CASE n > 0
    BY <1>2, <1>3, <1>4, <2>1, BodyLeft, FramesAssumption DEF b
  <2>2. CASE ~(n > 0)
    <3>1. i \in 1 .. Len(q) /\ q[i] \in Data
      BY <1>2, <1>5, <1>8, <2>2
    <3> QED
      BY <3>1 DEF Queue
  <2> QED
    BY <2>1, <2>2
<1>9. t.stream \in Sending => body_left(t) > 0 /\ ~Has(r, {"DATA_END"})
  <2>1. Has(r, {"DATA_END"}) <=> Has(q, {"DATA_END"}) \/ Has(d, {"DATA_END"})
    BY <1>1, HasConcat DEF r
  <2>2. CASE n = 0
    <3>1. t.stream = s.stream /\ body_left(t) = b
      BY <2>2, AfterSend DEF t, n, b
    <3>2. ~Has(d, {"DATA_END"})
      BY <1>1, <2>2 DEF Has
    <3> QED
      BY <1>4, <2>1, <3>1, <3>2
  <2>3. CASE n > 0 /\ n < b
    <3>1. t.stream = s.stream /\ body_left(t) = b - n
      BY <2>3, AfterSend DEF t, n, b
    <3> QED
      BY <1>2, <1>3, <1>4, <2>1, <2>3, <3>1
  <2>4. CASE n > 0 /\ n >= b
    BY <2>4, AfterSend DEF t, n, b, Sending
  <2> QED
    BY <1>2, <2>2, <2>3, <2>4
<1> QED
  BY <1>6, <1>7, <1>8, <1>9 DEF Queue, r, t, d

\* ... so what nghttp2 sends may always be queued.
LEMMA QueueSends ==
  ASSUME NEW q \in Seq(Frames), NEW s \in Session, Queue(q, s)
  PROVE  Queue(q \o sends(s), after_send(s))
<1> DEFINE c == SetToSeq(s.ctl)
           d == data_frames(s)
<1>1. c \in Seq(Ctl) /\ c \in Seq(Frames) /\ d \in Seq(Frames) /\ sends(s) = c \o d
  BY Sends DEF Ctl, Data, Frames
<1>2. Queue(q \o c, s)
  BY <1>1, QueueControl
<1> HIDE DEF c, d
<1>3. q \o c \in Seq(Frames) /\ q \o sends(s) = (q \o c) \o d
  <2>1. (q \o c) \o d = q \o (c \o d)
    BY <1>1, ConcatAssociative
  <2> QED
    BY <1>1, <2>1
<1> QED
  BY <1>2, <1>3, QueueData DEF d

-----------------------------------------------------------------------------
(* What the callbacks of a read do to the session.                         *)

\* The stream is closed by a callback, which counts it in m_streams_closed, or left alone.
Closes(s, t) ==
  \/ s.stream # "none" /\ t.stream = "none" /\ t.closed = 1
  \/ (s.stream = "none" <=> t.stream = "none") /\ t.closed = s.closed

\* What each frame does to the session: END, RST and GOAWAY only may close the stream.
LEMMA OnFrame ==
  ASSUME NEW s \in Session, NEW f \in SrvFrames
  PROVE  LET t == on_frame(s, f) IN
         /\ t \in Session /\ t.body_q = s.body_q /\ Closes(s, t)
         /\ s.goaway => t.goaway
         /\ t.stream \in {s.stream, "none"} \/ (s.stream = "open" /\ t.stream = "half_remote")
         /\ f \notin Ends \cup {"GOAWAY"} => t.stream = s.stream
         /\ f \notin Ends => t.stream = s.stream \/ (t.stream = "none" /\ t.goaway)
         /\ f \in Ends /\ s.stream \in {"half_local", "none"} => t.stream = "none"
<1> DEFINE t == on_frame(s, f)
<1>1. CASE f = "SETTINGS"
  <2>1. t = [s EXCEPT !.ctl = @ \cup {"ACK"}]
    BY <1>1 DEF on_frame
  <2> HIDE DEF t
  <2>2. t \in Session /\ t.body_q = s.body_q /\ t.goaway = s.goaway /\ t.stream = s.stream
        /\ t.closed = s.closed
    BY <2>1 DEF Session
  <2> QED
    BY <1>1, <2>2 DEF Closes, Ends, t
<1>2. CASE f = "CREDIT"
  <2>1. t = [s EXCEPT !.window = @ + 1]
    BY <1>2 DEF on_frame
  <2> HIDE DEF t
  <2>2. t \in Session /\ t.body_q = s.body_q /\ t.goaway = s.goaway /\ t.stream = s.stream
        /\ t.closed = s.closed
    BY <2>1 DEF Session
  <2> QED
    BY <1>2, <2>2 DEF Closes, Ends, t
<1>3. CASE f = "data"
  <2> DEFINE u == [s EXCEPT !.consumed = @ + 1]
             w == [s EXCEPT !.consumed = 0]
             v == [w EXCEPT !.ctl = @ \cup {"WU"}]
  <2>1. t = IF s.consumed + 1 < Window THEN u ELSE v
    BY <1>3 DEF on_frame
  <2> HIDE DEF t
  <2>2. /\ s.consumed + 1 < Window => u \in Session
        /\ u.body_q = s.body_q /\ u.goaway = s.goaway /\ u.stream = s.stream /\ u.closed = s.closed
    BY FramesAssumption DEF Session
  <2>3. /\ v \in Session
        /\ v.body_q = s.body_q /\ v.goaway = s.goaway /\ v.stream = s.stream /\ v.closed = s.closed
    <3>1. /\ w \in Session
          /\ w.body_q = s.body_q /\ w.goaway = s.goaway /\ w.stream = s.stream /\ w.closed = s.closed
      BY FramesAssumption DEF Session
    <3> HIDE DEF w
    <3> QED
      BY <3>1 DEF Session
  <2> HIDE DEF u, v
  <2> QED
    BY <1>3, <2>1, <2>2, <2>3 DEF Closes, Ends, t
<1>4. CASE f = "END"
  <2>1. t = IF s.stream = "open" THEN [s EXCEPT !.stream = "half_remote"]
            ELSE IF s.stream = "half_local" THEN stream_closed(s) ELSE s
    BY <1>4 DEF on_frame
  <2> HIDE DEF t
  <2>2. CASE s.stream = "open"
    <3>1. t \in Session /\ t.body_q = s.body_q /\ t.goaway = s.goaway /\ t.stream = "half_remote"
          /\ t.closed = s.closed
      BY <2>1, <2>2 DEF Session
    <3> QED
      BY <1>4, <2>2, <3>1 DEF Closes, Ends, t
  <2>3. CASE s.stream = "half_local"
    BY <1>4, <2>1, <2>3, StreamClosed DEF Closes, Ends, t
  <2>4. CASE s.stream \notin {"open", "half_local"}
    BY <1>4, <2>1, <2>4 DEF Closes, Ends, t
  <2> QED
    BY <2>2, <2>3, <2>4
<1>5. CASE f = "RST"
  <2>1. t = IF s.stream = "none" THEN s ELSE stream_closed(s)
    BY <1>5 DEF on_frame
  <2> HIDE DEF t
  <2> QED
    BY <1>5, <2>1, StreamClosed DEF Closes, Ends, t
<1>6. CASE f = "GOAWAY"
  <2> DEFINE u == [s EXCEPT !.goaway = TRUE]
  <2>1. t = IF s.stream # "none" /\ seen <= m_num_reqs THEN stream_closed(u) ELSE u
    BY <1>6 DEF on_frame
  <2>2. u \in Session /\ u.body_q = s.body_q /\ u.goaway /\ u.stream = s.stream
        /\ u.closed = s.closed
    BY DEF Session
  <2> HIDE DEF t, u
  <2> QED
    BY <1>6, <2>1, <2>2, StreamClosed DEF Closes, Ends, t
<1> QED
  BY <1>1, <1>2, <1>3, <1>4, <1>5, <1>6 DEF SrvFrames

\* The record is a record of frames, and at most two of them are read.
LEMMA Received ==
  ASSUME ses \in Session, NEW k \in 1 .. 2, k <= Len(record), record \in Seq(SrvFrames)
  PROVE  LET t == received(k)
             ended_ == \E j \in 1 .. k : record[j] \in Ends
             goaway_ == \E j \in 1 .. k : record[j] = "GOAWAY"
         IN
         /\ t \in Session /\ t.body_q = ses.body_q
         /\ t.closed = IF ses.stream # "none" /\ t.stream = "none" THEN 1 ELSE 0
         /\ ses.stream = "none" => t.stream = "none"
         /\ t.stream \in Sending => ses.stream \in Sending
         /\ ~ended_ => t.stream = ses.stream \/ (t.stream = "none" /\ t.goaway)
         /\ ~ended_ /\ ~goaway_ => t.stream = ses.stream
         /\ ended_ /\ ses.stream = "half_local" => t.stream = "none"
<1> DEFINE s == [ses EXCEPT !.closed = 0]
           t == on_frame(s, record[1])
           u == on_frame(t, record[2])
<1>1. s \in Session /\ s.body_q = ses.body_q /\ s.stream = ses.stream /\ s.closed = 0
  BY DEF Session
<1>2. received(k) = IF k = 1 THEN t ELSE u
  BY DEF received, mem_recv
<1>3. record[1] \in SrvFrames /\ (k = 2 => record[2] \in SrvFrames)
  OBVIOUS
<1> HIDE DEF s
<1>4. t \in Session
  BY <1>1, <1>3, OnFrame
<1>5. s.stream \in {"none", "open", "half_local", "half_remote"}
  BY <1>1 DEF Session
<1>6. /\ Closes(s, t)
      /\ t.body_q = s.body_q
      /\ t.stream \in {s.stream, "none"} \/ (s.stream = "open" /\ t.stream = "half_remote")
      /\ record[1] \notin Ends \cup {"GOAWAY"} => t.stream = s.stream
      /\ record[1] \notin Ends => t.stream = s.stream \/ (t.stream = "none" /\ t.goaway)
      /\ record[1] \in Ends /\ s.stream \in {"half_local", "none"} => t.stream = "none"
  BY <1>1, <1>3, OnFrame
<1>7. CASE k = 1
  BY <1>1, <1>2, <1>4, <1>5, <1>6, <1>7 DEF Closes, Sending
<1>8. CASE k = 2
  <2> HIDE DEF t
  <2>0. record[2] \in SrvFrames
    BY <1>3, <1>8
  <2>1. /\ u \in Session /\ Closes(t, u)
        /\ u.body_q = t.body_q
        /\ t.goaway => u.goaway
        /\ u.stream \in {t.stream, "none"} \/ (t.stream = "open" /\ u.stream = "half_remote")
        /\ record[2] \notin Ends \cup {"GOAWAY"} => u.stream = t.stream
        /\ record[2] \notin Ends => u.stream = t.stream \/ (u.stream = "none" /\ u.goaway)
        /\ record[2] \in Ends /\ t.stream \in {"half_local", "none"} => u.stream = "none"
    BY <1>4, <2>0, OnFrame
  <2> HIDE DEF u
  <2>2. received(k) = u
    BY <1>2, <1>8
  <2>3. u.body_q = ses.body_q /\ (ses.stream = "none" => u.stream = "none")
    BY <1>1, <1>6, <2>1
  <2>4. u.closed = IF ses.stream # "none" /\ u.stream = "none" THEN 1 ELSE 0
    BY <1>1, <1>6, <2>1 DEF Closes
  <2>5. u.stream \in Sending => ses.stream \in Sending
    BY <1>1, <1>6, <2>1 DEF Sending
  <2>6. /\ record[1] \notin Ends /\ record[2] \notin Ends
              => u.stream = ses.stream \/ (u.stream = "none" /\ u.goaway)
        /\ record[1] \notin Ends \cup {"GOAWAY"} /\ record[2] \notin Ends \cup {"GOAWAY"}
              => u.stream = ses.stream
    BY <1>1, <1>6, <2>1
  <2>7. (record[1] \in Ends \/ record[2] \in Ends) /\ ses.stream = "half_local" => u.stream = "none"
    BY <1>1, <1>6, <2>1
  <2>8. \A F : (\E j \in 1 .. k : record[j] \in F) <=> record[1] \in F \/ record[2] \in F
    BY <1>8
  <2>9. (\E j \in 1 .. k : record[j] = "GOAWAY") <=> record[1] = "GOAWAY" \/ record[2] = "GOAWAY"
    BY <1>8
  <2> QED
    BY <2>1, <2>2, <2>3, <2>4, <2>5, <2>6, <2>7, <2>8, <2>9
<1> QED
  BY <1>7, <1>8

-----------------------------------------------------------------------------
(* The records a connection has received.                                  *)

Lengths == (\A i \in 1 .. Len(rx) : Len(rx[i]) \in 1 .. 2) /\ Len(pend) \in 0 .. 1

\* Append, element by element.
LEMMA AppendAt ==
  ASSUME NEW X, NEW l \in Seq(X), NEW f \in X
  PROVE  /\ Append(l, f) \in Seq(X) /\ Len(Append(l, f)) = Len(l) + 1
         /\ \A i \in 1 .. Len(l) : Append(l, f)[i] = l[i]
         /\ Append(l, f)[Len(l) + 1] = f
  OBVIOUS

\* A second frame joins a record of one.
LEMMA AppendToOne ==
  ASSUME NEW X, NEW l \in Seq(X), Len(l) = 1, NEW f \in X
  PROVE  /\ Append(l, f) \in Seq(X) /\ Len(Append(l, f)) = 2
         /\ Append(l, f)[1] = l[1] /\ Append(l, f)[2] = f
<1>1. /\ Append(l, f) \in Seq(X) /\ Len(Append(l, f)) = Len(l) + 1
      /\ \A i \in 1 .. Len(l) : Append(l, f)[i] = l[i]
      /\ Append(l, f)[Len(l) + 1] = f
  BY AppendAt
<1> QED
  BY <1>1

\* A frame of the server extends the last record or makes one of its own.
LEMMA RecordsShape ==
  ASSUME NEW X, rx \in Seq(Seq(X)), Lengths, NEW f \in X, NEW r \in Records(f)
  PROVE  /\ r \in Seq(Seq(X))
         /\ Len(r) \in Len(rx) .. Len(rx) + 1 /\ Len(r) > 0
         /\ \A i \in 1 .. Len(r) : Len(r[i]) \in 1 .. 2
         /\ \A i \in 1 .. Len(r) - 1 : i \in 1 .. Len(rx) /\ r[i] = rx[i]
         /\ \/ Len(r) = Len(rx) + 1 /\ Len(r[Len(r)]) = 1 /\ r[Len(r)][1] = f
            \/ /\ Len(r) = Len(rx) /\ Len(rx[Len(rx)]) = 1
               /\ Len(r[Len(r)]) = 2 /\ r[Len(r)][1] = rx[Len(rx)][1] /\ r[Len(r)][2] = f
<1>1. CASE r = Append(rx, <<f>>)
  BY <1>1 DEF Lengths
<1>2. CASE /\ rx # << >> /\ Len(Last(rx)) = 1
           /\ r = Front(rx) \o <<Append(Last(rx), f)>>
  <2> DEFINE l == rx[Len(rx)]
             a == SubSeq(rx, 1, Len(rx) - 1)
             e == Append(l, f)
  <2>1. l \in Seq(X) /\ Len(l) = 1 /\ Len(rx) \in Nat \ {0} /\ r = a \o <<e>>
    BY <1>2 DEF Last, Front
  <2> HIDE DEF l
  <2>2. e \in Seq(X) /\ Len(e) = 2 /\ e[1] = l[1] /\ e[2] = f
    BY <2>1, AppendToOne
  <2>3. a \in Seq(Seq(X)) /\ Len(a) = Len(rx) - 1 /\ \A i \in 1 .. Len(a) : a[i] = rx[i]
    BY <2>1
  <2> HIDE DEF a, e
  <2>4. /\ r \in Seq(Seq(X)) /\ Len(r) = Len(rx) /\ r[Len(r)] = e
        /\ \A i \in 1 .. Len(r) - 1 : r[i] = rx[i]
    BY <2>1, <2>2, <2>3
  <2>5. ASSUME NEW i \in 1 .. Len(r) PROVE Len(r[i]) \in 1 .. 2
    <3>1. CASE i = Len(r)
      BY <2>2, <2>4, <3>1
    <3>2. CASE i # Len(r)
      <4>1. i \in 1 .. Len(r) - 1 /\ i \in 1 .. Len(rx)
        BY <2>1, <2>4, <3>2
      <4>2. r[i] = rx[i]
        BY <2>4, <4>1
      <4> QED
        BY <4>1, <4>2 DEF Lengths
    <3> QED
      BY <3>1, <3>2
  <2> QED
    BY <2>1, <2>2, <2>4, <2>5 DEF l
<1> QED
  BY <1>1, <1>2 DEF Records

\* A frame of F has been received and not been read.
Flying(F) == Has(pend, F) \/ \E i \in 1 .. Len(rx) : Has(rx[i], F)

\* At most one of them ends a stream.
Single ==
  /\ \A i \in 1 .. Len(rx) : \A j, k \in 1 .. Len(rx[i]) :
       rx[i][j] \in Ends /\ rx[i][k] \in Ends => j = k
  /\ \A i, j \in 1 .. Len(rx) : Has(rx[i], Ends) /\ Has(rx[j], Ends) => i = j
  /\ Has(pend, Ends) => \A i \in 1 .. Len(rx) : ~Has(rx[i], Ends)

\* What flies after a frame is sent is what flew, and the frame.
LEMMA SendFlying ==
  ASSUME NEW X, rx \in Seq(Seq(X)), Lengths, NEW f \in X, rx' \in Records(f), pend' = pend, NEW F
  PROVE  /\ Flying(F)' <=> Flying(F) \/ f \in F
         /\ \A i \in 1 .. Len(rx') - 1 : i \in 1 .. Len(rx) /\ rx'[i] = rx[i]
         /\ Has(rx'[Len(rx')], F) <=> f \in F \/ (Len(rx') = Len(rx) /\ Has(rx[Len(rx)], F))
<1> DEFINE n == Len(rx)
           m == Len(rx')
<1>1. /\ n \in Nat /\ m \in n .. n + 1 /\ m > 0 /\ m \in Nat
      /\ \A i \in 1 .. m - 1 : i \in 1 .. n /\ rx'[i] = rx[i]
      /\ \/ m = n + 1 /\ Len(rx'[m]) = 1 /\ rx'[m][1] = f
         \/ /\ m = n /\ Len(rx[n]) = 1
            /\ Len(rx'[m]) = 2 /\ rx'[m][1] = rx[n][1] /\ rx'[m][2] = f
  BY RecordsShape
<1> HIDE DEF n, m
<1>2. Has(rx'[m], F) <=> f \in F \/ (m = n /\ Has(rx[n], F))
  <2>1. CASE m = n + 1
    BY <1>1, <2>1, HasFew
  <2>2. CASE m = n
    BY <1>1, <2>2, HasFew
  <2> QED
    BY <1>1, <2>1, <2>2
<1>3. ASSUME NEW i \in 1 .. n, Has(rx[i], F)
      PROVE  \E j \in 1 .. m : Has(rx'[j], F)
  <2>1. CASE i = m
    <3>1. m = n
      BY <1>1, <2>1
    <3> QED
      BY <1>1, <1>2, <1>3, <2>1, <3>1
  <2>2. CASE i # m
    <3>1. i \in 1 .. m - 1
      BY <1>1, <2>2
    <3> QED
      BY <1>1, <1>3, <3>1
  <2> QED
    BY <2>1, <2>2
<1>4. ASSUME NEW j \in 1 .. m, Has(rx'[j], F), f \notin F
      PROVE  \E i \in 1 .. n : Has(rx[i], F)
  <2>1. CASE j = m
    BY <1>1, <1>2, <1>4, <2>1
  <2>2. CASE j # m
    <3>1. j \in 1 .. m - 1
      BY <1>1, <2>2
    <3> QED
      BY <1>1, <1>4, <3>1
  <2> QED
    BY <2>1, <2>2
<1>5. f \in F => \E j \in 1 .. m : Has(rx'[j], F)
  BY <1>1, <1>2
<1> QED
  BY <1>1, <1>2, <1>3, <1>4, <1>5 DEF Flying, n, m

\* A frame that ends the stream stays the only one if none flew.
LEMMA SendSingle ==
  ASSUME NEW X, rx \in Seq(Seq(X)), Lengths, NEW f \in X, rx' \in Records(f), pend' = pend,
         Single, f \in Ends => ~Flying(Ends)
  PROVE  Single'
<1> DEFINE n == Len(rx)
           m == Len(rx')
<1>1. /\ n \in Nat /\ m \in n .. n + 1 /\ m > 0 /\ m \in Nat
      /\ \A i \in 1 .. m - 1 : i \in 1 .. n /\ rx'[i] = rx[i]
      /\ \/ m = n + 1 /\ Len(rx'[m]) = 1 /\ rx'[m][1] = f
         \/ /\ m = n /\ Len(rx[n]) = 1
            /\ Len(rx'[m]) = 2 /\ rx'[m][1] = rx[n][1] /\ rx'[m][2] = f
  BY RecordsShape
<1>2. Has(rx'[m], Ends) <=> f \in Ends \/ (m = n /\ Has(rx[n], Ends))
  BY SendFlying
<1> HIDE DEF n, m
<1>3. /\ \A i \in 1 .. n : \A j, k \in 1 .. Len(rx[i]) :
           rx[i][j] \in Ends /\ rx[i][k] \in Ends => j = k
      /\ \A i, j \in 1 .. n : Has(rx[i], Ends) /\ Has(rx[j], Ends) => i = j
      /\ Has(pend, Ends) => \A i \in 1 .. n : ~Has(rx[i], Ends)
  BY DEF Single, n
<1>4. f \in Ends => ~Has(pend, Ends) /\ \A i \in 1 .. n : ~Has(rx[i], Ends)
  BY DEF Flying, n
<1>5. ASSUME NEW i \in 1 .. m, i # m
      PROVE  i \in 1 .. n /\ rx'[i] = rx[i] /\ (m = n => i # n)
  BY <1>1, <1>5
<1>6. \A j, k \in 1 .. Len(rx'[m]) : rx'[m][j] \in Ends /\ rx'[m][k] \in Ends => j = k
  <2>1. CASE m = n + 1
    BY <1>1, <2>1, HasFew
  <2>2. CASE m = n
    <3>1. /\ n \in 1 .. n /\ Len(rx[n]) = 1
          /\ Len(rx'[m]) = 2 /\ rx'[m][1] = rx[n][1] /\ rx'[m][2] = f
      BY <1>1, <2>2
    <3>2. \A j, k \in 1 .. Len(rx'[m]) : rx'[m][j] \in Ends /\ rx'[m][k] \in Ends /\ j # k
             => rx'[m][1] \in Ends /\ rx'[m][2] \in Ends
      BY <3>1, HasFew
    <3>3. f \in Ends => rx[n][1] \notin Ends
      BY <1>4, <3>1, HasFew
    <3> QED
      BY <3>1, <3>2, <3>3
  <2> QED
    BY <1>1, <2>1, <2>2
<1>7. \A i \in 1 .. m : \A j, k \in 1 .. Len(rx'[i]) :
         rx'[i][j] \in Ends /\ rx'[i][k] \in Ends => j = k
  BY <1>3, <1>5, <1>6
<1>8. ASSUME NEW i \in 1 .. m, NEW j \in 1 .. m, Has(rx'[i], Ends), Has(rx'[j], Ends), i # j
      PROVE  FALSE
  <2>1. CASE i # m /\ j # m
    BY <1>3, <1>5, <1>8, <2>1
  <2>2. CASE i = m
    BY <1>1, <1>2, <1>3, <1>4, <1>5, <1>8, <2>2
  <2>3. CASE j = m
    BY <1>1, <1>2, <1>3, <1>4, <1>5, <1>8, <2>3
  <2> QED
    BY <2>1, <2>2, <2>3
<1>9. Has(pend, Ends) => \A i \in 1 .. m : ~Has(rx'[i], Ends)
  BY <1>1, <1>2, <1>3, <1>4, <1>5
<1> QED
  BY <1>7, <1>8, <1>9 DEF Single, m

Takes(k) ==
  /\ pend' = SubSeq(record, k + 1, Len(record))
  /\ rx' = IF pend # << >> THEN rx ELSE Tail(rx)

\* What is left of a record of two frames.
LEMMA SmallLengths ==
  ASSUME NEW a, a \in 1 .. 2, NEW k, k \in 1 .. a, NEW b, b = a - k
  PROVE  /\ b \in 0 .. 1 /\ k \in 1 .. 2
         /\ b # 0 => b = 1
         /\ b = 1 => k = 1 /\ a = 2
  OBVIOUS

\* A read takes k frames of the record, and leaves the rest of it in pend.
LEMMA ReadShape ==
  ASSUME NEW X, rx \in Seq(Seq(X)), pend \in Seq(X), Lengths, readable,
         NEW k \in 1 .. Len(record), Takes(k)
  PROVE  /\ record \in Seq(X) /\ Len(record) \in 1 .. 2 /\ k \in 1 .. 2
         /\ pend' \in Seq(X) /\ rx' \in Seq(Seq(X)) /\ Lengths'
         /\ Len(pend') = Len(record) - k /\ (Len(pend') = 1 => k = 1 /\ pend'[1] = record[2])
         /\ \/ Len(record) = 1 /\ Len(pend) = 1 /\ record = pend /\ rx' = rx
            \/ /\ Len(pend) = 0 /\ Len(rx) > 0 /\ record = rx[1]
               /\ Len(rx') = Len(rx) - 1 /\ \A i \in 1 .. Len(rx') : i + 1 \in 1 .. Len(rx) /\ rx'[i] = rx[i + 1]
<1>1. CASE pend # << >>
  <2>1. record = pend
    BY <1>1 DEF record
  <2>2. Len(pend) = 1
    <3>1. Len(pend) \in Nat \ {0}
      BY <1>1, EmptySeq
    <3> QED
      BY <3>1 DEF Lengths
  <2>3. k = 1 /\ Len(record) = 1
    BY <2>1, <2>2
  <2>4. rx' = rx /\ pend' = << >>
    BY <1>1, <2>3 DEF Takes
  <2>5. Len(pend') = 0 /\ pend' \in Seq(X)
    BY <2>4, EmptySeq
  <2>6. Lengths'
    BY <2>4, <2>5 DEF Lengths
  <2> QED
    BY <2>1, <2>2, <2>3, <2>4, <2>5, <2>6
<1>2. CASE pend = << >>
  <2>1. rx # << >> /\ record = rx[1] /\ Len(rx) \in Nat \ {0}
    BY <1>2 DEF record, readable
  <2>2. record \in Seq(X) /\ Len(record) \in 1 .. 2
    BY <2>1 DEF Lengths
  <2>3. Len(rx') = Len(rx) - 1 /\ \A i \in 1 .. Len(rx') : i + 1 \in 1 .. Len(rx) /\ rx'[i] = rx[i + 1]
    BY <1>2, <2>1 DEF Takes
  <2>4. rx' \in Seq(Seq(X))
    BY <1>2, <2>1 DEF Takes
  <2>5. pend' \in Seq(X) /\ Len(pend') = Len(record) - k
        /\ \A j \in 1 .. Len(pend') : pend'[j] = record[k + j]
    BY <2>2 DEF Takes
  <2>6. \A i \in 1 .. Len(rx') : Len(rx'[i]) \in 1 .. 2
    BY <2>3 DEF Lengths
  <2>7. Len(pend') \in 0 .. 1 /\ k \in 1 .. 2 /\ (Len(pend') = 1 => k = 1)
    <3>1. Len(record) \in 1 .. 2
      BY <2>2
    <3>2. Len(pend') = Len(record) - k
      BY <2>5
    <3> QED
      BY <3>1, <3>2, SmallLengths
  <2>8. Len(pend') = 1 => pend'[1] = record[2]
    <3>1. 1 \in 1 .. 1 /\ 1 + 1 = 2
      OBVIOUS
    <3> QED
      BY <2>5, <2>7, <3>1
  <2>9. Lengths' /\ Len(pend) = 0 /\ Len(rx) > 0
    BY <1>2, <2>1, <2>6, <2>7 DEF Lengths
  <2> QED
    BY <2>1, <2>2, <2>3, <2>4, <2>5, <2>7, <2>8, <2>9
<1> QED
  BY <1>1, <1>2

\* What is read flew, and what flies then flew before.
LEMMA ReadFlying ==
  ASSUME NEW X, rx \in Seq(Seq(X)), pend \in Seq(X), Lengths, readable,
         NEW k \in 1 .. Len(record), Takes(k)
  PROVE  /\ \A F : Flying(F)' => Flying(F)
         /\ \A F : (\E j \in 1 .. k : record[j] \in F) => Flying(F)
         /\ Single => Single' /\ ((\E j \in 1 .. k : record[j] \in Ends) => ~Flying(Ends)')
<1>1. /\ Len(record) \in 1 .. 2 /\ k \in 1 .. 2
      /\ Len(pend') = Len(record) - k /\ (Len(pend') = 1 => k = 1 /\ pend'[1] = record[2])
      /\ \/ Len(record) = 1 /\ Len(pend) = 1 /\ record = pend /\ rx' = rx
         \/ /\ Len(pend) = 0 /\ Len(rx) > 0 /\ record = rx[1]
            /\ Len(rx') = Len(rx) - 1 /\ \A i \in 1 .. Len(rx') : i + 1 \in 1 .. Len(rx) /\ rx'[i] = rx[i + 1]
  BY ReadShape
<1>2. \A F : Has(pend', F) => Has(record, F)
  <2>1. CASE Len(pend') = 0
    BY <2>1 DEF Has
  <2>2. CASE Len(pend') = 1
    <3>1. Len(record) = 2
      BY <1>1, <2>2, SmallLengths
    <3> QED
      BY <1>1, <2>2, <3>1, HasFew
  <2> QED
    BY <1>1, <2>1, <2>2, SmallLengths
<1>3. \A F : (\E j \in 1 .. k : record[j] \in F) => Has(record, F)
  <2>1. 1 .. k \subseteq 1 .. Len(record)
    OBVIOUS
  <2> QED
    BY <2>1 DEF Has
<1>4. \A F : Has(record, F) => Flying(F)
  <2>1. record = pend \/ (1 \in 1 .. Len(rx) /\ record = rx[1])
    BY <1>1
  <2> QED
    BY <2>1 DEF Flying
<1>5. \A F : Flying(F)' => Flying(F)
  BY <1>1, <1>2, <1>4 DEF Flying
<1>6. ASSUME Single
      PROVE  Single' /\ ((\E j \in 1 .. k : record[j] \in Ends) => ~Flying(Ends)')
  <2>1. CASE Len(pend) = 1 /\ record = pend /\ rx' = rx /\ Len(record) = 1
    <3>1. ~Has(pend', Ends)
      <4>1. Len(pend') = 0
        BY <1>1, <2>1
      <4> QED
        BY <4>1 DEF Has
    <3>2. Has(pend, Ends) => \A i \in 1 .. Len(rx) : ~Has(rx[i], Ends)
      BY <1>6 DEF Single
    <3>3. Single'
      BY <1>6, <2>1, <3>1 DEF Single
    <3> QED
      BY <1>3, <2>1, <3>1, <3>2, <3>3 DEF Flying
  <2>2. CASE /\ Len(pend) = 0 /\ Len(rx) > 0 /\ record = rx[1]
             /\ \A i \in 1 .. Len(rx') : i + 1 \in 1 .. Len(rx) /\ rx'[i] = rx[i + 1]
    <3>1. 1 \in 1 .. Len(rx)
      BY <2>2
    <3>2. \A i \in 1 .. Len(rx') : Has(record, Ends) => ~Has(rx'[i], Ends)
      BY <1>6, <2>2, <3>1 DEF Single
    <3>3. Has(pend', Ends) => Has(record, Ends)
      BY <1>2
    <3>4. (\E j \in 1 .. k : record[j] \in Ends) => ~Has(pend', Ends)
      <4>1. Len(pend') = 0 => ~Has(pend', Ends)
        BY DEF Has
      <4>2. CASE Len(pend') # 0
        <5>1. Len(pend') = 1 /\ k = 1 /\ Len(record) = 2 /\ pend'[1] = record[2]
          BY <1>1, <4>2, SmallLengths
        <5>2. record[1] \in Ends => record[2] \notin Ends
          <6>1. 1 \in 1 .. Len(rx[1]) /\ 2 \in 1 .. Len(rx[1])
            BY <2>2, <5>1
          <6> QED
            BY <1>6, <2>2, <3>1, <6>1 DEF Single
        <5>3. (\E j \in 1 .. k : record[j] \in Ends) => record[1] \in Ends
          BY <5>1
        <5> QED
          BY <5>1, <5>2, <5>3, HasFew
      <4> QED
        BY <4>1, <4>2
    <3>5. \A i \in 1 .. Len(rx') : \A j, l \in 1 .. Len(rx'[i]) :
             rx'[i][j] \in Ends /\ rx'[i][l] \in Ends => j = l
      <4>1. \A i \in 1 .. Len(rx) : \A j, l \in 1 .. Len(rx[i]) :
               rx[i][j] \in Ends /\ rx[i][l] \in Ends => j = l
        BY <1>6 DEF Single
      <4>2. ASSUME NEW i \in 1 .. Len(rx')
            PROVE  \A j, l \in 1 .. Len(rx'[i]) : rx'[i][j] \in Ends /\ rx'[i][l] \in Ends => j = l
        <5>1. i + 1 \in 1 .. Len(rx) /\ rx'[i] = rx[i + 1]
          BY <2>2
        <5> QED
          BY <4>1, <5>1
      <4> QED
        BY <4>2
    <3>6. ASSUME NEW i \in 1 .. Len(rx'), NEW j \in 1 .. Len(rx'), Has(rx'[i], Ends), Has(rx'[j], Ends)
          PROVE  i = j
      <4>1. i + 1 = j + 1
        BY <1>6, <2>2, <3>6 DEF Single
      <4> QED
        BY <4>1
    <3>7. Single'
      BY <3>2, <3>3, <3>5, <3>6 DEF Single
    <3> QED
      BY <1>3, <3>2, <3>4, <3>7 DEF Flying
  <2> QED
    BY <1>1, <2>1, <2>2
<1> QED
  BY <1>3, <1>4, <1>5, <1>6

-----------------------------------------------------------------------------
(* The types, and what the connection is at each stage of its handshake.   *)

USE DEF counters, threadVars, connVars, sesVars, sockVars, srvVars

\* Before the handshake is over, there is no session, no request and nothing but the hello.
Handshake ==
  /\ nc_state = "none" => link = "none" /\ tls = "tcp"
  /\ link = "none" => nc_state = "none"
  /\ link = "syn" => tls = "tcp"
  /\ nc_state = "CONNECTING" => tls # "up"
  /\ nc_state \in {"CONNECTED", "DONE"} => tls = "up"
  /\ tls # "up" => /\ m_num_reqs = 0 /\ out_q = << >> /\ ses = NewSession /\ pend = << >>
                   /\ seen = 0 /\ owed = 0 /\ ~leaving /\ srv \in {"idle", "hello"}
  /\ tls = "tcp" => link \in {"none", "syn", "up"} /\ srv = "idle" /\ rx = << >>
  /\ tls = "hello" => \/ rx = << >> /\ srv = "hello"
                      \/ rx = <<<<"hello">>, <<"SETTINGS">>>> /\ srv = "idle"
  /\ tls = "failed" => rx = << >> /\ srv = "hello" /\ link = "fin"
  /\ tls = "up" => srv # "hello" /\ rx \in Seq(Seq(SrvFrames))

Types == TypeOK /\ Handshake /\ Lengths

\* A new session is a session.
LEMMA NewSessionType == NewSession \in Session
  BY FramesAssumption DEF NewSession, Session

\* TypeOK, by component.
ThreadTypes  == /\ pc \in {"loop", "wait", "sm", "after_read", "exited"} /\ mode \in {"READ", "WRITE"}
                /\ caller \in {"read", "write"} /\ batch \subseteq Events
CounterTypes == m_reqs \in Nat /\ m_resp \in Nat /\ m_errors \in Nat /\ m_num_in_progress \in Nat
ConnTypes    == /\ nc_state \in {"none", "CONNECTING", "CONNECTED", "DONE"}
                /\ tls \in {"tcp", "hello", "failed", "up"} /\ m_num_reqs \in Nat
QueueTypes   == out_q \in Seq(Frames) /\ ses \in Session
SockTypes    == /\ link \in {"none", "syn", "up", "fin", "rst", "dead"}
                /\ ready \in BOOLEAN /\ full \in BOOLEAN
InputTypes   == rx \in Seq(Seq(SrvFrames \cup {"hello"})) /\ pend \in Seq(SrvFrames) /\ Lengths
ServerTypes  == /\ srv \in {"idle", "hello", "recv", "owes", "gone"}
                /\ seen \in Nat /\ got \in Nat /\ owed \in Nat /\ sent \in 0 .. RespFrames
                /\ srv_window \in Nat /\ leaving \in BOOLEAN /\ whole \in BOOLEAN

\* The types are those of the components.
LEMMA TypeParts ==
  Types <=> /\ ThreadTypes /\ CounterTypes /\ ConnTypes /\ QueueTypes /\ SockTypes /\ InputTypes
            /\ ServerTypes /\ faults \in 0 .. MaxFaults /\ Handshake
  BY DEF Types, TypeOK, ThreadTypes, CounterTypes, ConnTypes, QueueTypes, SockTypes, InputTypes,
         ServerTypes

\* ... in the next state too.
LEMMA TypePartsNext ==
  Types' <=> /\ ThreadTypes' /\ CounterTypes' /\ ConnTypes' /\ QueueTypes' /\ SockTypes' /\ InputTypes'
             /\ ServerTypes' /\ faults' \in 0 .. MaxFaults /\ Handshake'
  BY DEF Types, TypeOK, ThreadTypes, CounterTypes, ConnTypes, QueueTypes, SockTypes, InputTypes,
         ServerTypes

\* What a component leaves alone keeps its types.
LEMMA Unchanged ==
  /\ ThreadTypes /\ UNCHANGED threadVars => ThreadTypes'
  /\ CounterTypes /\ UNCHANGED counters => CounterTypes'
  /\ ConnTypes /\ UNCHANGED connVars => ConnTypes'
  /\ QueueTypes /\ UNCHANGED sesVars => QueueTypes'
  /\ SockTypes /\ UNCHANGED sockVars => SockTypes'
  /\ InputTypes /\ UNCHANGED <<rx, pend>> => InputTypes'
  /\ ServerTypes /\ UNCHANGED srvVars => ServerTypes'
  /\ faults \in 0 .. MaxFaults /\ UNCHANGED faults => faults' \in 0 .. MaxFaults
  /\ Handshake /\ UNCHANGED <<connVars, sesVars, link, rx, pend, seen, owed, leaving, srv>> => Handshake'
  BY DEF ThreadTypes, CounterTypes, ConnTypes, QueueTypes, SockTypes, InputTypes, ServerTypes,
         Handshake, Lengths

\* They hold initially.
LEMMA InitTypes == Init => Types
<1> SUFFICES ASSUME Init PROVE Types
  OBVIOUS
<1>1. ThreadTypes /\ CounterTypes /\ ConnTypes /\ SockTypes
  BY DEF Init, ThreadTypes, CounterTypes, ConnTypes, SockTypes
<1>2. QueueTypes /\ InputTypes
  BY NewSessionType DEF Init, QueueTypes, InputTypes, Lengths
<1>3. ServerTypes /\ faults \in 0 .. MaxFaults
  <2>1. 0 \in 0 .. RespFrames /\ 0 \in 0 .. MaxFaults /\ Window \in Nat
    BY FramesAssumption, WorldAssumption
  <2>2. whole = TRUE /\ leaving = FALSE
    BY DEF Init
  <2> QED
    BY <2>1, <2>2 DEF Init, ServerTypes
<1>4. Handshake
  BY DEF Init, Handshake
<1> QED
  BY <1>1, <1>2, <1>3, <1>4, TypeParts

\* What a return from the state machine, and going on in it, do to the thread.
LEMMA PassTypes ==
  ASSUME ThreadTypes
  PROVE  (ReturnOk \/ ReturnNotOk \/ GotoTop("READ") \/ GotoTop("WRITE") \/ GotoTop(mode)) => ThreadTypes'
  BY DEF ThreadTypes, ReturnOk, ReturnNotOk, GotoTop

\* t_run and the event loop keep them.
LEMMA LoopTypes ==
  ASSUME Types, RunExit \/ StartConn \/ StartNone \/ EvrWait \/ EvrAfterRead
  PROVE  Types'
<1>1. ThreadTypes'
  <2>1. ThreadTypes
    BY TypeParts
  <2>2. CASE RunExit \/ StartConn \/ StartNone \/ EvrAfterRead
    BY <2>1, <2>2 DEF RunExit, StartConn, StartNone, EvrAfterRead, ThreadTypes
  <2>3. CASE EvrWait
    <3>1. reported \subseteq Events
      BY DEF reported, Events
    <3> QED
      BY <2>3, <3>1 DEF EvrWait, ThreadTypes
  <2> QED
    BY <2>2, <2>3
<1>2. CASE RunExit \/ StartNone \/ EvrAfterRead
  BY <1>1, <1>2, TypeParts, TypePartsNext, Unchanged DEF RunExit, StartNone, EvrAfterRead
<1>3. CASE EvrWait
  <2>1. SockTypes'
    BY <1>3, TypeParts DEF EvrWait, SockTypes
  <2> QED
    BY <1>1, <1>3, <2>1, TypeParts, TypePartsNext, Unchanged DEF EvrWait
<1>4. CASE StartConn
  <2>1. ConnTypes' /\ SockTypes'
    BY <1>4, TypeParts DEF StartConn, ConnTypes, SockTypes
  <2>2. Handshake'
    BY <1>4 DEF Types, StartConn, Handshake
  <2> QED
    BY <1>1, <1>4, <2>1, <2>2, TypeParts, TypePartsNext, Unchanged DEF StartConn
<1> QED
  BY <1>2, <1>3, <1>4

\* So do the passes that send and receive nothing,
LEMMA IdlePassTypes ==
  ASSUME Types,
         \/ SmTlsConnect \/ SmTlsAgain \/ SmTlsFails \/ SmReadAgain \/ SmReadEof
         \/ SmWriteNothing \/ SmDone
  PROVE  Types'
<1>1. ThreadTypes'
  <2>1. ReturnOk \/ ReturnNotOk \/ GotoTop("READ") \/ GotoTop("WRITE")
    BY DEF SmTlsConnect, SmTlsAgain, SmTlsFails, SmReadAgain, SmReadEof, SmWriteNothing, SmDone
  <2> QED
    BY <2>1, TypeParts, PassTypes
<1>2. CASE SmTlsAgain \/ SmReadAgain \/ SmWriteNothing
  BY <1>1, <1>2, TypeParts, TypePartsNext, Unchanged DEF SmTlsAgain, SmReadAgain, SmWriteNothing
<1>3. CASE SmTlsConnect
  <2>1. ConnTypes' /\ SockTypes' /\ ServerTypes'
    BY <1>3, TypeParts DEF SmTlsConnect, ConnTypes, SockTypes, ServerTypes
  <2>2. Handshake'
    BY <1>3 DEF Types, SmTlsConnect, Handshake
  <2> QED
    BY <1>1, <1>3, <2>1, <2>2, TypeParts, TypePartsNext, Unchanged DEF SmTlsConnect
<1>4. CASE SmTlsFails
  <2>1. ConnTypes' /\ CounterTypes'
    BY <1>4, TypeParts DEF SmTlsFails, ConnTypes, CounterTypes
  <2>2. Handshake'
    <3>1. nc_state = "CONNECTING" /\ rx = << >> /\ link = "fin" /\ tls' = "failed"
          /\ UNCHANGED <<nc_state, link, rx, m_num_reqs, out_q, ses, pend, seen, owed, leaving, srv>>
      BY <1>4 DEF SmTlsFails
    <3>2. tls \in {"hello", "failed"}
      BY <3>1, TypeParts DEF ConnTypes, Handshake
    <3>3. << >> # <<<<"hello">>, <<"SETTINGS">>>>
      OBVIOUS
    <3>4. srv = "hello"
      BY <3>1, <3>2, <3>3, TypeParts DEF Handshake
    <3> QED
      BY <3>1, <3>2, <3>4, TypeParts DEF Handshake
  <2> QED
    BY <1>1, <1>4, <2>1, <2>2, TypeParts, TypePartsNext, Unchanged DEF SmTlsFails
<1>5. CASE SmReadEof
  <2>1. ConnTypes'
    BY <1>5, TypeParts DEF SmReadEof, ConnTypes
  <2>2. QueueTypes'
    <3>1. [ses EXCEPT !.closed = 0] \in Session
      BY TypeParts DEF QueueTypes, Session
    <3> QED
      BY <1>5, <3>1, TypeParts DEF SmReadEof, QueueTypes
  <2>3. Handshake'
    <3>1. tls = "up" /\ tls' = tls /\ nc_state' = "DONE" /\ link' = link /\ link # "none" /\ link # "syn"
      BY <1>5 DEF SmReadEof, Reading, Types, Handshake
    <3>2. srv' = srv /\ rx' = rx
      BY <1>5 DEF SmReadEof
    <3> QED
      BY <3>1, <3>2 DEF Types, Handshake
  <2> QED
    BY <1>1, <1>5, <2>1, <2>2, <2>3, TypeParts, TypePartsNext, Unchanged DEF SmReadEof
<1>6. CASE SmDone
  <2>1. ConnTypes' /\ SockTypes' /\ CounterTypes'
    BY <1>6, TypeParts DEF SmDone, ConnTypes, SockTypes, CounterTypes
  <2>2. QueueTypes' /\ InputTypes'
    BY <1>6, NewSessionType DEF SmDone, QueueTypes, InputTypes, Lengths
  <2>3. ServerTypes'
    <3>1. 0 \in 0 .. RespFrames /\ Window \in Nat
      BY FramesAssumption
    <3>2. ServerTypes
      BY TypeParts
    <3>3. whole' = whole /\ leaving' = FALSE
      BY <1>6 DEF SmDone
    <3> QED
      BY <1>6, <3>1, <3>2, <3>3 DEF SmDone, ServerTypes
  <2>4. Handshake'
    BY <1>6 DEF SmDone, Handshake
  <2> QED
    BY <1>1, <1>6, <2>1, <2>2, <2>3, <2>4, TypeParts, TypePartsNext, Unchanged DEF SmDone
<1> QED
  BY <1>2, <1>3, <1>4, <1>5, <1>6

\* The control frames of a session have been queued.
LEMMA NoControl ==
  ASSUME NEW s \in Session
  PROVE  [s EXCEPT !.ctl = {}] \in Session
  BY DEF Session

\* The first request of a session, and any other, starts with control frames and its HEADERS.
LEMMA RequestFrames ==
  ASSUME NEW s \in Session
  PROVE  LET t == submit(s)
             h == SetToSeq(s.ctl) \o <<headers>>
         IN
         /\ t \in Session /\ h \in Seq(Frames)
         /\ t.stream = (IF BodyFrames = 0 THEN "half_local" ELSE "open") /\ t.body_q = s.body_q
         /\ srequest_frames(s) = h \o sends([t EXCEPT !.ctl = {}])
         /\ [t EXCEPT !.ctl = {}] \in Session
         /\ after_send([t EXCEPT !.ctl = {}]) = after_send(t)
         /\ srequest_frames(s) \in Seq(Frames) /\ srequest_frames(s) # << >>
<1> DEFINE t == submit(s)
           h == SetToSeq(s.ctl) \o <<headers>>
           u == [t EXCEPT !.ctl = {}]
<1>1. t \in Session /\ t.body_q = s.body_q
      /\ t.stream = IF BodyFrames = 0 THEN "half_local" ELSE "open"
  BY DEF submit, Session
<1>2. SetToSeq(s.ctl) \in Seq(Frames) /\ headers \in Frames
  BY Sends DEF headers, Ctl, Frames
<1>3. h \in Seq(Frames) /\ h # << >>
  BY <1>2
<1>4. srequest_frames(s) = h \o sends(u)
  <2> HIDE DEF u
  <2> QED
    BY DEF srequest_frames, u
<1> HIDE DEF t
<1>5. u \in Session
  BY <1>1, NoControl
<1>6. after_send(u) = after_send(t)
  <2>1. u.body_q = t.body_q /\ u.stream = t.stream /\ u.window = t.window
    BY <1>1 DEF Session
  <2> HIDE DEF u
  <2>2. body_left(u) = body_left(t)
    BY <2>1 DEF body_left
  <2>3. may_send(u) = may_send(t)
    BY <2>1, <2>2 DEF may_send
  <2> DEFINE E(v, n, q) == [v EXCEPT !.ctl = {}, !.window = @ - n, !.body_q = q]
  <2>4. \A n, q : E(u, n, q) = E(t, n, q)
    BY <1>1 DEF Session, u
  <2> QED
    BY <2>1, <2>2, <2>3, <2>4 DEF after_send
<1>7. h \o sends(u) \in Seq(Frames) /\ h \o sends(u) # << >>
  BY <1>3, <1>5, Sends
<1> QED
  BY <1>1, <1>3, <1>4, <1>5, <1>6, <1>7 DEF t

\* the one that ends the handshake,
LEMMA ConnectedTypes ==
  ASSUME Types, SmConnected
  PROVE  /\ Types' /\ rx = <<<<"hello">>, <<"SETTINGS">>>> /\ rx' = <<<<"SETTINGS">>>>
<1>1. rx = <<<<"hello">>, <<"SETTINGS">>>> /\ srv = "idle" /\ seen = 0 /\ pend = << >> /\ owed = 0
      /\ ~leaving
  BY DEF SmConnected, Types, Handshake
<1>2. rx' = <<<<"SETTINGS">>>>
  BY <1>1 DEF SmConnected
<1>3. ThreadTypes'
  BY TypeParts, PassTypes DEF SmConnected
<1>4. CounterTypes' /\ ConnTypes'
  BY TypeParts DEF SmConnected, CounterTypes, ConnTypes
<1>5. QueueTypes'
  BY NewSessionType, RequestFrames, AfterSend DEF SmConnected, QueueTypes
<1>6. rx' \in Seq(Seq(SrvFrames)) /\ rx' \in Seq(Seq(SrvFrames \cup {"hello"})) /\ Len(rx') = 1 /\ Len(rx'[1]) = 1
  <2>1. <<"SETTINGS">> \in Seq(SrvFrames) /\ <<"SETTINGS">> \in Seq(SrvFrames \cup {"hello"})
    BY DEF SrvFrames
  <2> QED
    BY <1>2, <2>1
<1>7. InputTypes'
  <2>1. Lengths'
    BY <1>1, <1>6 DEF Lengths, SmConnected
  <2> QED
    BY <1>6, <2>1, TypeParts DEF InputTypes, SmConnected
<1>8. Handshake'
  BY <1>1, <1>6 DEF SmConnected, Types, Handshake
<1> QED
  BY <1>1, <1>2, <1>3, <1>4, <1>5, <1>7, <1>8, TypeParts, TypePartsNext, Unchanged DEF SmConnected

\* A read, whatever follows it.
LEMMA ReceiveTypes ==
  ASSUME Types, NEW k, NEW n, Receive(k, n)
  PROVE  /\ nc_state = "CONNECTED" /\ pc = "sm" /\ mode = "READ" /\ tls = "up"
         /\ rx \in Seq(Seq(SrvFrames)) /\ pend \in Seq(SrvFrames) /\ Lengths /\ readable
         /\ k \in 1 .. Len(record) /\ Takes(k)
         /\ record \in Seq(SrvFrames) /\ k \in 1 .. 2 /\ k <= Len(record)
         /\ ses \in Session /\ received(k) \in Session
         /\ n = (IF ses.stream # "none" /\ received(k).stream = "none" THEN 1 ELSE 0)
         /\ rx' \in Seq(Seq(SrvFrames)) /\ InputTypes'
         /\ m_num_reqs' = m_num_reqs + n /\ m_resp' \in Nat /\ in_progress_left(n) \in Nat
<1>1. nc_state = "CONNECTED" /\ pc = "sm" /\ mode = "READ" /\ tls = "up" /\ readable
      /\ k \in 1 .. Len(record) /\ Takes(k) /\ n = received(k).closed /\ request_complete(n)
  BY DEF Receive, Reading, Takes, Types, Handshake
<1>2. rx \in Seq(Seq(SrvFrames)) /\ pend \in Seq(SrvFrames) /\ Lengths /\ ses \in Session
  BY <1>1, TypeParts DEF Types, Handshake, InputTypes, QueueTypes
<1>3. /\ record \in Seq(SrvFrames) /\ Len(record) \in 1 .. 2 /\ k \in 1 .. 2
      /\ pend' \in Seq(SrvFrames) /\ rx' \in Seq(Seq(SrvFrames)) /\ Lengths'
  BY <1>1, <1>2, ReadShape
<1>4. k <= Len(record)
  BY <1>1, <1>3
<1>5. received(k) \in Session /\ n = (IF ses.stream # "none" /\ received(k).stream = "none" THEN 1 ELSE 0)
  BY <1>1, <1>2, <1>3, <1>4, Received
<1>6. m_num_reqs' = m_num_reqs + n /\ m_resp' \in Nat /\ in_progress_left(n) \in Nat
  BY <1>1, <1>5, TypeParts DEF request_complete, in_progress_left, CounterTypes
<1>7. rx' \in Seq(Seq(SrvFrames \cup {"hello"}))
  BY <1>3, SeqMonotonic
<1> QED
  BY <1>1, <1>2, <1>3, <1>4, <1>5, <1>6, <1>7 DEF InputTypes

\* What a complete request leaves of the session.
LEMMA ForgetBody ==
  ASSUME NEW s \in Session
  PROVE  LET t == forget_body(s) IN
         /\ t \in Session /\ t.closed = 0 /\ t.body_q = -1
         /\ t.stream = s.stream /\ t.goaway = s.goaway /\ t.ctl = s.ctl
<1> DEFINE a == [s EXCEPT !.closed = 0]
           b == [a EXCEPT !.body_q = -1]
<1>1. forget_body(s) = b
  BY DEF forget_body, Session
<1>2. a \in Session /\ a.closed = 0 /\ a.stream = s.stream /\ a.goaway = s.goaway /\ a.ctl = s.ctl
  BY DEF Session
<1> HIDE DEF a
<1>3. b \in Session /\ b.closed = 0 /\ b.body_q = -1
      /\ b.stream = s.stream /\ b.goaway = s.goaway /\ b.ctl = s.ctl
  BY <1>2 DEF Session
<1> QED
  BY <1>1, <1>3

\* the reads,
LEMMA ReadTypes ==
  ASSUME Types, NEW k, NEW n,
         SmReadFlip(k, n) \/ SmReadOn(k, n) \/ SmReadLast(k, n) \/ SmReadNext(k, n)
  PROVE  Types'
<1>1. Receive(k, n)
  BY DEF SmReadFlip, SmReadOn, SmReadLast, SmReadNext
<1>2. /\ nc_state = "CONNECTED" /\ tls = "up" /\ ses \in Session /\ received(k) \in Session
      /\ n \in 0 .. 1 /\ rx' \in Seq(Seq(SrvFrames)) /\ InputTypes'
      /\ m_num_reqs' = m_num_reqs + n /\ m_resp' \in Nat /\ in_progress_left(n) \in Nat
  BY <1>1, ReceiveTypes
<1>3. /\ nc_state' \in {"CONNECTED", "DONE"}
      /\ UNCHANGED <<m_errors, tls, sockVars, srvVars, faults>>
  BY <1>1, <1>2 DEF Receive, SmReadFlip, SmReadOn, SmReadLast, SmReadNext
<1>4. ThreadTypes'
  BY TypeParts, PassTypes DEF SmReadFlip, SmReadOn, SmReadLast, SmReadNext
<1>5. CounterTypes'
  BY <1>2, <1>3, TypeParts DEF CounterTypes, SmReadFlip, SmReadOn, SmReadLast, SmReadNext
<1>6. ConnTypes'
  BY <1>2, <1>3, TypeParts DEF ConnTypes
<1>7. QueueTypes'
  <2> DEFINE s == forget_body(received(k))
  <2>1. s \in Session
    BY <1>2, ForgetBody
  <2>2. CASE SmReadFlip(k, n) \/ SmReadOn(k, n)
    BY <1>2, <2>2, TypeParts DEF SmReadFlip, SmReadOn, QueueTypes
  <2>3. CASE SmReadLast(k, n)
    BY <2>1, <2>3, TypeParts DEF SmReadLast, QueueTypes
  <2>4. CASE SmReadNext(k, n)
    <3>1. srequest_frames(s) \in Seq(Frames) /\ submit(s) \in Session
      BY <2>1, RequestFrames
    <3>2. after_send(submit(s)) \in Session
      BY <3>1, AfterSend
    <3>3. [after_send(submit(s)) EXCEPT !.closed = 0] \in Session
      BY <3>2 DEF Session
    <3>4. out_q' = srequest_frames(s) /\ ses' = [after_send(submit(s)) EXCEPT !.closed = 0]
      BY <2>4 DEF SmReadNext
    <3> QED
      BY <3>1, <3>3, <3>4 DEF QueueTypes
  <2> QED
    BY <2>2, <2>3, <2>4
<1>8. Handshake'
  <2>1. link # "none" /\ link # "syn" /\ srv # "hello"
    BY <1>2 DEF Types, Handshake
  <2> QED
    BY <1>2, <1>3, <2>1 DEF Handshake
<1> QED
  BY <1>3, <1>4, <1>5, <1>6, <1>7, <1>2, <1>8, TypeParts, TypePartsNext, Unchanged

\* swrite, whatever becomes of what it queues.
LEMMA SwriteTypes ==
  ASSUME Types, swrite
  PROVE  /\ after_send(ses) \in Session /\ queued \in Seq(Frames) /\ ses' \in Session
         /\ m_num_reqs' \in Nat /\ m_resp' \in Nat /\ m_num_in_progress' \in Nat
<1>1. ses \in Session /\ out_q \in Seq(Frames)
  BY TypeParts DEF QueueTypes
<1>2. after_send(ses) \in Session /\ queued \in Seq(Frames)
  <2>1. sends(ses) \in Seq(Frames)
    BY <1>1, Sends
  <2> QED
    BY <1>1, <2>1, AfterSend DEF queued
<1>3. /\ ses' = after_send(ses)
      /\ \E n \in 0 .. 1 : request_complete(n) /\ m_num_in_progress' = in_progress_left(n)
  BY DEF swrite
<1>4. m_num_reqs' \in Nat /\ m_resp' \in Nat /\ m_num_in_progress' \in Nat
  BY <1>3, TypeParts DEF request_complete, in_progress_left, CounterTypes, ConnTypes
<1> QED
  BY <1>2, <1>3, <1>4

\* A frame that arrives, and what the server makes of it.
LEMMA DeliverTypes ==
  ASSUME ServerTypes, NEW f \in Frames, Deliver(f), UNCHANGED leaving
  PROVE  /\ ServerTypes' /\ (srv # "hello" => srv' # "hello")
<1>1. CASE f \in Heads
  <2>1. CASE leaving
    BY <1>1, <2>1 DEF Deliver, Heads, ServerTypes
  <2>2. CASE ~leaving
    <3>1. 0 \in 0 .. RespFrames
      BY FramesAssumption
    <3>2. /\ srv' \in {"recv", "owes"} /\ seen' = seen + 1 /\ got' = 0 /\ sent' = 0
          /\ UNCHANGED <<owed, srv_window, whole, leaving>>
      BY <1>1, <2>2 DEF Deliver, Heads
    <3> QED
      BY <3>1, <3>2 DEF ServerTypes
  <2> QED
    BY <2>1, <2>2
<1>2. CASE f \in Data
  <2>1. /\ got' = got + 1 /\ owed' = owed + 1 /\ srv' \in {"owes", srv}
        /\ UNCHANGED <<seen, sent, srv_window, leaving>>
    BY <1>2 DEF Deliver, Data
  <2>2. whole' \in BOOLEAN
    <3>1. whole' = (whole /\ (f = "DATA_END" => srv = "gone" \/ got' = BodyFrames))
      BY <1>2 DEF Deliver, Data
    <3> QED
      BY <3>1
  <2> QED
    BY <2>1, <2>2 DEF ServerTypes
<1>3. CASE f = "WU"
  BY <1>3, FramesAssumption DEF Deliver, ServerTypes
<1>4. CASE f = "ACK"
  BY <1>4 DEF Deliver, ServerTypes
<1> QED
  BY <1>1, <1>2, <1>3, <1>4 DEF Frames, Heads, Data

\* the writes,
LEMMA WriteTypes ==
  ASSUME Types, SmWriteAgain \/ SmWrite \/ SmIoError
  PROVE  Types'
<1>1. ThreadTypes'
  BY TypeParts, PassTypes DEF SmWriteAgain, SmWrite, SmIoError
<1>2. tls = "up" /\ nc_state = "CONNECTED" /\ link \notin {"none", "syn"}
      /\ rx \in Seq(Seq(SrvFrames)) /\ srv # "hello"
  BY DEF SmWriteAgain, SmWrite, SmIoError, Writing, Reading, Types, Handshake
<1>3. CASE SmWriteAgain
  <2>1. QueueTypes' /\ CounterTypes' /\ ConnTypes'
    BY <1>3, SwriteTypes, TypeParts DEF SmWriteAgain, QueueTypes, CounterTypes, ConnTypes
  <2>2. Handshake'
    BY <1>2, <1>3 DEF SmWriteAgain, Handshake
  <2> QED
    BY <1>1, <1>3, <2>1, <2>2, TypeParts, TypePartsNext, Unchanged DEF SmWriteAgain
<1>4. CASE SmWrite
  <2>1. queued \in Seq(Frames) /\ queued # << >> /\ ses' \in Session /\ out_q' = Tail(queued)
        /\ m_num_reqs' \in Nat /\ m_resp' \in Nat /\ m_num_in_progress' \in Nat
    BY <1>4, SwriteTypes DEF SmWrite
  <2>2. Head(queued) \in Frames /\ Tail(queued) \in Seq(Frames)
    BY <2>1
  <2>3. QueueTypes' /\ CounterTypes' /\ ConnTypes'
    BY <1>4, <2>1, <2>2, TypeParts DEF SmWrite, QueueTypes, CounterTypes, ConnTypes
  <2>4. SockTypes' /\ link' \in {"up", "rst"}
    <3>1. link' \in {"up", "rst"} /\ ready' = ready /\ full' \in BOOLEAN
      BY <1>4, WorldAssumption DEF SmWrite
    <3> QED
      BY <3>1, TypeParts DEF SockTypes
  <2>5. ServerTypes' /\ srv' # "hello"
    <3>1. CASE link = "up"
      <4>1. Deliver(Head(queued)) /\ UNCHANGED leaving
        BY <1>4, <3>1 DEF SmWrite
      <4> QED
        BY <1>2, <2>2, <4>1, TypeParts, DeliverTypes
    <3>2. CASE link # "up"
      <4>1. UNCHANGED srvVars
        BY <1>4, <3>2 DEF SmWrite
      <4> QED
        BY <1>2, <4>1, TypeParts, Unchanged
    <3> QED
      BY <3>1, <3>2
  <2>6. Handshake'
    <3>1. nc_state' = nc_state /\ tls' = tls /\ rx' = rx
      BY <1>4 DEF SmWrite
    <3> QED
      BY <1>2, <2>4, <2>5, <3>1 DEF Handshake
  <2> QED
    BY <1>1, <1>4, <2>3, <2>4, <2>5, <2>6, TypeParts, TypePartsNext, Unchanged DEF SmWrite
<1>5. CASE SmIoError
  <2>1. \/ UNCHANGED <<ses, out_q, m_num_reqs, m_resp, m_num_in_progress>>
        \/ swrite /\ out_q' = queued
    BY <1>5 DEF SmIoError
  <2>2. QueueTypes' /\ CounterTypes' /\ ConnTypes'
    <3>1. m_reqs' = m_reqs /\ m_errors' = m_errors /\ tls' = tls /\ nc_state' = "DONE"
      BY <1>5 DEF SmIoError
    <3> QED
      BY <2>1, <3>1, SwriteTypes, TypeParts DEF QueueTypes, CounterTypes, ConnTypes
  <2>3. Handshake'
    BY <1>2, <1>5 DEF SmIoError, Handshake
  <2> QED
    BY <1>1, <1>5, <2>2, <2>3, TypeParts, TypePartsNext, Unchanged DEF SmIoError
<1> QED
  BY <1>3, <1>4, <1>5

\* A frame of the server is on its way once the connection is up.
LEMMA SendTypes ==
  ASSUME Types, NEW f \in SrvFrames, Send(f), tls = "up", ServerTypes',
         UNCHANGED whole, srv' # "hello", faults' \in 0 .. MaxFaults
  PROVE  Types'
<1>1. /\ UNCHANGED threadVars /\ UNCHANGED counters /\ UNCHANGED connVars /\ UNCHANGED sesVars
      /\ pend' = pend /\ rx' \in Records(f) /\ link = "up" /\ link' = link /\ ready' = TRUE /\ full' = full
  BY DEF Send, worldUnchanged
<1>2. rx \in Seq(Seq(SrvFrames)) /\ Lengths /\ pend \in Seq(SrvFrames)
  BY TypeParts DEF Handshake, InputTypes
<1>3. rx' \in Seq(Seq(SrvFrames)) /\ \A i \in 1 .. Len(rx') : Len(rx'[i]) \in 1 .. 2
  BY <1>1, <1>2, RecordsShape
<1>4. InputTypes'
  <2>1. rx' \in Seq(Seq(SrvFrames \cup {"hello"}))
    BY <1>3, SeqMonotonic
  <2> QED
    BY <1>1, <1>2, <1>3, <2>1 DEF InputTypes, Lengths
<1>5. SockTypes'
  BY <1>1, TypeParts DEF SockTypes
<1>6. Handshake'
  BY <1>1, <1>3, TypeParts DEF Handshake
<1> QED
  BY <1>1, <1>4, <1>5, <1>6, TypeParts, TypePartsNext, Unchanged

\* One fault more.
LEMMA FaultTypes ==
  ASSUME Types, NEW k, fault(k)
  PROVE  faults' \in 0 .. MaxFaults
  BY TypeParts, WorldAssumption DEF fault

\* the frames of the server,
LEMMA AnswerTypes ==
  ASSUME Types, Credit \/ AnswerData \/ AnswerEnd \/ Rst \/ GoAway
  PROVE  Types'
<1>1. tls = "up" /\ srv # "hello"
  <2>1. Credit => owed > 0
    BY DEF Credit
  <2>2. AnswerData \/ AnswerEnd \/ Rst => srv \in {"recv", "owes"}
    BY DEF AnswerData, AnswerEnd, Rst, ready_to_answer
  <2>3. GoAway => tls = "up"
    BY DEF GoAway
  <2> QED
    BY <2>1, <2>2, <2>3, TypeParts DEF Handshake
<1>2. ServerTypes
  BY TypeParts
<1>3. CASE Credit
  <2>1. ServerTypes' /\ srv' # "hello" /\ faults' = faults /\ Send("CREDIT") /\ whole' = whole
    <3>1. owed' = owed - 1 /\ owed > 0 /\ Send("CREDIT")
          /\ UNCHANGED <<srv, sent, srv_window, leaving, faults>>
      BY <1>3 DEF Credit
    <3>2. UNCHANGED <<seen, got, whole>>
      BY <3>1 DEF Send, worldUnchanged
    <3> QED
      BY <1>1, <1>2, <3>1, <3>2 DEF ServerTypes
  <2> QED
    BY <1>1, <2>1, SendTypes, TypeParts DEF SrvFrames
<1>4. CASE AnswerData
  <2>1. ServerTypes' /\ srv' # "hello" /\ faults' = faults /\ Send("data") /\ whole' = whole
    <3>1. /\ sent' = sent + 1 /\ sent < RespFrames /\ srv_window' = srv_window - 1 /\ srv_window > 0
          /\ Send("data") /\ UNCHANGED <<srv, owed, leaving, faults>>
      BY <1>4 DEF AnswerData
    <3>2. UNCHANGED <<seen, got, whole>>
      BY <3>1 DEF Send, worldUnchanged
    <3>3. sent' \in 0 .. RespFrames /\ srv_window' \in Nat
      BY <1>2, <3>1, FramesAssumption DEF ServerTypes
    <3> QED
      BY <1>1, <1>2, <3>1, <3>2, <3>3 DEF ServerTypes
  <2> QED
    BY <1>1, <2>1, SendTypes, TypeParts DEF SrvFrames
<1>5. CASE AnswerEnd \/ Rst
  <2>1. PICK f \in Ends : Send(f)
    BY <1>5 DEF AnswerEnd, Rst, Ends
  <2>2. srv' = "idle" /\ UNCHANGED <<owed, sent, srv_window, leaving, seen, got, whole>>
    BY <1>5 DEF AnswerEnd, Rst, Send, worldUnchanged
  <2>3. faults' \in 0 .. MaxFaults
    BY <1>5, FaultTypes, TypeParts DEF AnswerEnd, Rst
  <2>4. ServerTypes' /\ srv' # "hello" /\ whole' = whole
    BY <1>2, <2>2 DEF ServerTypes
  <2> QED
    BY <1>1, <2>1, <2>3, <2>4, SendTypes DEF SrvFrames, Ends
<1>6. CASE GoAway
  <2>1. Send("GOAWAY") /\ leaving' = TRUE /\ UNCHANGED <<srv, owed, sent, srv_window, seen, got, whole>>
    BY <1>6 DEF GoAway, Send, worldUnchanged
  <2>2. faults' \in 0 .. MaxFaults
    BY <1>6, FaultTypes DEF GoAway
  <2>3. ServerTypes' /\ srv' # "hello" /\ whole' = whole
    BY <1>1, <1>2, <2>1 DEF ServerTypes
  <2> QED
    BY <1>1, <2>1, <2>2, <2>3, SendTypes DEF SrvFrames
<1> QED
  BY <1>3, <1>4, <1>5, <1>6

\* and what the kernel does.
LEMMA KernelTypes ==
  ASSUME Types,
         Establish \/ Drain \/ Hello \/ CloseLeaving \/ CloseEarly \/ CloseHandshake \/ Reset
  PROVE  Types'
<1>1. UNCHANGED <<threadVars, counters, connVars, sesVars, pend, whole>>
  BY DEF Establish, Drain, Hello, CloseLeaving, CloseEarly, CloseHandshake, Close, Reset, worldUnchanged
<1>2. UNCHANGED <<seen, got, owed, sent, srv_window, leaving>>
  BY DEF Establish, Drain, Hello, CloseLeaving, CloseEarly, CloseHandshake, Close, Reset
<1>3. SockTypes'
  BY TypeParts DEF SockTypes, Establish, Drain, Hello, CloseLeaving, CloseEarly, CloseHandshake,
                   Close, Reset
<1>4. faults' \in 0 .. MaxFaults
  BY TypeParts, FaultTypes DEF Establish, Drain, Hello, CloseLeaving, CloseEarly, CloseHandshake, Reset
<1>5. CASE Establish \/ Drain \/ Reset
  <2>1. UNCHANGED srvVars /\ rx' = rx
    BY <1>1, <1>2, <1>5 DEF Establish, Drain, Reset
  <2>2. Handshake'
    BY <1>1, <1>5, <2>1 DEF Types, Handshake, Establish, Drain, Reset
  <2> QED
    BY <1>1, <1>3, <1>4, <2>1, <2>2, TypeParts, TypePartsNext, Unchanged
<1>6. CASE CloseLeaving \/ CloseEarly \/ CloseHandshake
  <2>1. UNCHANGED srvVars /\ rx' = rx /\ link = "up" /\ link' = "fin"
    BY <1>1, <1>2, <1>6 DEF CloseLeaving, CloseEarly, CloseHandshake, Close
  <2>2. tls # "tcp"
    BY <1>6 DEF CloseLeaving, CloseEarly, CloseHandshake, Types, Handshake
  <2>3. Handshake'
    BY <1>1, <2>1, <2>2 DEF Types, Handshake
  <2> QED
    BY <1>1, <1>3, <1>4, <2>1, <2>3, TypeParts, TypePartsNext, Unchanged
<1>7. CASE Hello
  <2>1. srv = "hello" /\ link = "up" /\ link' = link /\ srv' = "idle"
        /\ rx' = <<<<"hello">>, <<"SETTINGS">>>>
    BY <1>7 DEF Hello
  <2>2. tls = "hello"
    BY <2>1, TypeParts DEF ConnTypes, Handshake
  <2>3. Handshake'
    BY <1>1, <1>2, <2>1, <2>2 DEF Types, Handshake
  <2>4. InputTypes'
    <3>1. <<"hello">> \in Seq(SrvFrames \cup {"hello"}) /\ <<"SETTINGS">> \in Seq(SrvFrames \cup {"hello"})
      BY DEF SrvFrames
    <3>2. rx' \in Seq(Seq(SrvFrames \cup {"hello"})) /\ Len(rx') = 2
          /\ Len(rx'[1]) = 1 /\ Len(rx'[2]) = 1
      BY <2>1, <3>1
    <3>3. \A i \in 1 .. Len(rx') : Len(rx'[i]) \in 1 .. 2
      BY <3>2
    <3> QED
      BY <1>1, <3>2, <3>3, TypeParts DEF InputTypes, Lengths
  <2>5. ServerTypes'
    BY <1>1, <1>2, <2>1, TypeParts DEF ServerTypes
  <2> QED
    BY <1>1, <1>3, <1>4, <2>3, <2>4, <2>5, TypeParts, TypePartsNext, Unchanged
<1> QED
  BY <1>5, <1>6, <1>7

\* Every step keeps the types.
LEMMA NextTypes == Types /\ [Next]_vars => Types'
<1> SUFFICES ASSUME Types, [Next]_vars PROVE Types'
  OBVIOUS
<1>1. CASE Thread
  BY <1>1, LoopTypes, IdlePassTypes, ConnectedTypes, ReadTypes, WriteTypes DEF Thread
<1>2. CASE World
  BY <1>2, KernelTypes, AnswerTypes DEF World
<1>3. CASE UNCHANGED vars
  BY <1>3, TypeParts, TypePartsNext, Unchanged DEF vars
<1> QED
  BY <1>1, <1>2, <1>3 DEF Next, Exited

\* Every variable has its type in every state.
THEOREM TypesHold == Spec => []TypeOK
<1>1. Types => TypeOK
  BY DEF Types
<1> QED
  BY <1>1, InitTypes, NextTypes, PTL DEF Spec

-----------------------------------------------------------------------------
(* The frames queued, and the body.                                        *)

\* What the server has, will have and will not have of the bodies.
Whole ==
  /\ Queue(out_q, ses)
  /\ link = "up" /\ srv # "gone" => Bodies(out_q, ses, got)
  /\ srv = "gone" => leaving
  /\ whole

\* An empty queue and no stream.
LEMMA EmptyQueue ==
  ASSUME NEW s, s.stream = "none", NEW g
  PROVE  Queue(<< >>, s) /\ Bodies(<< >>, s, g) /\ ~Has(<< >>, Heads)
  BY DEF Queue, Bodies, Has, Sending

\* Before the handshake is over, nothing is queued and no stream is open.
LEMMA BeforeSession ==
  ASSUME Types, tls # "up"
  PROVE  Queue(out_q, ses) /\ \A g : Bodies(out_q, ses, g)
  BY EmptyQueue DEF Types, Handshake, NewSession

\* A session that still sends what it sent before.
SendsNoMore(s, t) == t.body_q = s.body_q /\ (t.stream \in Sending => s.stream \in Sending)

\* Such a session keeps what was said of the queue.
LEMMA SendsLess ==
  ASSUME NEW q, NEW s, NEW t, SendsNoMore(s, t)
  PROVE  /\ Queue(q, s) => Queue(q, t)
         /\ \A g : Bodies(q, s, g) => Bodies(q, t, g)
<1>1. body_left(t) = body_left(s)
  BY DEF SendsNoMore, body_left
<1> QED
  BY <1>1 DEF SendsNoMore, Queue, Bodies

\* The HEADERS of a request, behind control frames, and the session that goes with them.
LEMMA RequestQueue ==
  ASSUME NEW s \in Session, s.body_q = -1
  PROVE  LET t == after_send(submit(s)) IN
         /\ Queue(srequest_frames(s), t) /\ Bodies(srequest_frames(s), t, 0)
         /\ Has(srequest_frames(s), Heads) /\ t \in Session
         /\ t.stream \in {"open", "half_local"}
<1> DEFINE c == SetToSeq(s.ctl)
           u == [submit(s) EXCEPT !.ctl = {}]
           h == c \o <<headers>>
<1>1. /\ submit(s) \in Session /\ h \in Seq(Frames)
      /\ submit(s).stream = (IF BodyFrames = 0 THEN "half_local" ELSE "open")
      /\ submit(s).body_q = -1
      /\ srequest_frames(s) = h \o sends(u) /\ u \in Session
      /\ after_send(u) = after_send(submit(s))
  BY RequestFrames
<1>2. u.stream = (IF BodyFrames = 0 THEN "half_local" ELSE "open") /\ u.body_q = -1
  BY <1>1 DEF Session
<1>3. c \in Seq(Ctl)
  BY Sends
<1>4. headers \in Heads
  BY DEF headers, Heads
<1> HIDE DEF c, u
<1>5. /\ Len(h) = Len(c) + 1 /\ Len(c) \in Nat /\ h[Len(h)] = headers
      /\ \A i \in 1 .. Len(h) - 1 : h[i] \in Ctl
  BY <1>3
<1> HIDE DEF h
<1>6. Has(h, Heads) /\ ~Has(h, Data)
  <2>1. Len(h) \in 1 .. Len(h) /\ \A i \in 1 .. Len(h) : i = Len(h) \/ i \in 1 .. Len(h) - 1
    BY <1>5
  <2>2. Has(h, Heads)
    BY <1>4, <1>5, <2>1 DEF Has
  <2>3. ~Has(h, Data)
    BY <1>4, <1>5, <2>1 DEF Has, Data, Heads, Ctl
  <2> QED
    BY <2>2, <2>3
<1>7. DataFrames(h) = 0 /\ ~Has(h, {"DATA_END"})
  <2>1. DataFrames(h) = 0
    BY <1>1, <1>6, DataFinite
  <2>2. ~Has(h, {"DATA_END"})
    BY <1>6 DEF Has, Data
  <2> QED
    BY <2>1, <2>2
<1>8. u.stream \in Sending => BodyFrames > 0 /\ body_left(u) = BodyFrames
  BY <1>2, FramesAssumption DEF Sending, body_left
<1>9. Queue(h, u)
  <2>1. ASSUME NEW i \in 1 .. Len(h), h[i] \in Heads
        PROVE  h[i] = headers /\ \A j \in 1 .. i - 1 : h[j] \in Ctl
    <3>1. i = Len(h)
      BY <1>5, <2>1 DEF Heads, Ctl
    <3> QED
      BY <1>5, <3>1
  <2>2. \A i \in 1 .. Len(h) : h[i] \notin Data /\ h[i] # "DATA_END"
    BY <1>6 DEF Has, Data
  <2> QED
    BY <1>7, <1>8, <2>1, <2>2 DEF Queue
<1>10. Bodies(h, u, 0)
  BY <1>6, <1>7, <1>8, FramesAssumption DEF Bodies
<1>11. Queue(h \o sends(u), after_send(u)) /\ Bodies(h \o sends(u), after_send(u), 0)
  BY <1>1, <1>9, <1>10, QueueSends, BodiesSends
<1>12. Has(h \o sends(u), Heads)
  BY <1>1, <1>6, SendsAdds
<1>13. after_send(u).stream \in {"open", "half_local"} /\ after_send(u) \in Session
  <2>1. CASE BodyFrames = 0
    <3>1. may_send(u) = 0 /\ after_send(u).stream = u.stream /\ after_send(u) \in Session
      BY <1>1, <1>2, <2>1, MaySend, AfterSend DEF Sending
    <3> QED
      BY <1>2, <2>1, <3>1
  <2>2. CASE BodyFrames # 0
    <3>1. u.stream = "open" /\ may_send(u) \in Nat /\ body_left(u) \in Nat
      BY <1>1, <1>2, <2>2, MaySend, BodyLeft
    <3>2. /\ may_send(u) = 0 => after_send(u).stream = u.stream
          /\ may_send(u) > 0 /\ may_send(u) < body_left(u) => after_send(u).stream = u.stream
          /\ may_send(u) > 0 /\ may_send(u) >= body_left(u) => after_send(u).stream = "half_local"
          /\ after_send(u) \in Session
      BY <1>1, <3>1, AfterSend
    <3> QED
      BY <3>1, <3>2
  <2> QED
    BY <2>1, <2>2
<1> QED
  BY <1>1, <1>11, <1>12, <1>13

\* Bodies does not depend on what the server has as long as it has nothing of the request.
LEMMA BodiesQueued ==
  ASSUME NEW q, NEW s, Has(q, Heads), Bodies(q, s, 0)
  PROVE  \A g : Bodies(q, s, g)
  BY DEF Bodies

\* A queue whose first frame is written is still one.
LEMMA QueueTail ==
  ASSUME NEW q \in Seq(Frames), q # << >>, NEW s, Queue(q, s)
  PROVE  Queue(Tail(q), s)
<1> DEFINE p == Tail(q)
<1>1. /\ Len(p) = Len(q) - 1 /\ Len(q) \in Nat \ {0}
      /\ \A i \in 1 .. Len(p) : i + 1 \in 1 .. Len(q) /\ p[i] = q[i + 1]
  OBVIOUS
<1>2. \A F : Has(p, F) => Has(q, F)
  BY HasTail
<1> HIDE DEF p
<1>3. ASSUME NEW i \in 1 .. Len(p), p[i] \in Heads
      PROVE  p[i] = headers /\ \A j \in 1 .. i - 1 : p[j] \in Ctl
  <2>1. i + 1 \in 1 .. Len(q) /\ q[i + 1] = p[i]
    BY <1>1
  <2>2. q[i + 1] = headers /\ \A j \in 1 .. (i + 1) - 1 : q[j] \in Ctl
    BY <1>3, <2>1 DEF Queue
  <2>3. \A j \in 1 .. i - 1 : j + 1 \in 1 .. (i + 1) - 1 /\ p[j] = q[j + 1]
    BY <1>1
  <2> QED
    BY <2>1, <2>2, <2>3
<1>4. ASSUME NEW i \in 1 .. Len(p), p[i] = "DATA_END", NEW j \in i + 1 .. Len(p)
      PROVE  p[j] \notin Data
  <2>1. i + 1 \in 1 .. Len(q) /\ q[i + 1] = "DATA_END"
    BY <1>1, <1>4
  <2>2. j + 1 \in (i + 1) + 1 .. Len(q) /\ p[j] = q[j + 1]
    BY <1>1
  <2> QED
    BY <2>1, <2>2 DEF Queue
<1>5. ASSUME NEW i \in 1 .. Len(p), p[i] \in Data
      PROVE  BodyFrames > 0
  BY <1>1, <1>5 DEF Queue
<1> QED
  BY <1>2, <1>3, <1>4, <1>5 DEF Queue, p

\* A frame that reaches the server.
LEMMA DeliverWhole ==
  ASSUME NEW q \in Seq(Frames), q # << >>, NEW s \in Session, got \in Nat,
         Queue(q, s), Bodies(q, s, got) \/ srv = "gone", srv = "gone" => leaving, whole,
         Deliver(Head(q)), leaving' = leaving
  PROVE  /\ Queue(Tail(q), s) /\ (srv' # "gone" => Bodies(Tail(q), s, got'))
         /\ (srv' = "gone" => leaving') /\ whole'
<1> DEFINE f == Head(q)
           p == Tail(q)
<1>1. f = q[1] /\ f \in Frames /\ p \in Seq(Frames) /\ Len(p) = Len(q) - 1 /\ Len(q) \in Nat \ {0}
      /\ \A i \in 1 .. Len(p) : i + 1 \in 1 .. Len(q) /\ p[i] = q[i + 1]
  OBVIOUS
<1>2. \A F : Has(q, F) <=> f \in F \/ Has(p, F)
  BY HasTail
<1>3. DataFrames(p) = DataFrames(q) - (IF f \in Data THEN 1 ELSE 0) /\ DataFrames(q) \in Nat
      /\ DataFrames(p) \in Nat
  BY <1>1, DataTail, DataFinite
<1>4. body_left(s) \in Nat /\ BodyFrames \in Nat
  BY BodyLeft, FramesAssumption
<1> HIDE DEF f, p
<1>5. f \notin Ctl => ~Has(p, Heads)
  <2> SUFFICES ASSUME NEW i \in 1 .. Len(p), p[i] \in Heads PROVE f \in Ctl
    BY DEF Has
  <2>1. i + 1 \in 1 .. Len(q) /\ q[i + 1] \in Heads /\ 1 \in 1 .. (i + 1) - 1
    BY <1>1
  <2> QED
    BY <1>1, <2>1 DEF Queue
<1>6. Queue(p, s)
  BY QueueTail DEF p
<1>7. CASE f \in Heads
  <2>1. whole' = whole
    BY <1>7 DEF Deliver, Heads, f
  <2>2. CASE leaving
    BY <1>6, <1>7, <2>1, <2>2 DEF Deliver, Heads, f, p
  <2>3. CASE ~leaving
    <3>1. got' = 0 /\ srv' # "gone" /\ srv # "gone"
      BY <1>7, <2>3 DEF Deliver, Heads, f
    <3>2. ~Has(p, Heads) /\ Has(q, Heads) /\ DataFrames(p) = DataFrames(q)
          /\ (Has(p, {"DATA_END"}) => Has(q, {"DATA_END"}))
      BY <1>2, <1>3, <1>5, <1>7 DEF Ctl, Heads, Data
    <3>3. Bodies(p, s, got')
      BY <3>1, <3>2 DEF Bodies
    <3> QED
      BY <1>6, <2>1, <2>3, <3>1, <3>3 DEF p
  <2> QED
    BY <2>2, <2>3
<1>8. CASE f \in Data
  <2>1. /\ got' = got + 1 /\ (srv' = "gone" <=> srv = "gone")
        /\ whole' = (whole /\ (f = "DATA_END" => srv = "gone" \/ got' = BodyFrames))
    BY <1>8 DEF Deliver, Data, f
  <2>2. ~Has(p, Heads) /\ ~Has(q, Heads) /\ DataFrames(p) = DataFrames(q) - 1
        /\ (Has(p, {"DATA_END"}) => Has(q, {"DATA_END"}))
    BY <1>2, <1>3, <1>5, <1>8 DEF Ctl, Heads, Data
  <2>3. srv # "gone" => Bodies(p, s, got')
    BY <1>3, <1>4, <2>1, <2>2 DEF Bodies
  <2>4. f = "DATA_END" => srv = "gone" \/ got' = BodyFrames
    <3> SUFFICES ASSUME f = "DATA_END", srv # "gone" PROVE got' = BodyFrames
      OBVIOUS
    <3>1. Has(q, {"DATA_END"})
      BY <1>2
    <3>2. ~Has(p, Data)
      <4>1. \A j \in 1 + 1 .. Len(q) : q[j] \notin Data
        BY <1>1 DEF Queue
      <4> QED
        BY <1>1, <4>1 DEF Has
    <3>3. DataFrames(p) = 0
      BY <1>1, <3>2, DataFinite
    <3> QED
      BY <1>3, <2>1, <2>2, <3>1, <3>3 DEF Bodies
  <2> QED
    BY <1>6, <2>1, <2>3, <2>4 DEF p
<1>9. CASE f \in Ctl
  <2>1. UNCHANGED <<got, srv, whole>>
    BY <1>9 DEF Deliver, Ctl, f
  <2>2. (Has(p, Heads) <=> Has(q, Heads)) /\ DataFrames(p) = DataFrames(q)
        /\ (Has(p, {"DATA_END"}) => Has(q, {"DATA_END"}))
    BY <1>2, <1>3, <1>9 DEF Ctl, Heads, Data
  <2>3. srv # "gone" => Bodies(p, s, got')
    BY <2>1, <2>2 DEF Bodies
  <2> QED
    BY <1>6, <2>1, <2>3 DEF p
<1> QED
  BY <1>1, <1>7, <1>8, <1>9 DEF Frames, Heads, Data, Ctl

\* A session that is read only, or is left alone, sends what it sent before.
LEMMA SameWhole ==
  ASSUME Whole, UNCHANGED <<out_q, got, whole>>, SendsNoMore(ses, ses'),
         link' = "up" => link = "up", srv' = "gone" <=> srv = "gone", leaving => leaving'
  PROVE  Whole'
  BY SendsLess DEF Whole

\* Neither the loop nor a pass without work touches the queue.
LEMMA LoopWhole ==
  ASSUME Types, Whole,
         \/ RunExit \/ StartConn \/ StartNone \/ EvrWait \/ EvrAfterRead
         \/ SmTlsAgain \/ SmTlsFails \/ SmReadAgain \/ SmWriteNothing
  PROVE  Whole'
<1>1. UNCHANGED <<sesVars, srvVars>> /\ (link' = "up" => link = "up")
  BY DEF RunExit, StartConn, StartNone, EvrWait, EvrAfterRead, SmTlsAgain, SmTlsFails, SmReadAgain,
         SmWriteNothing
<1> QED
  BY <1>1, SameWhole DEF SendsNoMore

\* A read closes the stream or leaves it; the next request finds no body of the last one.
LEMMA ReadWhole ==
  ASSUME Types, Whole, NEW k, NEW n,
         SmReadFlip(k, n) \/ SmReadOn(k, n) \/ SmReadLast(k, n) \/ SmReadNext(k, n)
  PROVE  Whole'
<1>1. Receive(k, n)
  BY DEF SmReadFlip, SmReadOn, SmReadLast, SmReadNext
<1>2. UNCHANGED <<sockVars, srvVars>>
  BY <1>1 DEF Receive
<1>3. /\ k \in 1 .. 2 /\ k <= Len(record) /\ record \in Seq(SrvFrames) /\ ses \in Session
      /\ received(k) \in Session
      /\ n = (IF ses.stream # "none" /\ received(k).stream = "none" THEN 1 ELSE 0)
  BY <1>1, ReceiveTypes
<1>4. SendsNoMore(ses, received(k))
  BY <1>3, Received DEF SendsNoMore
<1>5. forget_body(received(k)) \in Session /\ forget_body(received(k)).body_q = -1
      /\ forget_body(received(k)).stream = received(k).stream
  BY <1>3, ForgetBody
<1>6. CASE SmReadFlip(k, n) \/ SmReadOn(k, n)
  <2>1. ses' = received(k) /\ out_q' = out_q
    BY <1>6 DEF SmReadFlip, SmReadOn
  <2> QED
    BY <1>2, <1>4, <2>1, SameWhole
<1>7. CASE SmReadLast(k, n)
  <2>1. ses' = forget_body(received(k)) /\ out_q' = << >> /\ n > 0
    BY <1>7 DEF SmReadLast
  <2>2. ses'.stream = "none"
    BY <1>3, <1>5, <2>1
  <2> QED
    BY <1>2, <2>1, <2>2, EmptyQueue DEF Whole
<1>8. CASE SmReadNext(k, n)
  <2> DEFINE s == forget_body(received(k))
             t == after_send(submit(s))
  <2>1. out_q' = srequest_frames(s) /\ ses' = [t EXCEPT !.closed = 0]
    BY <1>8 DEF SmReadNext
  <2>2. /\ Queue(srequest_frames(s), t) /\ Bodies(srequest_frames(s), t, 0)
        /\ Has(srequest_frames(s), Heads) /\ t \in Session
    BY <1>5, RequestQueue
  <2> HIDE DEF t
  <2>3. SendsNoMore(t, ses')
    BY <2>1, <2>2 DEF SendsNoMore, Session
  <2>4. Queue(out_q', ses') /\ Bodies(out_q', ses', 0) /\ Has(out_q', Heads)
    BY <2>1, <2>2, <2>3, SendsLess
  <2>5. Bodies(out_q', ses', got')
    BY <2>4, BodiesQueued
  <2> QED
    BY <1>2, <2>4, <2>5 DEF Whole
<1> QED
  BY <1>6, <1>7, <1>8

\* The handshake, the end of the stream and the end of the connection.
LEMMA SessionWhole ==
  ASSUME Types, Whole, SmTlsConnect \/ SmConnected \/ SmReadEof \/ SmDone
  PROVE  Whole'
<1>1. CASE SmTlsConnect
  <2>1. tls # "up" /\ UNCHANGED <<sesVars, got, leaving, whole, link>> /\ srv' # "gone"
    BY <1>1 DEF SmTlsConnect
  <2> QED
    BY <2>1, BeforeSession DEF Whole
<1>2. CASE SmConnected
  <2> DEFINE t == after_send(submit(NewSession))
  <2>1. UNCHANGED srvVars /\ out_q' = srequest_frames(NewSession) /\ ses' = t
    BY <1>2 DEF SmConnected
  <2>2. NewSession \in Session /\ NewSession.body_q = -1
    BY NewSessionType DEF NewSession
  <2>3. /\ Queue(srequest_frames(NewSession), t) /\ Bodies(srequest_frames(NewSession), t, 0)
        /\ Has(srequest_frames(NewSession), Heads)
    BY <2>2, RequestQueue
  <2> HIDE DEF t
  <2>4. Bodies(out_q', ses', got')
    BY <2>1, <2>3, BodiesQueued
  <2> QED
    BY <2>1, <2>3, <2>4 DEF Whole
<1>3. CASE SmReadEof
  <2>1. UNCHANGED <<out_q, link, srvVars>> /\ ses' = [ses EXCEPT !.closed = 0] /\ ses \in Session
    BY <1>3, TypeParts DEF SmReadEof, QueueTypes
  <2>2. SendsNoMore(ses, ses')
    BY <2>1 DEF SendsNoMore, Session
  <2> QED
    BY <2>1, <2>2, SameWhole
<1>4. CASE SmDone
  <2>1. out_q' = << >> /\ ses' = NewSession /\ link' = "none" /\ srv' = "idle" /\ whole' = whole
    BY <1>4 DEF SmDone
  <2>2. ses'.stream = "none"
    BY <2>1 DEF NewSession
  <2> QED
    BY <2>1, <2>2, EmptyQueue DEF Whole
<1> QED
  BY <1>1, <1>2, <1>3, <1>4

\* A write queues what nghttp2 sends and takes the first frame.
LEMMA WriteWhole ==
  ASSUME Types, Whole, SmWriteAgain \/ SmWrite \/ SmIoError
  PROVE  Whole'
<1>1. /\ ses \in Session /\ out_q \in Seq(Frames) /\ got \in Nat
  BY TypeParts DEF QueueTypes, ServerTypes
<1>2. /\ queued \in Seq(Frames) /\ Queue(queued, after_send(ses))
      /\ Bodies(out_q, ses, got) => Bodies(queued, after_send(ses), got)
      /\ after_send(ses) \in Session
  <2>1. Queue(out_q, ses)
    BY DEF Whole
  <2>2. Queue(out_q \o sends(ses), after_send(ses))
        /\ (Bodies(out_q, ses, got) => Bodies(out_q \o sends(ses), after_send(ses), got))
    BY <1>1, <2>1, QueueSends, BodiesSends
  <2>3. out_q \o sends(ses) \in Seq(Frames) /\ after_send(ses) \in Session
    BY <1>1, SendsAdds, AfterSend
  <2> QED
    BY <2>2, <2>3 DEF queued
<1>3. CASE SmWriteAgain
  <2>1. ses' = after_send(ses) /\ out_q' = queued /\ UNCHANGED <<link, srvVars>>
    BY <1>3 DEF SmWriteAgain, swrite
  <2> QED
    BY <1>2, <2>1 DEF Whole
<1>4. CASE SmIoError
  <2>1. UNCHANGED <<link, srvVars>> /\ link = "dead"
    BY <1>4 DEF SmIoError
  <2>2. UNCHANGED <<ses, out_q>> \/ (ses' = after_send(ses) /\ out_q' = queued)
    BY <1>4 DEF SmIoError, swrite
  <2> QED
    BY <1>2, <2>1, <2>2 DEF Whole
<1>5. CASE SmWrite
  <2>1. /\ ses' = after_send(ses) /\ out_q' = Tail(queued) /\ queued # << >> /\ leaving' = leaving
        /\ link = "up" => Deliver(Head(queued))
        /\ link # "up" => link' # "up" /\ UNCHANGED <<srv, whole>>
    BY <1>5 DEF SmWrite, swrite
  <2>2. CASE link = "up"
    <3>1. Bodies(queued, after_send(ses), got) \/ srv = "gone"
      BY <1>2, <2>2 DEF Whole
    <3>2. (srv = "gone" => leaving) /\ whole
      BY DEF Whole
    <3>3. /\ Queue(Tail(queued), after_send(ses))
          /\ srv' # "gone" => Bodies(Tail(queued), after_send(ses), got')
          /\ srv' = "gone" => leaving'
          /\ whole'
      BY <1>1, <1>2, <2>1, <2>2, <3>1, <3>2, DeliverWhole
    <3> QED
      BY <2>1, <3>3 DEF Whole
  <2>3. CASE link # "up"
    <3>1. Queue(Tail(queued), after_send(ses))
      BY <1>2, <2>1, QueueTail
    <3> QED
      BY <2>1, <2>3, <3>1 DEF Whole
  <2> QED
    BY <2>2, <2>3
<1> QED
  BY <1>3, <1>4, <1>5

\* The kernel and the server leave the queue alone.
LEMMA WorldWhole ==
  ASSUME Types, Whole, World
  PROVE  Whole'
<1>1. UNCHANGED <<sesVars, whole, got>> /\ (leaving => leaving')
  BY DEF World, Establish, Drain, Hello, Credit, AnswerData, AnswerEnd, Rst, GoAway, CloseLeaving,
         CloseEarly, CloseHandshake, Close, Reset, Send, worldUnchanged
<1>2. CASE Establish
  <2>1. tls # "up" /\ srv' = srv
    BY <1>2 DEF Establish, Types, Handshake
  <2> QED
    BY <1>1, <2>1, BeforeSession DEF Whole
<1>3. CASE ~Establish
  <2>1. (link' = "up" => link = "up") /\ (srv' = "gone" <=> srv = "gone")
    BY <1>3 DEF World, Drain, Hello, Credit, AnswerData, AnswerEnd, Rst, GoAway, CloseLeaving,
         CloseEarly, CloseHandshake, Close, Reset, Send, worldUnchanged, ready_to_answer
  <2> QED
    BY <1>1, <2>1, SameWhole DEF SendsNoMore
<1> QED
  BY <1>2, <1>3

\* Nothing is queued at first.
LEMMA InitWhole == Init => Whole
<1> SUFFICES ASSUME Init PROVE Whole
  OBVIOUS
<1>1. out_q = << >> /\ ses.stream = "none" /\ srv = "idle" /\ whole
  BY DEF Init, NewSession
<1> QED
  BY <1>1, EmptyQueue DEF Whole

\* Every step keeps the bodies whole.
LEMMA NextWhole == Types /\ Whole /\ [Next]_vars => Whole'
<1> SUFFICES ASSUME Types, Whole, [Next]_vars PROVE Whole'
  OBVIOUS
<1>1. CASE Thread
  BY <1>1, LoopWhole, ReadWhole, SessionWhole, WriteWhole DEF Thread
<1>2. CASE World
  BY <1>2, WorldWhole
<1>3. CASE UNCHANGED vars
  BY <1>3 DEF vars, Whole
<1> QED
  BY <1>1, <1>2, <1>3 DEF Next, Exited

\* The server gets the whole body with every request.
THEOREM BodyWholeHolds == Spec => []BodyWhole
<1>1. Init => Types /\ Whole
  BY InitTypes, InitWhole
<1>2. (Types /\ Whole) /\ [Next]_vars => (Types /\ Whole)'
  BY NextTypes, NextWhole
<1>3. Whole => BodyWhole
  BY DEF Whole, BodyWhole
<1> QED
  BY <1>1, <1>2, <1>3, PTL DEF Spec

-----------------------------------------------------------------------------
(* Whose turn it is, and how many requests the server has seen.            *)

\* Client and server take turns: while the server has a request or its answer is on its way,
\* no HEADERS are queued, and at most one frame that ends the stream is on its way.
Turns ==
  /\ Single
  /\ srv \in {"recv", "owes"} => ~Flying(Ends)
  /\ srv \in {"recv", "owes"} \/ Flying(Ends) => ~Has(out_q, Heads)
  /\ Has(out_q, Heads) => ses.stream # "half_remote"

\* The requests the server has seen, and the one that is queued, are the completed ones and
\* the open one.
Sent ==
  /\ seen + (IF Has(out_q, Heads) THEN 1 ELSE 0)
       <= m_num_reqs + (IF ses.stream = "none" THEN 0 ELSE 1)
  /\ Has(out_q, Heads) => ReqsPerConn = -1 \/ seen < ReqsPerConn

\* Nothing received, nothing in flight.
LEMMA NothingFlies ==
  ASSUME rx = << >>, pend = << >>
  PROVE  Single /\ \A F : ~Flying(F)
  BY DEF Single, Flying, Has

\* ... in the next state.
LEMMA NothingFliesNext ==
  ASSUME rx' = << >>, pend' = << >>
  PROVE  Single' /\ \A F : ~Flying(F)'
  BY DEF Single, Flying, Has

\* Nothing of the handshake ends a stream or announces that the server leaves.
LEMMA HandshakeFlies ==
  ASSUME pend' = << >>, rx' = <<<<"hello">>, <<"SETTINGS">>>> \/ rx' = <<<<"SETTINGS">>>>
  PROVE  Single' /\ ~Flying(Ends)' /\ ~Flying({"GOAWAY"})'
<1>1. \A i \in 1 .. Len(rx') : Len(rx'[i]) = 1 /\ rx'[i][1] \notin Ends \cup {"GOAWAY"}
  <2>1. CASE rx' = <<<<"hello">>, <<"SETTINGS">>>>
    BY <2>1 DEF Ends
  <2>2. CASE rx' = <<<<"SETTINGS">>>>
    BY <2>2 DEF Ends
  <2> QED
    BY <2>1, <2>2
<1>2. \A i \in 1 .. Len(rx') : ~Has(rx'[i], Ends) /\ ~Has(rx'[i], {"GOAWAY"})
  BY <1>1, HasFew
<1>3. \A F : ~Has(pend', F)
  BY DEF Has
<1>4. \A i \in 1 .. Len(rx') : \A j, k \in 1 .. Len(rx'[i]) : j = k
  BY <1>1
<1> QED
  BY <1>2, <1>3, <1>4 DEF Single, Flying

\* What flies depends on what was received only.
LEMMA SameFlies ==
  ASSUME UNCHANGED <<rx, pend>>
  PROVE  /\ \A F : Flying(F)' <=> Flying(F)
         /\ Single' <=> Single
  BY DEF Flying, Single

\* An action that reads nothing, sends nothing and lets the server receive nothing.
LEMMA SameTurns ==
  ASSUME Turns, Sent, UNCHANGED <<rx, pend, out_q, ses, seen, m_num_reqs>>,
         srv' \in {"recv", "owes"} => srv \in {"recv", "owes"}
  PROVE  Turns' /\ Sent'
  BY SameFlies DEF Turns, Sent

\* Most steps leave the turn alone.
LEMMA LoopTurns ==
  ASSUME Types, Turns, Sent,
         \/ RunExit \/ StartNone \/ EvrWait \/ EvrAfterRead
         \/ SmTlsConnect \/ SmTlsAgain \/ SmTlsFails \/ SmReadAgain \/ SmWriteNothing
         \/ Establish \/ Drain \/ CloseLeaving \/ CloseEarly \/ CloseHandshake \/ Reset
  PROVE  Turns' /\ Sent'
<1>1. UNCHANGED <<rx, pend, out_q, ses, seen, m_num_reqs>>
  BY DEF RunExit, StartNone, EvrWait, EvrAfterRead, SmTlsConnect, SmTlsAgain, SmTlsFails,
         SmReadAgain, SmWriteNothing, Establish, Drain, CloseLeaving, CloseEarly, CloseHandshake,
         Reset, Close, worldUnchanged
<1>2. srv' \in {srv, "hello"}
  BY DEF RunExit, StartNone, EvrWait, EvrAfterRead, SmTlsConnect, SmTlsAgain, SmTlsFails,
         SmReadAgain, SmWriteNothing, Establish, Drain, CloseLeaving, CloseEarly, CloseHandshake,
         Reset, Close
<1> QED
  BY <1>1, <1>2, SameTurns

\* While there is no session, nothing is queued and nothing flies but the handshake.
LEMMA SessionTurns ==
  ASSUME Types, Turns, Sent, StartConn \/ SmReadEof \/ SmDone \/ Hello
  PROVE  Turns' /\ Sent'
<1>1. CASE StartConn
  <2>1. UNCHANGED <<rx, pend, out_q, ses, seen, srv>> /\ nc_state = "none" /\ m_num_reqs' = 0
    BY <1>1 DEF StartConn
  <2>2. m_num_reqs = 0
    BY <2>1 DEF Types, Handshake
  <2> QED
    BY <2>1, <2>2, SameTurns
<1>2. CASE SmReadEof
  <2>1. /\ UNCHANGED <<rx, pend, out_q, seen, m_num_reqs, srv>>
        /\ ses' = [ses EXCEPT !.closed = 0] /\ ses \in Session
    BY <1>2, TypeParts DEF SmReadEof, QueueTypes
  <2>2. ses'.stream = ses.stream
    BY <2>1 DEF Session
  <2> QED
    BY <2>1, <2>2, SameFlies DEF Turns, Sent
<1>3. CASE SmDone
  <2>1. rx' = << >> /\ pend' = << >> /\ out_q' = << >> /\ seen' = 0 /\ m_num_reqs' = 0 /\ srv' = "idle"
        /\ ses'.stream = "none"
    BY <1>3 DEF SmDone, NewSession
  <2>2. ~Has(out_q', Heads)
    BY <2>1 DEF Has
  <2> QED
    BY <2>1, <2>2, NothingFliesNext DEF Turns, Sent
<1>4. CASE Hello
  <2>1. srv = "hello" /\ srv' = "idle" /\ rx' = <<<<"hello">>, <<"SETTINGS">>>>
        /\ UNCHANGED <<pend, out_q, ses, seen, m_num_reqs>>
    BY <1>4 DEF Hello, worldUnchanged
  <2>2. pend = << >>
    BY <2>1, TypeParts DEF ConnTypes, Handshake
  <2> QED
    BY <2>1, <2>2, HandshakeFlies DEF Turns, Sent
<1> QED
  BY <1>1, <1>2, <1>3, <1>4

\* The first request of a connection.
LEMMA ConnectedTurns ==
  ASSUME Types, SmConnected
  PROVE  /\ Turns' /\ Sent'
         /\ ~Flying(Ends)' /\ ~Flying({"GOAWAY"})' /\ ses'.stream \in {"open", "half_local"} /\ srv' = "idle"
<1> DEFINE t == after_send(submit(NewSession))
<1>1. rx' = <<<<"SETTINGS">>>> /\ srv = "idle" /\ seen = 0 /\ pend = << >> /\ m_num_reqs = 0
  BY ConnectedTypes DEF SmConnected, Types, Handshake
<1>2. /\ UNCHANGED <<srv, seen, pend, m_num_reqs>> /\ ses' = t
  BY DEF SmConnected
<1>3. t.stream \in {"open", "half_local"}
  <2>1. NewSession \in Session /\ NewSession.body_q = -1
    BY NewSessionType DEF NewSession
  <2> QED
    BY <2>1, RequestQueue
<1> HIDE DEF t
<1>4. Single' /\ ~Flying(Ends)' /\ ~Flying({"GOAWAY"})'
  BY <1>1, <1>2, HandshakeFlies
<1>5. Turns'
  BY <1>1, <1>2, <1>3, <1>4 DEF Turns
<1>6. Sent'
  BY <1>1, <1>2, <1>3, OptionsAssumption DEF Sent
<1> QED
  BY <1>1, <1>2, <1>3, <1>4, <1>5, <1>6

\* What a read does to the stream, by what flew: only END or RST makes room for the next request.
LEMMA ReadStream ==
  ASSUME Types, Turns, NEW k, NEW n, Receive(k, n)
  PROVE  LET ended_ == \E j \in 1 .. k : record[j] \in Ends
             t == received(k)
         IN
         /\ n = (IF ses.stream # "none" /\ t.stream = "none" THEN 1 ELSE 0)
         /\ t \in Session /\ ses \in Session
         /\ ses.stream = "none" => t.stream = "none"
         /\ ended_ => Flying(Ends) /\ ~Flying(Ends)' /\ srv \notin {"recv", "owes"}
         /\ ~ended_ => t.stream = ses.stream \/ (t.stream = "none" /\ t.goaway)
         /\ ~ended_ /\ ~Flying({"GOAWAY"}) => t.stream = ses.stream
         /\ ended_ /\ ses.stream = "half_local" => t.stream = "none"
         /\ Single' /\ \A F : Flying(F)' => Flying(F)
         /\ UNCHANGED <<srv, seen, full, leaving>> /\ m_num_reqs' = m_num_reqs + n
<1>1. /\ rx \in Seq(Seq(SrvFrames)) /\ pend \in Seq(SrvFrames) /\ Lengths /\ readable
      /\ k \in 1 .. Len(record) /\ Takes(k)
      /\ k \in 1 .. 2 /\ k <= Len(record) /\ record \in Seq(SrvFrames)
      /\ ses \in Session /\ received(k) \in Session
      /\ n = (IF ses.stream # "none" /\ received(k).stream = "none" THEN 1 ELSE 0)
      /\ m_num_reqs' = m_num_reqs + n
  BY ReceiveTypes
<1>2. /\ \A F : Flying(F)' => Flying(F)
      /\ \A F : (\E j \in 1 .. k : record[j] \in F) => Flying(F)
      /\ Single => Single' /\ ((\E j \in 1 .. k : record[j] \in Ends) => ~Flying(Ends)')
  BY <1>1, ReadFlying
<1>3. (\E j \in 1 .. k : record[j] = "GOAWAY") => Flying({"GOAWAY"})
  BY <1>2
<1>4. UNCHANGED <<srv, seen, full, leaving>>
  BY DEF Receive
<1> QED
  BY <1>1, <1>2, <1>3, <1>4, Received DEF Turns

\* A request follows the END or RST of the last one.
LEMMA ReadTurns ==
  ASSUME Types, Turns, Sent, NEW k, NEW n,
         SmReadFlip(k, n) \/ SmReadOn(k, n) \/ SmReadLast(k, n) \/ SmReadNext(k, n)
  PROVE  Turns' /\ Sent'
<1> DEFINE ended_ == \E j \in 1 .. k : record[j] \in Ends
           t == received(k)
<1>1. Receive(k, n)
  BY DEF SmReadFlip, SmReadOn, SmReadLast, SmReadNext
<1>2. /\ n = (IF ses.stream # "none" /\ t.stream = "none" THEN 1 ELSE 0)
      /\ t \in Session
      /\ ses.stream = "none" => t.stream = "none"
      /\ ended_ => Flying(Ends) /\ ~Flying(Ends)' /\ srv \notin {"recv", "owes"}
      /\ ~ended_ => t.stream = ses.stream \/ (t.stream = "none" /\ t.goaway)
      /\ Single' /\ (Flying(Ends)' => Flying(Ends))
      /\ srv' = srv /\ seen' = seen /\ m_num_reqs' = m_num_reqs + n
  BY <1>1, ReadStream
<1>3. seen \in Nat /\ m_num_reqs \in Nat
  BY TypeParts DEF ServerTypes, ConnTypes
<1>4. /\ forget_body(t) \in Session /\ forget_body(t).body_q = -1
      /\ forget_body(t).stream = t.stream /\ forget_body(t).goaway = t.goaway
  BY <1>2, ForgetBody
<1> HIDE DEF ended_, t
<1>5. CASE SmReadFlip(k, n) \/ SmReadOn(k, n)
  <2>1. out_q' = out_q /\ ses' = t
    BY <1>5 DEF SmReadFlip, SmReadOn, t
  <2>2. Has(out_q, Heads) => t.stream # "half_remote"
    BY <1>2 DEF Turns
  <2>3. Turns'
    BY <1>2, <2>1, <2>2 DEF Turns
  <2>4. Sent'
    BY <1>2, <1>3, <2>1 DEF Sent
  <2> QED
    BY <2>3, <2>4
<1>6. CASE SmReadLast(k, n)
  <2>1. out_q' = << >> /\ out_q = << >> /\ ses' = forget_body(t) /\ n > 0
    BY <1>6 DEF SmReadLast, t
  <2>2. ~Has(out_q, Heads)
    BY <2>1 DEF Has
  <2>3. Turns'
    BY <1>2, <2>1, <2>2 DEF Turns
  <2>4. Sent'
    BY <1>2, <1>3, <1>4, <2>1, <2>2 DEF Sent
  <2> QED
    BY <2>3, <2>4
<1>7. CASE SmReadNext(k, n)
  <2> DEFINE s == forget_body(t)
             u == after_send(submit(s))
  <2>1. /\ out_q = << >> /\ n > 0 /\ again(s, n) /\ ses' = [u EXCEPT !.closed = 0]
        /\ out_q' = srequest_frames(s)
    BY <1>7 DEF SmReadNext, t
  <2>2. ~Has(out_q, Heads)
    BY <2>1 DEF Has
  <2>3. u \in Session /\ u.stream \in {"open", "half_local"} /\ Has(srequest_frames(s), Heads)
    BY <1>4, RequestQueue
  <2>4. ~s.goaway /\ (ReqsPerConn = -1 \/ m_num_reqs + n < ReqsPerConn)
    BY <2>1 DEF again, can_reuse
  <2>5. ended_
    BY <1>2, <1>4, <2>1, <2>4
  <2> HIDE DEF u, s
  <2>6. ses'.stream \in {"open", "half_local"}
    BY <2>1, <2>3 DEF Session
  <2>7. Turns'
    BY <1>2, <2>5, <2>6 DEF Turns
  <2>8. seen <= m_num_reqs + n
    BY <1>2, <1>3, <2>1, <2>2 DEF Sent
  <2>9. Sent'
    BY <1>2, <1>3, <2>1, <2>3, <2>4, <2>6, <2>8, OptionsAssumption DEF Sent
  <2> QED
    BY <2>7, <2>9
<1> QED
  BY <1>5, <1>6, <1>7

\* What swrite does to the queue and the session.
LEMMA SwriteStream ==
  ASSUME Types, Whole, Turns, swrite
  PROVE  LET n == IF ses.stream # "none" /\ ses'.stream = "none" THEN 1 ELSE 0 IN
         /\ ses \in Session /\ ses' \in Session /\ queued \in Seq(Frames)
         /\ Queue(queued, ses')
         /\ Has(queued, Heads) <=> Has(out_q, Heads)
         /\ Has(queued, Heads) => n = 0
         /\ m_num_reqs' = m_num_reqs + n /\ request_complete(n)
         /\ m_num_in_progress' = in_progress_left(n)
         /\ ses'.stream = "none" => ses.stream \in {"none", "half_remote"}
         /\ ses'.stream = "half_remote" => ses.stream = "half_remote"
         /\ ses.stream = "half_local" => ses'.stream = "half_local"
         /\ ses.stream = "half_local" /\ ~Has(out_q, Data) => ~Has(queued, Data)
<1> DEFINE n == IF ses.stream # "none" /\ ses'.stream = "none" THEN 1 ELSE 0
           t == after_send(ses)
<1>1. ses \in Session /\ out_q \in Seq(Frames)
  BY TypeParts DEF QueueTypes
<1>2. /\ ses' = t /\ request_complete(n) /\ m_num_in_progress' = in_progress_left(n)
  BY DEF swrite
<1>3. t \in Session /\ queued \in Seq(Frames) /\ Queue(queued, t)
      /\ (Has(queued, Heads) <=> Has(out_q, Heads))
      /\ DataFrames(queued) = DataFrames(out_q) + may_send(ses)
  BY <1>1, QueueSends, SendsAdds, AfterSend DEF queued, Whole
<1>4. may_send(ses) \in Nat /\ body_left(ses) \in Nat /\ (ses.stream \notin Sending => may_send(ses) = 0)
  BY <1>1, MaySend, BodyLeft
<1>5. /\ may_send(ses) = 0 => t.stream = ses.stream
      /\ may_send(ses) > 0 /\ may_send(ses) < body_left(ses) => t.stream = ses.stream
      /\ may_send(ses) > 0 /\ may_send(ses) >= body_left(ses)
           => t.stream = IF ses.stream = "open" THEN "half_local" ELSE "none"
  BY <1>1, AfterSend
<1> HIDE DEF t
<1>6. ses.stream \in {"none", "open", "half_local", "half_remote"}
  BY <1>1 DEF Session
<1>7. /\ t.stream = "none" => ses.stream \in {"none", "half_remote"}
      /\ t.stream = "half_remote" => ses.stream = "half_remote"
      /\ ses.stream = "half_local" => t.stream = "half_local" /\ may_send(ses) = 0
  BY <1>4, <1>5, <1>6 DEF Sending
<1>8. Has(out_q, Heads) => ses.stream # "half_remote"
  BY DEF Turns
<1>9. ses.stream = "half_local" /\ ~Has(out_q, Data) => ~Has(queued, Data)
  <2> SUFFICES ASSUME ses.stream = "half_local", ~Has(out_q, Data) PROVE ~Has(queued, Data)
    OBVIOUS
  <2>1. DataFrames(out_q) = 0
    BY <1>1, DataFinite
  <2>2. DataFrames(queued) = 0
    BY <1>3, <1>7, <2>1
  <2> QED
    BY <1>3, <2>2, DataFinite
<1>10. m_num_reqs' = m_num_reqs + n
  BY <1>2 DEF request_complete
<1> HIDE DEF n
<1>11. Has(queued, Heads) => n = 0
  BY <1>2, <1>3, <1>7, <1>8 DEF n
<1> QED
  BY <1>1, <1>2, <1>3, <1>7, <1>9, <1>10, <1>11 DEF n

\* The frame behind the control frames of a queue may be HEADERS, no other is.
LEMMA HeadsFirst ==
  ASSUME NEW q \in Seq(Frames), q # << >>, NEW s, Queue(q, s), Head(q) \notin Ctl
  PROVE  ~Has(Tail(q), Heads)
<1> SUFFICES ASSUME NEW i \in 1 .. Len(Tail(q)), Tail(q)[i] \in Heads PROVE FALSE
  BY DEF Has
<1>1. i + 1 \in 1 .. Len(q) /\ q[i + 1] \in Heads /\ 1 \in 1 .. (i + 1) - 1 /\ q[1] = Head(q)
  OBVIOUS
<1> QED
  BY <1>1 DEF Queue

\* What a write does that HEADERS are lost or delivered by: the request becomes the server's.
LEMMA WriteStep ==
  ASSUME Types, Whole, Turns, SmWrite
  PROVE  LET f == Head(queued) IN
         /\ swrite /\ queued \in Seq(Frames) /\ queued # << >> /\ out_q' = Tail(queued) /\ f \in Frames
         /\ UNCHANGED <<rx, pend, leaving, nc_state>> /\ pc = "sm" /\ pc' = "sm" /\ mode' = "WRITE"
         /\ \/ UNCHANGED <<seen, srv>>
            \/ f \in Heads /\ leaving /\ srv' = "gone" /\ seen' = seen
            \/ f \in Heads /\ seen' = seen + 1 /\ srv' = (IF f = "HEADERS" THEN "recv" ELSE "owes")
            \/ f = "DATA_END" /\ srv = "recv" /\ srv' = "owes" /\ seen' = seen
         /\ full' => f \in Data
         /\ f \notin Ctl => ~Has(out_q', Heads)
         /\ \A F : Has(queued, F) <=> f \in F \/ Has(out_q', F)
<1> DEFINE f == Head(queued)
<1>1. /\ swrite /\ queued # << >> /\ out_q' = Tail(queued)
      /\ UNCHANGED <<rx, pend, leaving, nc_state>> /\ pc = "sm" /\ pc' = "sm" /\ mode' = "WRITE"
  BY DEF SmWrite, Writing, GotoTop
<1>2. queued \in Seq(Frames) /\ Queue(queued, ses')
  BY <1>1, SwriteStream
<1>3. f \in Frames
  BY <1>1, <1>2
<1>4. Deliver(f) \/ UNCHANGED <<seen, srv>>
  BY DEF SmWrite
<1>5. full' => f \in Data
  BY DEF SmWrite, Data
<1>6. f \notin Ctl => ~Has(out_q', Heads)
  BY <1>1, <1>2, HeadsFirst
<1>7. \A F : Has(queued, F) <=> f \in F \/ Has(out_q', F)
  BY <1>1, <1>2, HasTail
<1> HIDE DEF f
<1>8. \/ UNCHANGED <<seen, srv>>
      \/ f \in Heads /\ leaving /\ srv' = "gone" /\ seen' = seen
      \/ f \in Heads /\ seen' = seen + 1 /\ srv' = (IF f = "HEADERS" THEN "recv" ELSE "owes")
      \/ f = "DATA_END" /\ srv = "recv" /\ srv' = "owes" /\ seen' = seen
  BY <1>3, <1>4 DEF Deliver, Frames, Heads
<1> QED
  BY <1>1, <1>2, <1>3, <1>5, <1>6, <1>7, <1>8 DEF f

\* HEADERS that reach the server make it its turn.
LEMMA WriteTurns ==
  ASSUME Types, Whole, Turns, Sent, SmWriteAgain \/ SmWrite \/ SmIoError
  PROVE  Turns' /\ Sent'
<1>1. seen \in Nat /\ m_num_reqs \in Nat
  BY TypeParts DEF ServerTypes, ConnTypes
<1>2. Single' /\ (Flying(Ends)' <=> Flying(Ends))
  <2>1. UNCHANGED <<rx, pend>>
    BY DEF SmWriteAgain, SmWrite, SmIoError
  <2> QED
    BY <2>1, SameFlies DEF Turns
<1> DEFINE n == IF ses.stream # "none" /\ ses'.stream = "none" THEN 1 ELSE 0
<1>3. swrite => /\ Has(queued, Heads) <=> Has(out_q, Heads)
                /\ Has(queued, Heads) => n = 0
                /\ m_num_reqs' = m_num_reqs + n
                /\ ses'.stream = "none" => ses.stream \in {"none", "half_remote"}
                /\ ses.stream = "none" => ses'.stream = "none"
                /\ ses'.stream = "half_remote" => ses.stream = "half_remote"
  <2> SUFFICES ASSUME swrite PROVE ses.stream = "none" => ses'.stream = "none"
    BY SwriteStream
  <2>1. ses \in Session
    BY SwriteStream
  <2>2. ses.stream = "none" => may_send(ses) = 0
    BY <2>1, MaySend DEF Sending
  <2> QED
    BY <2>1, <2>2, AfterSend DEF swrite
<1>4. CASE SmWriteAgain \/ SmIoError
  <2>1. UNCHANGED <<seen, srv>>
    BY <1>4 DEF SmWriteAgain, SmIoError
  <2>2. (swrite /\ out_q' = queued) \/ UNCHANGED <<ses, out_q, m_num_reqs>>
    BY <1>4 DEF SmWriteAgain, SmIoError
  <2>3. Turns'
    BY <1>2, <1>3, <2>1, <2>2 DEF Turns
  <2>4. Sent'
    BY <1>1, <1>3, <2>1, <2>2 DEF Sent
  <2> QED
    BY <2>3, <2>4
<1>5. CASE SmWrite
  <2> DEFINE f == Head(queued)
  <2>1. /\ swrite /\ f \in Frames
        /\ \/ UNCHANGED <<seen, srv>>
           \/ f \in Heads /\ leaving /\ srv' = "gone" /\ seen' = seen
           \/ f \in Heads /\ seen' = seen + 1 /\ srv' = (IF f = "HEADERS" THEN "recv" ELSE "owes")
           \/ f = "DATA_END" /\ srv = "recv" /\ srv' = "owes" /\ seen' = seen
        /\ f \notin Ctl => ~Has(out_q', Heads)
        /\ Has(queued, Heads) <=> f \in Heads \/ Has(out_q', Heads)
    BY <1>5, WriteStep
  <2> HIDE DEF f
  <2>2. Turns'
    BY <1>2, <1>3, <2>1 DEF Turns, Heads, Ctl
  <2>3. Sent'
    BY <1>1, <1>3, <2>1 DEF Sent, Heads, Ctl
  <2> QED
    BY <2>2, <2>3
<1> QED
  BY <1>4, <1>5

\* A frame that ends the stream is sent once for each request.
LEMMA AnswerTurns ==
  ASSUME Types, Turns, Sent, Credit \/ AnswerData \/ AnswerEnd \/ Rst \/ GoAway
  PROVE  Turns' /\ Sent'
<1>1. PICK f \in SrvFrames :
        /\ Send(f)
        /\ f \in Ends => srv \in {"recv", "owes"} /\ srv' = "idle"
        /\ f \notin Ends => srv' = srv
  BY DEF Credit, AnswerData, AnswerEnd, Rst, GoAway, ready_to_answer, SrvFrames, Ends
<1>2. /\ UNCHANGED <<pend, out_q, ses, seen, m_num_reqs>>
      /\ rx' \in Records(f) /\ rx \in Seq(Seq(SrvFrames \cup {"hello"})) /\ Lengths
      /\ f \in SrvFrames \cup {"hello"}
  BY <1>1, TypeParts DEF Send, worldUnchanged, InputTypes
<1>3. Single'
  BY <1>1, <1>2, SendSingle DEF Turns
<1>4. Flying(Ends)' <=> Flying(Ends) \/ f \in Ends
  BY <1>2, SendFlying
<1> QED
  BY <1>1, <1>2, <1>3, <1>4 DEF Turns, Sent

\* At first nobody has one.
LEMMA InitTurns == Init => Turns /\ Sent
<1> SUFFICES ASSUME Init PROVE Turns /\ Sent
  OBVIOUS
<1>1. rx = << >> /\ pend = << >> /\ srv = "idle" /\ seen = 0 /\ m_num_reqs = 0
  BY DEF Init
<1>2. ~Has(out_q, Heads) /\ ses.stream = "none"
  BY DEF Init, Has, NewSession
<1> QED
  BY <1>1, <1>2, NothingFlies DEF Turns, Sent

\* Every step keeps the turns, and the number of requests sent.
LEMMA NextTurns ==
  ASSUME Types, Whole, Turns, Sent, [Next]_vars
  PROVE  Turns' /\ Sent'
<1>1. CASE Thread
  BY <1>1, LoopTurns, SessionTurns, ConnectedTurns, ReadTurns, WriteTurns DEF Thread
<1>2. CASE World
  BY <1>2, LoopTurns, SessionTurns, AnswerTurns DEF World
<1>3. CASE UNCHANGED vars
  BY <1>3, SameTurns DEF vars
<1> QED
  BY <1>1, <1>2, <1>3 DEF Next, Exited

-----------------------------------------------------------------------------
(* The accounting.                                                         *)

\* What Conservation needs to be inductive: the counters are numbers, so that none in
\* progress means that the count left alone is right.
Counts ==
  /\ m_reqs \in Nat /\ m_resp \in Nat /\ m_num_in_progress \in Nat
  /\ Conservation

\* Nothing is counted at first.
LEMMA InitCounts == Init => Counts
  BY DEF Init, Counts, Conservation

\* A call that closed n streams counts as many answers as it takes out of progress.
LEMMA RequestComplete ==
  ASSUME Counts, NEW n \in 0 .. 1, request_complete(n)
  PROVE  /\ m_resp' \in Nat /\ in_progress_left(n) \in Nat
         /\ m_reqs = m_resp' + in_progress_left(n)
  BY DEF Counts, Conservation, request_complete, in_progress_left

\* swrite closes one stream or none.
LEMMA SwriteCounts ==
  ASSUME Counts, swrite, UNCHANGED m_reqs
  PROVE  Counts'
<1> DEFINE n == IF ses.stream # "none" /\ after_send(ses).stream = "none" THEN 1 ELSE 0
<1>1. n \in 0 .. 1 /\ request_complete(n) /\ m_num_in_progress' = in_progress_left(n)
  BY DEF swrite
<1> HIDE DEF n
<1> QED
  BY <1>1, RequestComplete DEF Counts, Conservation

\* A read that closed n streams, of which the next request may follow.
LEMMA ReceiveCounts ==
  ASSUME Counts, NEW k, NEW n \in 0 .. 1,
         SmReadFlip(k, n) \/ SmReadOn(k, n) \/ SmReadLast(k, n) \/ SmReadNext(k, n)
  PROVE  Counts'
<1>1. request_complete(n)
  BY DEF SmReadFlip, SmReadOn, SmReadLast, SmReadNext, Receive
<1>2. CASE SmReadFlip(k, n) \/ SmReadLast(k, n)
  BY <1>1, <1>2, RequestComplete DEF SmReadFlip, SmReadLast, Counts, Conservation
<1>3. CASE SmReadOn(k, n)
  BY <1>1, <1>3 DEF SmReadOn, Counts, Conservation, request_complete
<1>4. CASE SmReadNext(k, n)
  BY <1>1, <1>4, RequestComplete DEF SmReadNext, Counts, Conservation
<1> QED
  BY <1>2, <1>3, <1>4

\* Every step of the worker keeps the counters.
LEMMA ThreadCounts == Counts /\ Thread => Counts'
<1> SUFFICES ASSUME Counts, Thread PROVE Counts'
  OBVIOUS
<1>1. CASE RunExit \/ StartConn \/ StartNone \/ EvrWait \/ EvrAfterRead
  BY <1>1 DEF RunExit, StartConn, StartNone, EvrWait, EvrAfterRead, Counts, Conservation
<1>2. CASE SmTlsConnect \/ SmTlsAgain \/ SmTlsFails
  BY <1>2 DEF SmTlsConnect, SmTlsAgain, SmTlsFails, Counts, Conservation
<1>3. CASE SmConnected
  BY <1>3 DEF SmConnected, Counts, Conservation
<1>4. CASE SmReadAgain \/ SmReadEof \/ SmWriteNothing \/ SmDone
  BY <1>4 DEF SmReadAgain, SmReadEof, SmWriteNothing, SmDone, Counts, Conservation
<1>5. CASE \E k \in 1 .. 2, n \in 0 .. 1 :
             SmReadFlip(k, n) \/ SmReadOn(k, n) \/ SmReadLast(k, n) \/ SmReadNext(k, n)
  BY <1>5, ReceiveCounts
<1>6. CASE SmWriteAgain \/ SmWrite
  BY <1>6, SwriteCounts DEF SmWriteAgain, SmWrite
<1>7. CASE SmIoError
  <2>1. UNCHANGED <<m_reqs, m_resp, m_num_in_progress>> \/ (swrite /\ UNCHANGED m_reqs)
    BY <1>7 DEF SmIoError
  <2> QED
    BY <2>1, SwriteCounts DEF Counts, Conservation
<1> QED
  BY <1>1, <1>2, <1>3, <1>4, <1>5, <1>6, <1>7 DEF Thread

\* The kernel and the server do not touch the counters.
LEMMA WorldCounts == Counts /\ World => Counts'
<1> SUFFICES ASSUME World PROVE UNCHANGED counters
  BY DEF Counts, Conservation
<1> QED
  BY DEF World, Establish, Drain, Hello, Credit, AnswerData, AnswerEnd, Rst, GoAway, CloseLeaving,
         CloseEarly, CloseHandshake, Close, Reset, Send, worldUnchanged

\* Every request issued is answered or in progress: request_complete counts a stream once,
\* whether the server's END, its reset, GOAWAY or the last frame we send closes it.
THEOREM ConservationHolds == Spec => []Conservation
<1>1. Init => Counts
  BY InitCounts
<1>2. Counts /\ [Next]_vars => Counts'
  BY ThreadCounts, WorldCounts DEF Next, Exited, vars, Counts, Conservation
<1>3. Counts => Conservation
  BY DEF Counts
<1> QED
  BY <1>1, <1>2, <1>3, PTL DEF Spec

-----------------------------------------------------------------------------
(* The refinement of LoadGen.                                              *)

\* The mapping's connections and what they have sent.
mapped == [c \in {"conn"} |-> conn_state]
transmitted == [c \in {"conn"} |-> seen]

\* what a step leaves alone when it is no step of LoadGen
Invisible ==
  /\ mapped' = mapped /\ transmitted' = transmitted /\ UNCHANGED <<m_reqs, m_resp>>
  /\ (pc' = "exited") = (pc = "exited")

\* Such a step stutters.
LEMMA InvisibleStutters == Invisible => UNCHANGED LG!vars
  BY DEF Invisible, mapped, transmitted, LG!vars

\* A step that moves the connection on moves its image on.
LEMMA ConnMoves ==
  /\ mapped["conn"] = conn_state /\ transmitted["conn"] = seen
  /\ mapped' = [mapped EXCEPT !["conn"] = conn_state']
  /\ transmitted' = [transmitted EXCEPT !["conn"] = seen']
  /\ conn_state' = conn_state => mapped' = mapped
  /\ seen' = seen => transmitted' = transmitted
  BY DEF mapped, transmitted

\* The initial state is LoadGen's.
LEMMA InitRefines == Init => LG!Init
  BY DEF Init, LG!Init, conn_state

\* Making a connection is LoadGen's Open.
LEMMA StartRefines ==
  ASSUME Types, StartConn
  PROVE  LG!Open("conn")
<1>1. LG!open = {}
  BY DEF StartConn, LG!open, conn_state
<1>2. LG!Cardinality({}) = 0
  <2>1. LG!Cardinality({}) = Cardinality({})
    BY DEF LG!Cardinality, Cardinality
  <2> QED
    BY <2>1, FS_EmptySet
<1>3. conn_state = "closed" /\ conn_state' = "opening"
  BY DEF StartConn, conn_state
<1>4. UNCHANGED <<seen, m_reqs, m_resp>> /\ pc # "exited" /\ pc' # "exited"
  BY DEF StartConn
<1> QED
  BY <1>1, <1>2, <1>3, <1>4, ConnMoves DEF LG!Open, mapped, transmitted

\* Deleting it is its Drop.
LEMMA DoneRefines ==
  ASSUME Types, SmDone
  PROVE  LG!Drop("conn")
<1>1. conn_state = "used" /\ conn_state' = "closed"
  BY DEF SmDone, conn_state
<1>2. seen' = 0 /\ UNCHANGED <<m_reqs, m_resp>> /\ pc # "exited" /\ pc' # "exited"
  BY DEF SmDone, ReturnNotOk
<1> QED
  BY <1>1, <1>2, ConnMoves DEF LG!Drop, mapped, transmitted

\* The request with which SSL_connect ends is First.
LEMMA ConnectedRefines ==
  ASSUME Types, SmConnected
  PROVE  LG!First("conn")
<1>1. conn_state = "opening" /\ conn_state' = "used"
  BY DEF SmConnected, conn_state
<1>2. UNCHANGED <<seen, m_resp>> /\ m_reqs' = m_reqs + 1 /\ pc # "exited" /\ pc' # "exited"
  BY DEF SmConnected, GotoTop
<1> QED
  BY <1>1, <1>2, ConnMoves DEF LG!First, mapped, transmitted

\* A call that closed n streams is Answered, or nothing if no answer was due.
LEMMA CompleteRefines ==
  ASSUME Types, Counts, NEW n \in 0 .. 1, request_complete(n),
         conn_state = "used", conn_state' = "used", UNCHANGED <<seen, m_reqs>>,
         pc # "exited", pc' # "exited"
  PROVE  LG!Answered("conn") \/ Invisible
<1>1. m_num_in_progress = m_reqs - m_resp /\ m_reqs \in Nat /\ m_resp \in Nat
  BY DEF Counts, Conservation
<1>2. m_resp' = (IF m_num_in_progress > 0 THEN m_resp + n ELSE m_resp)
  BY DEF request_complete
<1>3. CASE n = 1 /\ m_num_in_progress > 0
  <2>1. m_resp' = m_resp + 1 /\ m_reqs - m_resp > 0
    BY <1>1, <1>2, <1>3
  <2> QED
    BY <2>1, ConnMoves DEF LG!Answered, LG!pending, mapped, transmitted
<1>4. CASE ~(n = 1 /\ m_num_in_progress > 0)
  <2>1. m_resp' = m_resp
    BY <1>1, <1>2, <1>4
  <2> QED
    BY <2>1, ConnMoves DEF Invisible
<1> QED
  BY <1>3, <1>4

\* The request that follows a complete one is Again.
LEMMA ReadRefines ==
  ASSUME Types, Counts, NEW k \in 1 .. 2, NEW n \in 0 .. 1,
         SmReadFlip(k, n) \/ SmReadOn(k, n) \/ SmReadLast(k, n) \/ SmReadNext(k, n)
  PROVE  LG!Answered("conn") \/ LG!Again("conn") \/ Invisible
<1>1. Receive(k, n)
  BY DEF SmReadFlip, SmReadOn, SmReadLast, SmReadNext
<1>2. /\ nc_state = "CONNECTED" /\ pc = "sm" /\ pc' = "sm" /\ seen' = seen /\ request_complete(n)
      /\ nc_state' \in {"CONNECTED", "DONE"}
  BY <1>1 DEF Receive, Reading, GotoTop, SmReadFlip, SmReadOn, SmReadLast, SmReadNext
<1>3. conn_state = "used" /\ conn_state' = "used"
  BY <1>2 DEF conn_state
<1>4. CASE SmReadFlip(k, n) \/ SmReadOn(k, n) \/ SmReadLast(k, n)
  <2>1. m_reqs' = m_reqs
    BY <1>4 DEF SmReadFlip, SmReadOn, SmReadLast
  <2> QED
    BY <1>2, <1>3, <2>1, CompleteRefines
<1>5. CASE SmReadNext(k, n)
  <2> DEFINE left == in_progress_left(n)
  <2>1. m_reqs' = m_reqs + 1 /\ can_request(left) /\ n = 1
    BY <1>5 DEF SmReadNext, again
  <2>2. left < 1 /\ NumToRequest > m_reqs + left
    BY <2>1 DEF can_request
  <2>3. left = (IF m_num_in_progress > 0 THEN m_num_in_progress - 1 ELSE 0)
    BY <2>1 DEF in_progress_left
  <2>4. m_resp' = (IF m_num_in_progress > 0 THEN m_resp + 1 ELSE m_resp)
    BY <1>2, <2>1 DEF request_complete
  <2> HIDE DEF left
  <2>5. /\ m_num_in_progress = m_reqs - m_resp /\ m_num_in_progress \in Nat
        /\ m_reqs \in Nat /\ m_resp \in Nat
    BY DEF Counts, Conservation
  <2>6. m_reqs - m_resp' = left /\ m_reqs + left < NumToRequest
    BY <2>2, <2>3, <2>4, <2>5, OptionsAssumption
  <2>7. m_resp' = IF m_reqs - m_resp > 0 THEN m_resp + 1 ELSE m_resp
    BY <2>4, <2>5
  <2> QED
    BY <1>2, <1>3, <2>1, <2>2, <2>6, <2>7, ConnMoves DEF LG!Again, LG!pending, mapped, transmitted
<1> QED
  BY <1>4, <1>5

\* The HEADERS that reach the server are Transmit; no stream is closed by the same step.
LEMMA WriteRefines ==
  ASSUME Types, Whole, Turns, Sent, Counts, SmWriteAgain \/ SmWrite \/ SmIoError
  PROVE  LG!Transmit("conn") \/ LG!Answered("conn") \/ Invisible
<1> DEFINE n == IF ses.stream # "none" /\ ses'.stream = "none" THEN 1 ELSE 0
<1>1. nc_state = "CONNECTED" /\ pc = "sm" /\ pc' # "exited" /\ nc_state' \in {"CONNECTED", "DONE"}
      /\ m_reqs' = m_reqs
  BY DEF SmWriteAgain, SmWrite, SmIoError, Writing, Reading, ReturnOk, GotoTop
<1>2. conn_state = "used" /\ conn_state' = "used"
  BY <1>1 DEF conn_state
<1>3. n \in 0 .. 1
  OBVIOUS
<1>4. swrite => request_complete(n) /\ (Has(queued, Heads) => n = 0)
                /\ (Has(queued, Heads) <=> Has(out_q, Heads))
  BY SwriteStream
<1> HIDE DEF n
<1>5. CASE (SmWriteAgain \/ SmIoError)
  <2>1. seen' = seen /\ (swrite \/ m_resp' = m_resp)
    BY <1>5 DEF SmWriteAgain, SmIoError
  <2>2. CASE swrite
    BY <1>1, <1>2, <1>3, <1>4, <2>1, <2>2, CompleteRefines
  <2>3. CASE m_resp' = m_resp
    BY <1>1, <1>2, <2>1, <2>3, ConnMoves DEF Invisible
  <2> QED
    BY <2>1, <2>2, <2>3
<1>6. CASE SmWrite
  <2>1. /\ swrite /\ seen' \in {seen, seen + 1}
        /\ seen' = seen + 1 /\ seen' # seen => Head(queued) \in Heads
        /\ Has(queued, Heads) <=> Head(queued) \in Heads \/ Has(out_q', Heads)
    BY <1>6, WriteStep DEF Heads
  <2>2. CASE seen' = seen
    BY <1>1, <1>2, <1>3, <1>4, <2>1, <2>2, CompleteRefines
  <2>3. CASE seen' = seen + 1 /\ seen' # seen
    <3>1. Has(out_q, Heads) /\ n = 0 /\ request_complete(n)
      BY <1>4, <2>1, <2>3
    <3>2. m_resp' = m_resp
      BY <3>1 DEF request_complete, Counts
    <3>3. ReqsPerConn = -1 \/ seen < ReqsPerConn
      BY <3>1 DEF Sent
    <3> QED
      BY <1>1, <1>2, <2>3, <3>2, <3>3, ConnMoves DEF LG!Transmit, mapped, transmitted
  <2> QED
    BY <2>1, <2>2, <2>3
<1> QED
  BY <1>5, <1>6

\* The worker ends where LoadGen says that it may.
LEMMA ExitRefines ==
  ASSUME Types, RunExit
  PROVE  LG!End
<1>1. UNCHANGED <<nc_state, seen, m_reqs, m_resp>> /\ pc # "exited" /\ pc' = "exited" /\ m_resp >= NumToRequest
  BY OptionsAssumption, TypeParts DEF RunExit, more, CounterTypes
<1> QED
  BY <1>1, OptionsAssumption DEF LG!End, conn_state

\* The other steps change nothing LoadGen sees.
LEMMA OthersRefine ==
  ASSUME Types,
         \/ StartNone \/ EvrWait \/ EvrAfterRead \/ SmTlsConnect \/ SmTlsAgain \/ SmTlsFails
         \/ SmReadAgain \/ SmReadEof \/ SmWriteNothing \/ World \/ UNCHANGED vars
  PROVE  Invisible
<1>1. UNCHANGED <<seen, m_reqs, m_resp>>
  BY DEF StartNone, EvrWait, EvrAfterRead, SmTlsConnect, SmTlsAgain, SmTlsFails, SmReadAgain,
         SmReadEof, SmWriteNothing, World, Establish, Drain, Hello, Credit, AnswerData, AnswerEnd, Rst,
         GoAway, CloseLeaving, CloseEarly, CloseHandshake, Close, Reset, Send, worldUnchanged, vars
<1>2. conn_state' = conn_state
  BY DEF conn_state, StartNone, EvrWait, EvrAfterRead, SmTlsConnect, SmTlsAgain, SmTlsFails,
         SmReadAgain, SmReadEof, SmWriteNothing, Reading, World, Establish, Drain, Hello, Credit,
         AnswerData, AnswerEnd, Rst, GoAway, CloseLeaving, CloseEarly, CloseHandshake, Close, Reset,
         Send, worldUnchanged, vars
<1>3. (pc' = "exited") = (pc = "exited")
  BY DEF StartNone, EvrWait, EvrAfterRead, SmTlsConnect, SmTlsAgain, SmTlsFails, SmReadAgain,
         SmReadEof, SmWriteNothing, Reading, Writing, ReturnOk, ReturnNotOk, GotoTop,
         World, Establish, Drain, Hello, Credit, AnswerData, AnswerEnd, Rst,
         GoAway, CloseLeaving, CloseEarly, CloseHandshake, Close, Reset, Send, worldUnchanged, vars
<1> QED
  BY <1>1, <1>2, <1>3, ConnMoves DEF Invisible

\* Every step is one of LoadGen's or stutters.
LEMMA StepRefines ==
  ASSUME Types, Whole, Turns, Sent, Counts, [Next]_vars
  PROVE  LG!Next \/ UNCHANGED LG!vars
<1>1. CASE RunExit \/ StartConn \/ SmDone \/ SmConnected
  BY <1>1, ExitRefines, StartRefines, DoneRefines, ConnectedRefines DEF LG!Next
<1>2. CASE \E k \in 1 .. 2, n \in 0 .. 1 :
             SmReadFlip(k, n) \/ SmReadOn(k, n) \/ SmReadLast(k, n) \/ SmReadNext(k, n)
  BY <1>2, ReadRefines, InvisibleStutters DEF LG!Next
<1>3. CASE SmWriteAgain \/ SmWrite \/ SmIoError
  BY <1>3, WriteRefines, InvisibleStutters DEF LG!Next
<1>4. CASE \/ StartNone \/ EvrWait \/ EvrAfterRead \/ SmTlsConnect \/ SmTlsAgain \/ SmTlsFails
           \/ SmReadAgain \/ SmReadEof \/ SmWriteNothing \/ World \/ UNCHANGED vars
  BY <1>4, OthersRefine, InvisibleStutters
<1> QED
  BY <1>1, <1>2, <1>3, <1>4 DEF Next, Thread, Exited

\* Every step keeps the counters.
LEMMA NextCounts == Counts /\ [Next]_vars => Counts'
  BY ThreadCounts, WorldCounts DEF Next, Exited, vars, Counts, Conservation

\* H2Session implements LoadGen.
THEOREM Refinement == Spec => ImplementsLoadGen
<1> DEFINE All == Types /\ Whole /\ Turns /\ Sent /\ Counts
<1>1. Init => All
  BY InitTypes, InitWhole, InitTurns, InitCounts
<1>2. All /\ [Next]_vars => All'
  BY NextTypes, NextWhole, NextTurns, NextCounts
<1>3. All /\ [Next]_vars => [LG!Next]_(LG!vars)
  BY StepRefines
<1>4. Init => LG!Init
  BY InitRefines
<1> HIDE DEF All
<1> QED
  BY <1>1, <1>2, <1>3, <1>4, PTL DEF Spec, ImplementsLoadGen, LG!Spec

-----------------------------------------------------------------------------
(* A request is open wherever the connection waits.                        *)

\* A server that answers only what it has received and credited finds our side of the stream
\* closed; until its answer is read nothing is queued that a read would have to give way to.
Busy ==
  /\ ~leaving => ~Flying({"GOAWAY"})
  /\ nc_state = "CONNECTED" /\ ~leaving =>
       /\ ses.stream \in {"open", "half_local"}
       /\ srv = "owes" \/ Flying(Ends) => ses.stream = "half_local" /\ ~Has(out_q, Data)
       /\ Flying(Ends) => ~full /\ (out_q # << >> => pc = "sm" /\ mode = "WRITE")

\* An action that leaves the session, what flies and the server alone.
LEMMA SameBusy ==
  ASSUME Busy, UNCHANGED <<rx, pend, out_q, ses, leaving>>,
         srv' = "owes" => srv = "owes", full' => full,
         nc_state' = "CONNECTED" => nc_state = "CONNECTED",
         \/ out_q = << >> \/ ~(pc = "sm" /\ mode = "WRITE") \/ UNCHANGED <<pc, mode>>
         \/ nc_state' # "CONNECTED"
  PROVE  Busy'
  BY SameFlies DEF Busy

\* Most steps leave the session and the server alone.
LEMMA LoopBusy ==
  ASSUME Types, Busy,
         \/ RunExit \/ StartConn \/ StartNone \/ EvrWait \/ EvrAfterRead
         \/ SmTlsConnect \/ SmTlsAgain \/ SmTlsFails \/ SmReadAgain \/ SmWriteNothing
         \/ Establish \/ Drain \/ CloseLeaving \/ CloseEarly \/ CloseHandshake \/ Reset
  PROVE  Busy'
<1>1. /\ UNCHANGED <<rx, pend, out_q, ses, leaving>> /\ (full' => full) /\ srv' \in {srv, "hello"}
      /\ nc_state' = "CONNECTED" => nc_state = "CONNECTED"
  BY DEF RunExit, StartConn, StartNone, EvrWait, EvrAfterRead, SmTlsConnect, SmTlsAgain, SmTlsFails,
         SmReadAgain, SmWriteNothing, Establish, Drain, CloseLeaving, CloseEarly, CloseHandshake,
         Reset, Close, worldUnchanged
<1>2. SmWriteNothing => out_q = << >>
  <2> SUFFICES ASSUME SmWriteNothing PROVE out_q = << >>
    OBVIOUS
  <2>1. out_q \in Seq(Frames) /\ sends(ses) \in Seq(Frames) /\ out_q \o sends(ses) = << >>
    BY TypeParts, Sends DEF SmWriteNothing, QueueTypes, queued
  <2> QED
    BY <2>1
<1>3. \/ out_q = << >> \/ ~(pc = "sm" /\ mode = "WRITE") \/ UNCHANGED <<pc, mode>>
      \/ nc_state' # "CONNECTED"
  BY <1>2 DEF RunExit, StartConn, StartNone, EvrWait, EvrAfterRead, SmTlsConnect, SmTlsAgain,
         SmTlsFails, SmReadAgain, SmWriteNothing, Reading, Establish, Drain, CloseLeaving, CloseEarly,
         CloseHandshake, Reset, Close, worldUnchanged
<1> QED
  BY <1>1, <1>3, SameBusy

\* Where a session begins and where it ends.
LEMMA SessionBusy ==
  ASSUME Types, Busy, SmReadEof \/ SmDone \/ Hello \/ SmConnected
  PROVE  Busy'
<1>1. CASE SmReadEof
  <2>1. UNCHANGED <<rx, pend, leaving>> /\ nc_state' = "DONE"
    BY <1>1 DEF SmReadEof
  <2> QED
    BY <2>1, SameFlies DEF Busy
<1>2. CASE SmDone
  <2>1. rx' = << >> /\ pend' = << >> /\ nc_state' = "none"
    BY <1>2 DEF SmDone
  <2> QED
    BY <2>1, NothingFliesNext DEF Busy
<1>3. CASE Hello
  <2>1. srv = "hello" /\ rx' = <<<<"hello">>, <<"SETTINGS">>>> /\ UNCHANGED <<pend, nc_state>>
    BY <1>3 DEF Hello, worldUnchanged
  <2>2. tls # "up" /\ nc_state # "CONNECTED" /\ pend = << >>
    BY <2>1, TypeParts DEF ConnTypes, Handshake
  <2> QED
    BY <2>1, <2>2, HandshakeFlies DEF Busy
<1>4. CASE SmConnected
  BY <1>4, ConnectedTurns DEF Busy
<1> QED
  BY <1>1, <1>2, <1>3, <1>4

\* A stream is closed when nothing is queued, so that the next request follows at once.
LEMMA ReadBusy ==
  ASSUME Types, Turns, Busy, NEW k, NEW n,
         SmReadFlip(k, n) \/ SmReadOn(k, n) \/ SmReadLast(k, n) \/ SmReadNext(k, n)
  PROVE  Busy'
<1> DEFINE ended_ == \E j \in 1 .. k : record[j] \in Ends
           t == received(k)
<1>1. Receive(k, n)
  BY DEF SmReadFlip, SmReadOn, SmReadLast, SmReadNext
<1>2. /\ n = (IF ses.stream # "none" /\ t.stream = "none" THEN 1 ELSE 0)
      /\ t \in Session
      /\ ended_ => Flying(Ends) /\ ~Flying(Ends)' /\ srv \notin {"recv", "owes"}
      /\ ~ended_ /\ ~Flying({"GOAWAY"}) => t.stream = ses.stream
      /\ ended_ /\ ses.stream = "half_local" => t.stream = "none"
      /\ \A F : Flying(F)' => Flying(F)
      /\ UNCHANGED <<srv, seen, full, leaving>>
  BY <1>1, ReadStream
<1>3. nc_state = "CONNECTED" /\ mode = "READ" /\ pc = "sm"
  BY <1>1 DEF Receive, Reading
<1>4. forget_body(t) \in Session /\ forget_body(t).body_q = -1
  BY <1>2, ForgetBody
<1>5. ~leaving' => ~Flying({"GOAWAY"})'
  BY <1>2 DEF Busy
<1> HIDE DEF ended_, t
<1>6. CASE leaving
  BY <1>2, <1>5, <1>6 DEF Busy
<1>7. CASE ~leaving
  <2>1. /\ ses.stream \in {"open", "half_local"} /\ ~Flying({"GOAWAY"})
        /\ srv = "owes" \/ Flying(Ends) => ses.stream = "half_local" /\ ~Has(out_q, Data)
        /\ Flying(Ends) => ~full /\ out_q = << >>
    BY <1>3, <1>7 DEF Busy
  <2>2. ended_ => t.stream = "none" /\ n = 1 /\ out_q = << >>
    BY <1>2, <2>1
  <2>3. ~ended_ => t.stream = ses.stream /\ n = 0
    BY <1>2, <2>1
  <2>4. CASE SmReadFlip(k, n) \/ SmReadOn(k, n)
    <3>1. /\ ~ended_ /\ ses' = t /\ out_q' = out_q
          /\ out_q # << >> => pc' = "sm" /\ mode' = "WRITE"
      BY <2>2, <2>4, <1>3 DEF SmReadFlip, SmReadOn, GotoTop, t
    <3> QED
      BY <1>2, <1>5, <2>1, <2>3, <3>1 DEF Busy
  <2>5. CASE SmReadLast(k, n)
    <3>1. nc_state' = "DONE"
      BY <2>5 DEF SmReadLast
    <3> QED
      BY <1>5, <3>1 DEF Busy
  <2>6. CASE SmReadNext(k, n)
    <3> DEFINE u == after_send(submit(forget_body(t)))
    <3>1. ses' = [u EXCEPT !.closed = 0] /\ n > 0
      BY <2>6 DEF SmReadNext, t
    <3>2. u \in Session /\ u.stream \in {"open", "half_local"}
      BY <1>4, RequestQueue
    <3> HIDE DEF u
    <3>3. ses'.stream \in {"open", "half_local"}
      BY <3>1, <3>2 DEF Session
    <3>4. ended_
      BY <2>3, <3>1
    <3> QED
      BY <1>2, <1>5, <3>3, <3>4 DEF Busy
  <2> QED
    BY <2>4, <2>5, <2>6
<1> QED
  BY <1>6, <1>7

\* A write closes our side of the stream with its last frame and no stream.
LEMMA WriteBusy ==
  ASSUME Types, Whole, Turns, Busy, SmWriteAgain \/ SmWrite \/ SmIoError
  PROVE  Busy'
<1>1. UNCHANGED <<rx, pend, leaving>>
  BY DEF SmWriteAgain, SmWrite, SmIoError
<1>2. \A F : Flying(F)' <=> Flying(F)
  BY <1>1, SameFlies
<1>3. ~leaving' => ~Flying({"GOAWAY"})'
  BY <1>1, <1>2 DEF Busy
<1>4. CASE leaving \/ SmIoError
  BY <1>1, <1>3, <1>4 DEF Busy, SmIoError
<1>5. CASE ~leaving /\ (SmWriteAgain \/ SmWrite)
  <2>1. /\ nc_state = "CONNECTED" /\ nc_state' = nc_state /\ swrite
    BY <1>5 DEF SmWriteAgain, SmWrite, Writing
  <2>2. /\ ses.stream \in {"open", "half_local"}
        /\ srv = "owes" \/ Flying(Ends) => ses.stream = "half_local" /\ ~Has(out_q, Data)
        /\ Flying(Ends) => ~full
    BY <1>5, <2>1 DEF Busy
  <2>3. /\ ses \in Session /\ ses' \in Session /\ queued \in Seq(Frames) /\ Queue(queued, ses')
        /\ ses'.stream = "none" => ses.stream \in {"none", "half_remote"}
        /\ ses'.stream = "half_remote" => ses.stream = "half_remote"
        /\ ses.stream = "half_local" => ses'.stream = "half_local"
        /\ ses.stream = "half_local" /\ ~Has(out_q, Data) => ~Has(queued, Data)
    BY <2>1, SwriteStream
  <2>4. ses'.stream \in {"open", "half_local"}
    BY <2>2, <2>3 DEF Session
  <2>5. CASE SmWriteAgain
    <3>1. full /\ out_q' = queued /\ srv' = srv
      BY <2>5 DEF SmWriteAgain
    <3> QED
      BY <1>2, <1>3, <2>2, <2>3, <2>4, <3>1 DEF Busy
  <2>6. CASE SmWrite
    <3> DEFINE f == Head(queued)
    <3>1. /\ queued # << >> /\ out_q' = Tail(queued) /\ f \in Frames
          /\ pc' = "sm" /\ mode' = "WRITE"
          /\ \/ srv' = srv
             \/ f \in Heads /\ srv' = "gone"
             \/ f \in Heads /\ srv' = (IF f = "HEADERS" THEN "recv" ELSE "owes")
             \/ f = "DATA_END" /\ srv = "recv" /\ srv' = "owes"
          /\ full' => f \in Data
          /\ \A F : Has(queued, F) <=> f \in F \/ Has(out_q', F)
      BY <2>6, WriteStep
    <3>2. Flying(Ends) => ~full' /\ ses'.stream = "half_local" /\ ~Has(out_q', Data)
      BY <2>2, <2>3, <3>1
    <3>3. ASSUME srv' = "owes" PROVE ses'.stream = "half_local" /\ ~Has(out_q', Data)
      <4>1. CASE srv = "owes"
        BY <2>2, <2>3, <3>1, <4>1
      <4>2. CASE f = "HEADERS_END"
        <5>1. BodyFrames = 0
          <6>1. 1 \in 1 .. Len(queued) /\ queued[1] = f
            BY <2>3, <3>1
          <6>2. headers = "HEADERS_END"
            BY <2>3, <4>2, <6>1 DEF Queue, Heads
          <6> QED
            BY <6>2 DEF headers
        <5>2. ~Has(queued, Data)
          BY <2>3, <5>1 DEF Queue, Has
        <5>3. body_left(ses') = 0
          BY <2>3, <5>1, BodyLeft
        <5> QED
          BY <2>3, <2>4, <3>1, <5>2, <5>3 DEF Queue, Sending
      <4>3. CASE f = "DATA_END"
        <5>1. Has(queued, {"DATA_END"})
          BY <3>1, <4>3
        <5>2. ses'.stream = "half_local"
          BY <2>3, <2>4, <5>1 DEF Queue, Sending
        <5>3. 1 \in 1 .. Len(queued) /\ queued[1] = f /\ 1 + 1 = 2
          BY <2>3, <3>1
        <5>4. \A j \in 2 .. Len(queued) : queued[j] \notin Data
          BY <2>3, <4>3, <5>3 DEF Queue
        <5>5. \A j \in 1 .. Len(out_q') : j + 1 \in 2 .. Len(queued) /\ out_q'[j] = queued[j + 1]
          BY <2>3, <3>1
        <5> QED
          BY <5>2, <5>4, <5>5 DEF Has
      <4> QED
        BY <3>1, <3>3, <4>1, <4>2, <4>3 DEF Heads
    <3> HIDE DEF f
    <3> QED
      BY <1>2, <1>3, <2>4, <3>1, <3>2, <3>3 DEF Busy
  <2> QED
    BY <1>5, <2>5, <2>6
<1> QED
  BY <1>4, <1>5

\* The server answers when our side of the stream is closed and all of it is written.
LEMMA AnswerBusy ==
  ASSUME ~EarlyAnswers, Types, Busy, Credit \/ AnswerData \/ AnswerEnd \/ Rst \/ GoAway
  PROVE  Busy'
<1>1. PICK f \in SrvFrames :
        /\ Send(f)
        /\ f \in Ends => srv = "owes" /\ out_q = << >> /\ ~full
        /\ f = "GOAWAY" => leaving'
        /\ leaving => leaving'
        /\ srv' \in {srv, "idle"}
  BY DEF Credit, AnswerData, AnswerEnd, Rst, GoAway, ready_to_answer, SrvFrames, Ends
<1>2. /\ UNCHANGED <<pend, out_q, ses, nc_state, pc, mode, full>>
      /\ rx' \in Records(f) /\ rx \in Seq(Seq(SrvFrames \cup {"hello"})) /\ Lengths
      /\ f \in SrvFrames \cup {"hello"}
  BY <1>1, TypeParts DEF Send, worldUnchanged, InputTypes
<1>3. \A F : Flying(F)' <=> Flying(F) \/ f \in F
  BY <1>2, SendFlying
<1>4. (Flying(Ends)' <=> Flying(Ends) \/ f \in Ends) /\ (Flying({"GOAWAY"})' <=> Flying({"GOAWAY"}) \/ f = "GOAWAY")
  BY <1>3
<1> QED
  BY <1>1, <1>2, <1>4 DEF Busy

\* There is no connection at first.
LEMMA InitBusy == Init => Busy
<1> SUFFICES ASSUME Init PROVE Busy
  OBVIOUS
<1>1. rx = << >> /\ pend = << >> /\ nc_state = "none"
  BY DEF Init
<1> QED
  BY <1>1, NothingFlies DEF Busy

\* Every step keeps a request open.
LEMMA NextBusy ==
  ASSUME ~EarlyAnswers, Types, Whole, Turns, Busy, [Next]_vars
  PROVE  Busy'
<1>1. CASE Thread
  BY <1>1, LoopBusy, SessionBusy, ReadBusy, WriteBusy DEF Thread
<1>2. CASE World
  BY <1>2, LoopBusy, SessionBusy, AnswerBusy DEF World
<1>3. CASE UNCHANGED vars
  BY <1>3, SameBusy DEF vars
<1> QED
  BY <1>1, <1>2, <1>3 DEF Next, Exited

\* Unless the server answers early, a connection that waits has a request open.
THEOREM NoIdleConnHolds == ~EarlyAnswers => (Spec => []NoIdleConn)
<1> SUFFICES ASSUME ~EarlyAnswers PROVE Spec => []NoIdleConn
  OBVIOUS
<1> DEFINE All == Types /\ Whole /\ Turns /\ Sent /\ Busy
<1>1. Init => All
  BY InitTypes, InitWhole, InitTurns, InitBusy
<1>2. All /\ [Next]_vars => All'
  BY NextTypes, NextWhole, NextTurns, NextBusy
<1>3. All => NoIdleConn
  BY DEF Busy, NoIdleConn
<1> HIDE DEF All
<1> QED
  BY <1>1, <1>2, <1>3, PTL DEF Spec
=============================================================================
