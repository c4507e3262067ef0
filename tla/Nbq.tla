-------------------------------- MODULE Nbq ---------------------------------
(***************************************************************************)
(* nbq: the list of blocks that carries requests to the socket and answers *)
(* from it.  A block holds up to m_bsize bytes, or refers to a block of    *)
(* another queue (join_ref); two iterators say where the next byte goes    *)
(* and where the next one is.  A byte is a number, fresh as long as the    *)
(* queue is not emptied, so that order can be told.                        *)
(*                                                                         *)
(* A queue is read and written the way nconn, the sessions and hmsg do it: *)
(* a body is joined once, to a queue that is new or was reset and has at   *)
(* most the header in it, and the queue is written no more until it is     *)
(* emptied; a queue is split once, and only one of answers, which has no   *)
(* blocks of another.                                                      *)
(***************************************************************************)
EXTENDS Integers, Sequences, SequencesExt

CONSTANTS
  BlockSize,      \* m_bsize
  MaxBytes,       \* bound on the bytes written between two resets
  Bodies,         \* body queues a request may have: sequences of blocks of bytes
  SplitAnywhere   \* may the offset of a split be the end of a block

SizesAssumption == BlockSize \in Nat \ {0} /\ MaxBytes \in Nat
SplitAssumption == SplitAnywhere \in BOOLEAN
\* a body was written once and never reset: its empty blocks, if it has any, are the last
BodiesAssumption ==
  \A body \in Bodies :
    /\ body \in Seq(Seq(Nat))
    /\ \A i, j \in DOMAIN body : i < j /\ body[j] # <<>> => body[i] # <<>>

VARIABLES
  nbq,     \* [q, wb, rb, off, avail]: m_q, the iterators, m_cur_write_offset, m_total_read_avail
  tail,    \* the queue split made
  next_byte,  \* next byte to be written
  taken    \* bytes the last call returned

nbq_vars == <<nbq, tail, next_byte, taken>>

END == 0      \* m_q.end()

\* a block: its bytes up to m_written, m_len, m_read, m_ref
Block(n_len) == [data |-> <<>>, len |-> n_len, read |-> 0, ref |-> FALSE]
RefTo(bytes) == [data |-> bytes, len |-> Len(bytes), read |-> 0, ref |-> TRUE]
write_avail(blk) == blk.len - Len(blk.data)
read_avail(blk) == Len(blk.data) - blk.read

NewQ == [q |-> <<>>, wb |-> END, rb |-> END, off |-> 0, avail |-> 0]
Begin(b) == IF b.q = <<>> THEN END ELSE 1
After(b, i) == IF i = Len(b.q) THEN END ELSE i + 1
least(m, n) == IF m > n THEN n ELSE m

\* the bytes in the blocks of q, and how many of them the first n blocks hold
written(q) == FlattenSeq([i \in DOMAIN q |-> q[i].data])
held(q, n) == Len(written(SubSeq(q, 1, n)))
content(b) == written(b.q)

NbqInit == nbq = NewQ /\ tail = NewQ /\ next_byte = 1 /\ taken = <<>>

-----------------------------------------------------------------------------
(* Blocks                                                                  *)

b_write_avail(b) == IF b.wb = END THEN 0 ELSE write_avail(b.q[b.wb])

b_write_add_avail(b) ==
  LET c == [b EXCEPT !.q = Append(@, Block(BlockSize))] IN
  IF Len(c.q) = 1 THEN [c EXCEPT !.rb = 1, !.wb = 1]
  ELSE IF write_avail(c.q[c.wb]) = 0 /\ c.wb # Len(c.q)
       THEN [c EXCEPT !.wb = @ + 1] ELSE c

\* slip: the read block stays behind on a block that was read up
b_write_incr_x(b, bytes) ==
  LET c == [b EXCEPT !.off = @ + Len(bytes), !.avail = @ + Len(bytes),
                     !.q[b.wb].data = @ \o bytes]
  IN IF write_avail(c.q[c.wb]) = 0 /\ c.wb # Len(c.q) THEN [c EXCEPT !.wb = @ + 1] ELSE c

b_write_incr(b, bytes) ==
  LET c == [b EXCEPT !.off = @ + Len(bytes), !.avail = @ + Len(bytes),
                     !.q[b.wb].data = @ \o bytes]
      d == IF write_avail(c.q[c.wb]) = 0 /\ c.wb # Len(c.q) THEN [c EXCEPT !.wb = @ + 1] ELSE c
  IN IF bytes # <<>> /\ read_avail(d.q[d.rb]) = 0 THEN [d EXCEPT !.rb = After(d, @)] ELSE d

b_read_avail(b) ==
  IF b.rb = END THEN 0
  ELSE IF b.rb = b.wb THEN b.avail
  ELSE read_avail(b.q[b.rb])

b_read_incr(b, n) ==
  LET c == [b EXCEPT !.avail = @ - n, !.q[b.rb].read = @ + n] IN
  IF b_read_avail(b) = n /\ c.avail # 0 THEN [c EXCEPT !.rb = After(c, @)] ELSE c

-----------------------------------------------------------------------------
(* The queue                                                               *)

\* one pass of the loop of write, and of write_q and write_fd: what fits in the write block
write_block(s) ==
  IF s.left = <<>> THEN s
  ELSE LET c == IF b_write_avail(s.b) = 0 THEN b_write_add_avail(s.b) ELSE s.b
           n == least(Len(s.left), b_write_avail(c))
       IN [b |-> b_write_incr(c, SubSeq(s.left, 1, n)), left |-> SubSeq(s.left, n + 1, Len(s.left))]

write(b, bytes) ==
  LET after[i \in 0 .. Len(bytes)] ==
        IF i = 0 THEN [b |-> b, left |-> bytes] ELSE write_block(after[i - 1])
  IN after[Len(bytes)].b

\* one pass of the loop of read: what the read block has
read_block(s) ==
  IF s.left = 0 THEN s
  ELSE LET n == least(s.left, b_read_avail(s.b))
           blk == s.b.q[s.b.rb]
       IN [b |-> b_read_incr(s.b, n), left |-> s.left - n,
           got |-> s.got \o SubSeq(blk.data, blk.read + 1, blk.read + n)]

\* what read copies out, and the queue it leaves
read(b, n) ==
  LET after[i \in 0 .. n] ==
        IF i = 0 THEN [b |-> b, left |-> n, got |-> <<>>] ELSE read_block(after[i - 1])
  IN after[n]

reset_read(b) ==
  [b EXCEPT !.q = [i \in DOMAIN b.q |-> [b.q[i] EXCEPT !.read = 0]],
            !.avail = Len(content(b)), !.rb = Begin(b)]

\* references go, the other blocks are emptied
reset_write(b) ==
  LET kept[i \in 0 .. Len(b.q)] ==
        IF i = 0 THEN <<>>
        ELSE IF b.q[i].ref THEN kept[i - 1]
        ELSE Append(kept[i - 1], [b.q[i] EXCEPT !.data = <<>>, !.read = 0])
      c == [b EXCEPT !.q = kept[Len(b.q)]]
  IN [c EXCEPT !.wb = Begin(c), !.rb = Begin(c), !.avail = 0, !.off = 0]

shrink(b) ==
  LET gone == IF b.rb = END THEN Len(b.q) ELSE b.rb - 1
      At(i) == IF i = END THEN END ELSE i - gone
      size == FoldSeq(LAMBDA blk, n : blk.len + n, 0, SubSeq(b.q, 1, gone))
      c == [b EXCEPT !.q = SubSeq(@, gone + 1, Len(@)), !.rb = At(@), !.wb = At(@), !.off = @ - size]
  IN IF c.rb # END /\ c.rb = c.wb /\ read_avail(c.q[c.rb]) = 0 /\ write_avail(c.q[c.rb]) = 0
     THEN NewQ ELSE c

\* the block that has the byte at an offset
at_block(q, n_off) == CHOOSE i \in DOMAIN q : held(q, i - 1) <= n_off /\ n_off < held(q, i)

\* slip: the block that was cut goes to the tail as well
split_x(b, n_off) ==
  LET i_b == at_block(b.q, n_off)
      moved == SubSeq(b.q, i_b, Len(b.q))
      head == [b EXCEPT !.q = SubSeq(@, 1, i_b), !.wb = i_b]
  IN [head |-> reset_read(head),
      tail |-> reset_read([NewQ EXCEPT !.q = moved, !.wb = Len(moved)])]

\* the head and the tail of a split; i_b is advanced past a block whether or not it was cut
split(b, n_off) ==
  LET i_b == at_block(b.q, n_off)
      i_offset == n_off - held(b.q, i_b - 1)
      cut == b.q[i_b]
      moved == SubSeq(b.q, i_b + 1, Len(b.q))
      n_moved == Len(written(moved))
      kept == IF i_offset = 0 THEN SubSeq(b.q, 1, i_b)
              ELSE Append(SubSeq(b.q, 1, i_b - 1), [cut EXCEPT !.data = SubSeq(@, 1, i_offset)])
      head == [b EXCEPT !.q = kept, !.off = @ - n_moved, !.wb = Len(kept)]
      t == IF i_offset = 0 THEN NewQ
           ELSE write(b_write_add_avail(NewQ), SubSeq(cut.data, i_offset + 1, Len(cut.data)))
      u == [t EXCEPT !.q = @ \o moved, !.off = @ + n_moved]
  IN [head |-> reset_read(head), tail |-> reset_read([u EXCEPT !.wb = Len(u.q)])]

join_ref(b, body) ==
  LET refs == [i \in DOMAIN body |-> RefTo(body[i])]
      c == [b EXCEPT !.q = @ \o refs, !.wb = END,
                     !.off = @ + Len(FlattenSeq(body)), !.avail = @ + Len(FlattenSeq(body))]
  IN IF b.q = <<>> THEN [c EXCEPT !.rb = Begin(c)] ELSE c

-----------------------------------------------------------------------------
(* Calls                                                                   *)

writable == nbq.q = <<>> \/ nbq.wb # END
\* new, or emptied by reset (reset_write keeps empty blocks), and nothing read of it
fresh == \A i \in DOMAIN nbq.q : nbq.q[i].data # <<>> /\ nbq.q[i].read = 0
own == \A i \in DOMAIN nbq.q : ~nbq.q[i].ref

Write ==
  \E n \in 1 .. MaxBytes - next_byte + 1 :
    /\ writable
    /\ nbq' = write(nbq, [i \in 1 .. n |-> next_byte + i - 1])
    /\ next_byte' = next_byte + n
    /\ taken' = <<>> /\ UNCHANGED tail

\* nc_read: one read of the socket into the rest of the block
NcRead ==
  /\ writable
  /\ LET b == IF b_write_avail(nbq) = 0 THEN b_write_add_avail(nbq) ELSE nbq IN
     \E n \in 1 .. least(b_write_avail(b), MaxBytes - next_byte + 1) :
       /\ nbq' = b_write_incr(b, [i \in 1 .. n |-> next_byte + i - 1])
       /\ next_byte' = next_byte + n
  /\ taken' = <<>> /\ UNCHANGED tail

\* nc_write: one write to the socket, which may take less than the block holds
NcWrite ==
  \E n \in 1 .. b_read_avail(nbq) :
    LET blk == nbq.q[nbq.rb] IN
    /\ taken' = SubSeq(blk.data, blk.read + 1, blk.read + n)
    /\ nbq' = b_read_incr(nbq, n)
    /\ UNCHANGED <<tail, next_byte>>

Read ==
  \E n \in 1 .. nbq.avail :
    LET r == read(nbq, n) IN
    /\ nbq' = r.b /\ taken' = r.got
    /\ UNCHANGED <<tail, next_byte>>

\* read_from: a rewind, a read that copies nothing, and a read
ReadFrom ==
  \E n_off \in 0 .. Len(content(nbq)), n \in 1 .. Len(content(nbq)) + 1 :
    LET s == read(reset_read(nbq), n_off).b
        r == read(s, least(n, s.avail))
    IN /\ nbq' = r.b /\ taken' = r.got
       /\ UNCHANGED <<tail, next_byte>>

ResetRead == nbq' = reset_read(nbq) /\ taken' = <<>> /\ UNCHANGED <<tail, next_byte>>
ResetWrite == nbq' = reset_write(nbq) /\ next_byte' = 1 /\ taken' = <<>> /\ UNCHANGED tail
Reset == nbq' = NewQ /\ next_byte' = 1 /\ taken' = <<>> /\ UNCHANGED tail
Shrink == nbq' = shrink(nbq) /\ taken' = <<>> /\ UNCHANGED <<tail, next_byte>>

JoinRef ==
  \E body \in Bodies :
    /\ fresh /\ own
    /\ nbq' = join_ref(nbq, body)
    /\ taken' = <<>> /\ UNCHANGED <<tail, next_byte>>

at_boundary(n_off) == \E i \in DOMAIN nbq.q : held(nbq.q, i) = n_off

SplitAt(n_off) ==
  LET s == split(nbq, n_off) IN
  /\ own /\ nbq.off = Len(content(nbq))
  /\ ~at_boundary(n_off) \/ SplitAnywhere
  /\ nbq' = s.head /\ tail' = s.tail
  /\ taken' = <<>> /\ UNCHANGED next_byte

Split == \E n_off \in 1 .. nbq.off - 1 : SplitAt(n_off)

NbqNext ==
  \/ Write \/ NcRead \/ JoinRef
  \/ NcWrite \/ Read \/ ReadFrom
  \/ ResetRead \/ ResetWrite \/ Reset \/ Shrink
  \/ Split

NbqSpec == NbqInit /\ [][NbqNext]_nbq_vars

-----------------------------------------------------------------------------
(* Properties                                                              *)

\* Whatever the blocks and their iterators, bytes come out in order, none twice and none
\* skipped: not where a read or a write ends at the end of a block, not after a rewind, a
\* partial write to the socket, a join or a split, and shrink frees none that is unread.
BQ == INSTANCE ByteQueue WITH
        log <- content(nbq), rest <- content(tail), Bodies <- {FlattenSeq(b) : b \in Bodies},
        rd <- Len(content(nbq)) - nbq.avail
ImplementsByteQueue == BQ!Spec

\* nc_write hands the socket the read block and nothing else: as long as read_avail says that
\* something is left to send, there is a read block and it holds a byte, and what b_read_avail
\* says of it is never more than that block holds.
NextAtHand ==
  /\ nbq.avail > 0 => b_read_avail(nbq) > 0
  /\ nbq.rb # END => b_read_avail(nbq) <= read_avail(nbq.q[nbq.rb])

\* nbq.h: "Split and create separate nbq with tail at offset": what stays is what was before
\* the offset.
SplitAtOffset ==
  [][\A n_off \in 1 .. nbq.off - 1 :
       SplitAt(n_off) => content(nbq') = SubSeq(content(nbq), 1, n_off)]_nbq_vars
=============================================================================
