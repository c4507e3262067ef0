------------------------------- MODULE Paths --------------------------------
(***************************************************************************)
(* Request paths: a path of the command line may have ranges, [1-9], and   *)
(* main expands it to every path it stands for (special_effects_parse,     *)
(* path_exploder); the workers then take one path after the other, round   *)
(* and round, when order=sequential, from an index they share (get_path).  *)
(* The text between the ranges is of no account: a path is the sequence of *)
(* the numbers in it.  A number has Width values.                          *)
(***************************************************************************)
EXTENDS Integers, Sequences, FiniteSets, SequencesExt

CONSTANTS
  Workers,
  Ranges,      \* ranges of a path, [start, end]
  MaxRanges,
  Width,       \* 2^32
  MaxCalls     \* bound on the calls of get_path

Nobody == "nobody"

PathsAssumption ==
  /\ MaxRanges \in Nat /\ MaxCalls \in Nat /\ Width \in Nat
  /\ \A r \in Ranges : r[1] \in 0 .. Width - 1 /\ r[2] \in 0 .. Width - 1
  /\ Nobody \notin Workers

VARIABLES
  ranges,              \* what parse_path found
  expanded,            \* "no", "error" or "yes"
  g_path_vector,
  g_path_vector_last_idx,
  mutex,               \* the worker that has g_path_vector_mutex, or Nobody
  path_pc,             \* a worker's place in get_path: "out", "locked", "index", "bump", "unlock"
  last_idx,            \* its l_last_idx
  given                \* indexes of the paths given out, in order

path_vars == <<ranges, expanded, g_path_vector, g_path_vector_last_idx, mutex, path_pc, last_idx, given>>
worker == <<path_pc, last_idx>>

PathsInit ==
  /\ ranges \in UNION {[1 .. n -> Ranges] : n \in 0 .. MaxRanges}
  /\ expanded = "no" /\ g_path_vector = <<>> /\ g_path_vector_last_idx = 0
  /\ mutex = Nobody /\ path_pc = [w \in Workers |-> "out"] /\ last_idx = [w \in Workers |-> 0]
  /\ given = <<>>

\* sprintf("%d"), of an unsigned number
printed(n) == IF n >= Width \div 2 THEN n - Width ELSE n

\* slip: a range is begun after its start
steps_x(r) == [i \in 1 .. r[2] - r[1] |-> printed(r[1] + i)]

\* the numbers of a range, as they are put into a path
steps(r) == [i \in 1 .. r[2] - r[1] + 1 |-> printed(r[1] + i - 1)]

\* path_exploder: the paths that begin with part, one range at a time
exploded[todo \in Seq(Int) \X Seq(Ranges)] ==
  LET part == todo[1]
      rs == todo[2]
  IN IF rs = <<>> THEN <<part>>
     ELSE FlattenSeq([i \in DOMAIN steps(Head(rs)) |->
                        exploded[<<Append(part, steps(Head(rs))[i]), Tail(rs)>>]])

path_exploder(part, rs) == exploded[<<part, rs>>]

bad == \E i \in DOMAIN ranges : ranges[i][1] > ranges[i][2]
\* the loop's i_r <= m_end holds of every uint32_t when m_end is the largest
ends == \A i \in DOMAIN ranges : ranges[i][2] < Width - 1

\* convert_exp_to_range refuses a range; the process ends
BadRange ==
  /\ expanded = "no" /\ bad
  /\ expanded' = "error"
  /\ UNCHANGED <<ranges, g_path_vector, g_path_vector_last_idx, mutex, worker, given>>

Expand ==
  /\ expanded = "no" /\ ~bad /\ ends
  /\ expanded' = "yes" /\ g_path_vector' = path_exploder(<<>>, ranges)
  /\ UNCHANGED <<ranges, g_path_vector_last_idx, mutex, worker, given>>

\* slip: the lock is not waited for
free_x(w) == TRUE
free(w) == mutex = Nobody

Goes(w, from, to) == path_pc[w] = from /\ path_pc' = [path_pc EXCEPT ![w] = to]

Lock(w) ==
  /\ expanded = "yes" /\ Len(given) < MaxCalls
  /\ free(w) /\ Goes(w, "out", "locked")
  /\ mutex' = w
  /\ UNCHANGED <<ranges, expanded, g_path_vector, g_path_vector_last_idx, last_idx, given>>

Rollover(w) ==
  /\ Goes(w, "locked", "index")
  /\ g_path_vector_last_idx' =
       IF g_path_vector_last_idx >= Len(g_path_vector) THEN 0 ELSE g_path_vector_last_idx
  /\ UNCHANGED <<ranges, expanded, g_path_vector, mutex, last_idx, given>>

Index(w) ==
  /\ Goes(w, "index", "bump")
  /\ last_idx' = [last_idx EXCEPT ![w] = g_path_vector_last_idx]
  /\ given' = Append(given, g_path_vector_last_idx)
  /\ UNCHANGED <<ranges, expanded, g_path_vector, g_path_vector_last_idx, mutex>>

Bump(w) ==
  /\ Goes(w, "bump", "unlock")
  /\ g_path_vector_last_idx' = g_path_vector_last_idx + 1
  /\ UNCHANGED <<ranges, expanded, g_path_vector, mutex, last_idx, given>>

Unlock(w) ==
  /\ Goes(w, "unlock", "out")
  /\ mutex' = Nobody
  /\ UNCHANGED <<ranges, expanded, g_path_vector, g_path_vector_last_idx, last_idx, given>>

PathsNext ==
  \/ BadRange \/ Expand
  \/ \E w \in Workers : Lock(w) \/ Rollover(w) \/ Index(w) \/ Bump(w) \/ Unlock(w)

PathsSpec == PathsInit /\ [][PathsNext]_path_vars

-----------------------------------------------------------------------------
(* Properties                                                              *)

\* g_path_vector has the numbers of the ranges in every combination, each once, and the last
\* range runs fastest.
before(p, q) ==
  \E i \in DOMAIN p : p[i] < q[i] /\ \A j \in 1 .. i - 1 : p[j] = q[j]
numbers(r) == r[1] .. r[2]
AllPaths ==
  expanded = "yes" =>
    /\ Range(g_path_vector) =
         {p \in [DOMAIN ranges -> 0 .. Width - 1] : \A i \in DOMAIN ranges : p[i] \in numbers(ranges[i])}
    /\ \A i \in 1 .. Len(g_path_vector) - 1 : before(g_path_vector[i], g_path_vector[i + 1])

\* However the workers interleave, no index is past the end, and between two uses of a path
\* every other path is used once: the workers together go round the list.
InTurn ==
  /\ \A i \in DOMAIN given : given[i] \in 0 .. Len(g_path_vector) - 1
  /\ \A i \in 2 .. Len(given) :
       given[i] = IF given[i - 1] + 1 = Len(g_path_vector) THEN 0 ELSE given[i - 1] + 1
=============================================================================
