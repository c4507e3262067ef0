--------------------------- MODULE CircularVector ---------------------------
(***************************************************************************)
(* circular_vector: a vector that grows to m_max_size and is then written  *)
(* round and round.  The k-th object added is the number k.                *)
(***************************************************************************)
EXTENDS Integers, Sequences

CONSTANTS
  MaxSizes,  \* sizes a vector is made with, NoMax for one without bound
  MaxAdds

NoMax == -1      \* CIRCULAR_VECTOR_DEFAULT_NO_MAX

VectorAssumption == MaxSizes \subseteq (Nat \ {0}) \cup {NoMax} /\ MaxAdds \in Nat

VARIABLES
  m_max_size, m_vector, m_cur_index, m_start_index,
  added      \* objects added so far

vector_vars == <<m_max_size, m_vector, m_cur_index, m_start_index, added>>

VectorInit ==
  /\ m_max_size \in MaxSizes
  /\ m_vector = <<>> /\ m_cur_index = -1 /\ m_start_index = 0 /\ added = 0

wrapped(i) == IF i >= m_max_size THEN 0 ELSE i
size == Len(m_vector)

\* slip: the oldest entry is taken to be the one just written
start_after_x(i) == i
start_after(i) == wrapped(i + 1)

AddUnbounded ==
  /\ m_max_size = NoMax
  /\ m_cur_index' = m_cur_index + 1
  /\ m_vector' = Append(m_vector, added + 1)
  /\ UNCHANGED m_start_index

AddGrowing ==
  LET cur == wrapped(m_cur_index + 1) IN
  /\ m_max_size # NoMax /\ size < cur + 1
  /\ m_cur_index' = cur
  /\ m_vector' = Append(m_vector, added + 1)
  /\ UNCHANGED m_start_index

AddOverwriting ==
  LET cur == wrapped(m_cur_index + 1) IN
  /\ m_max_size # NoMax /\ size >= cur + 1
  /\ m_cur_index' = cur
  /\ m_vector' = [m_vector EXCEPT ![cur + 1] = added + 1]
  /\ m_start_index' = start_after(cur)

AddObj ==
  /\ added < MaxAdds /\ added' = added + 1
  /\ AddUnbounded \/ AddGrowing \/ AddOverwriting
  /\ UNCHANGED m_max_size

get_obj(i) == m_vector[(IF i >= size THEN i - size ELSE i) + 1]

get_distance_to_cur_index(from) ==
  IF m_cur_index < 0 THEN 0
  ELSE IF m_cur_index < from THEN size - from + m_cur_index
  ELSE m_cur_index - from

VectorNext == AddObj

VectorSpec == VectorInit /\ [][VectorNext]_vector_vars

-----------------------------------------------------------------------------
(* Properties                                                              *)

\* Walking the vector from get_start_index() over the distance to the current index meets the
\* last m_max_size objects added, oldest first, before the first wrap, at it and after it.
LastOnes ==
  /\ size = IF m_max_size # NoMax /\ m_max_size < added THEN m_max_size ELSE added
  /\ added > 0 => get_distance_to_cur_index(m_start_index) = size - 1
  /\ \A i \in 0 .. size - 1 : get_obj(m_start_index + i) = added - size + 1 + i
=============================================================================
