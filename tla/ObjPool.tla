------------------------------ MODULE ObjPool -------------------------------
(***************************************************************************)
(* obj_pool: objects are added once, lent by get_free and taken back by    *)
(* release.  Objects are known by their index in m_obj_vec.                *)
(***************************************************************************)
EXTENDS Integers, FiniteSets

CONSTANTS Users, MaxObjs

PoolAssumption == MaxObjs \in Nat

VARIABLES
  m_obj_vec,       \* how many objects there are
  m_used_idx_set, m_free_idx_set,
  holds            \* the objects each user has

pool_vars == <<m_obj_vec, m_used_idx_set, m_free_idx_set, holds>>

PoolInit ==
  /\ m_obj_vec = 0 /\ m_used_idx_set = {} /\ m_free_idx_set = {}
  /\ holds = [u \in Users |-> {}]

\* slip: a lent object stays in the free set
still_free_x(idx) == m_free_idx_set

still_free(idx) == m_free_idx_set \ {idx}

GetFree(u, idx) ==
  /\ idx \in m_free_idx_set
  /\ m_free_idx_set' = still_free(idx)
  /\ m_used_idx_set' = m_used_idx_set \cup {idx}
  /\ holds' = [holds EXCEPT ![u] = @ \cup {idx}]
  /\ UNCHANGED m_obj_vec

\* what is added is in the hands of who made it
Add(u) ==
  /\ m_obj_vec < MaxObjs
  /\ m_obj_vec' = m_obj_vec + 1
  /\ m_used_idx_set' = m_used_idx_set \cup {m_obj_vec}
  /\ holds' = [holds EXCEPT ![u] = @ \cup {m_obj_vec}]
  /\ UNCHANGED m_free_idx_set

Release(u, idx) ==
  /\ idx \in holds[u]
  /\ m_used_idx_set' = m_used_idx_set \ {idx}
  /\ m_free_idx_set' = m_free_idx_set \cup {idx}
  /\ holds' = [holds EXCEPT ![u] = @ \ {idx}]
  /\ UNCHANGED m_obj_vec

PoolNext ==
  \E u \in Users :
    \/ Add(u)
    \/ \E idx \in 0 .. MaxObjs - 1 : GetFree(u, idx) \/ Release(u, idx)

PoolSpec == PoolInit /\ [][PoolNext]_pool_vars

-----------------------------------------------------------------------------
(* Properties                                                              *)

\* As long as users give back only what they have, no object is lent to two of them, none is
\* lost to both sets, and the used set is what is out.
LentOnce ==
  /\ \A u, v \in Users : u # v => holds[u] \cap holds[v] = {}
  /\ m_used_idx_set = UNION {holds[u] : u \in Users}
  /\ m_used_idx_set \cap m_free_idx_set = {}
  /\ m_used_idx_set \cup m_free_idx_set = 0 .. m_obj_vec - 1
=============================================================================
