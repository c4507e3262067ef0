-------------------------------- MODULE Nlru --------------------------------
(***************************************************************************)
(* nlru: a list of entries, newest first, with three indexes over it: by   *)
(* id, the label of an id, the ids of a label.  get takes an entry out;    *)
(* an insert past m_max_entries deletes the oldest.                        *)
(***************************************************************************)
EXTENDS Integers, Sequences, FiniteSets, SequencesExt, Maps

CONSTANTS Labels, MaxEntries, MaxIds

LruAssumption == MaxEntries \in Nat /\ MaxIds \in Nat

VARIABLES
  m_item_list,         \* ids, newest first
  m_item_list_size,
  m_item_list_map,     \* ids that have an iterator into m_item_list
  m_id_label_map,      \* label of an id
  m_label_id_set_map,  \* ids of a label
  m_next_id,
  deleted              \* ids whose entries m_delete_cb was called for

nlru_vars == <<m_item_list, m_item_list_size, m_item_list_map, m_id_label_map, m_label_id_set_map,
               m_next_id, deleted>>

cache == [list |-> m_item_list, size |-> m_item_list_size, map |-> m_item_list_map,
          label |-> m_id_label_map, ids |-> m_label_id_set_map]

NlruInit ==
  /\ m_item_list = <<>> /\ m_item_list_size = 0 /\ m_item_list_map = {}
  /\ m_id_label_map = EmptyMap /\ m_label_id_set_map = EmptyMap
  /\ m_next_id = 0 /\ deleted = {}

found(c, id) ==
  /\ id \in DOMAIN c.label
  /\ c.label[id] \in DOMAIN c.ids
  /\ id \in c.ids[c.label[id]]
  /\ id \in c.map

\* slip: the label goes with any of its ids
remove_x(c, id) ==
  IF ~found(c, id) THEN c
  ELSE [list |-> RemoveFirst(c.list, id), size |-> c.size - 1,
        map |-> c.map \ {id}, label |-> Without(c.label, id),
        ids |-> Without(c.ids, c.label[id])]

\* a label with no id left goes
remove(c, id) ==
  IF ~found(c, id) THEN c
  ELSE LET l == c.label[id]
           left == c.ids[l] \ {id} IN
       [list |-> RemoveFirst(c.list, id), size |-> c.size - 1,
        map |-> c.map \ {id}, label |-> Without(c.label, id),
        ids |-> IF left = {} THEN Without(c.ids, l) ELSE With(c.ids, l, left)]

\* slip: the newest entry goes
oldest_x(c) == Head(c.list)
oldest(c) == Last(c.list)

inserted(c, l, id) ==
  [list |-> <<id>> \o c.list, size |-> c.size + 1, map |-> c.map \cup {id},
   label |-> With(c.label, id, l),
   ids |-> With(c.ids, l, IF l \in DOMAIN c.ids THEN c.ids[l] \cup {id} ELSE {id})]

NlruBecomes(c) ==
  /\ m_item_list' = c.list /\ m_item_list_size' = c.size /\ m_item_list_map' = c.map
  /\ m_id_label_map' = c.label /\ m_label_id_set_map' = c.ids

\* insert, with the eviction it makes when the list is too long
Insert(l) ==
  LET c == inserted(cache, l, m_next_id) IN
  /\ m_next_id < MaxIds
  /\ m_next_id' = m_next_id + 1
  /\ IF c.size > MaxEntries
     THEN NlruBecomes(remove(c, oldest(c))) /\ deleted' = deleted \cup {oldest(c)}
     ELSE NlruBecomes(c) /\ UNCHANGED deleted

\* any id of the label may be the first of its unordered_set
Get(l) ==
  /\ l \in DOMAIN m_label_id_set_map
  /\ \E id \in m_label_id_set_map[l] : id \in m_item_list_map /\ NlruBecomes(remove(cache, id))
  /\ UNCHANGED <<m_next_id, deleted>>

\* the owner may call with an id that was evicted or taken long ago
RemoveId(id) ==
  /\ NlruBecomes(remove(cache, id))
  /\ UNCHANGED <<m_next_id, deleted>>

NlruNext ==
  \/ \E l \in Labels : Insert(l) \/ Get(l)
  \/ \E id \in 0 .. MaxIds - 1 : RemoveId(id)

NlruSpec == NlruInit /\ [][NlruNext]_nlru_vars

-----------------------------------------------------------------------------
(* Properties                                                              *)

\* The list, its count and the three indexes speak of the same entries after any series of
\* calls: remove leaves on the first index that misses the id, and what it leaves behind in
\* another is an iterator into an entry that is gone, or an entry get cannot find.
IndexesAgree ==
  /\ m_item_list_map = Range(m_item_list)
  /\ DOMAIN m_id_label_map = Range(m_item_list)
  /\ m_item_list_size = Len(m_item_list) /\ m_item_list_size = Cardinality(Range(m_item_list))
  /\ \A l \in DOMAIN m_label_id_set_map : m_label_id_set_map[l] # {}
  /\ \A l \in Labels :
       {id \in DOMAIN m_id_label_map : m_id_label_map[id] = l}
         = IF l \in DOMAIN m_label_id_set_map THEN m_label_id_set_map[l] ELSE {}

\* No more than m_max_entries are kept, and none that is older than one that was deleted for
\* want of room, whatever was taken out of the middle in between.
KeepsNewest ==
  /\ Len(m_item_list) <= MaxEntries
  /\ \A id \in deleted, kept \in Range(m_item_list) : id < kept
=============================================================================
