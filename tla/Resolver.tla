------------------------------ MODULE Resolver ------------------------------
(***************************************************************************)
(* nresolver over ai_cache: addresses are looked up in a cache of          *)
(* host_info objects, which expire, and else asked of getaddrinfo.  The    *)
(* cache is read from a file at start and written to it by the destructor, *)
(* which a crash may cut short.  An object is on the heap until deleted.   *)
(* A call of ai_cache is one step: the mutex makes it so, except in        *)
(* lookup_inline, which calls it without.                                  *)
(***************************************************************************)
EXTENDS Integers, FiniteSets, Functions, Maps

CONSTANTS
  Threads, Keys,
  Objs,        \* host_info objects, as many as can be needed at once
  Ttl,         \* 3600 s
  LateCopy,    \* may a second begin between a lookup, or nlookup's answer, and the copy
  MaxTime      \* bound on the clock

ResolverAssumption == Ttl \in Nat \ {0} /\ MaxTime \in Nat /\ LateCopy \in BOOLEAN

NoObj == 0

\* There is an object for every key, and one more for a thread that has none.
ObjsAssumption ==
  /\ NoObj \notin Objs
  /\ \A S \in SUBSET Keys :
       /\ \E f \in [S -> Objs] : IsInjective(f)
       /\ \A f \in [S -> Objs], p \in [Threads -> Objs \cup {NoObj}], t \in Threads :
            p[t] = NoObj => Objs \ (Range(f) \cup Range(p)) # {}

VARIABLES
  now,
  heap,        \* host_info objects that are not deleted, each with its key and m_expires_s
  m_ai_cache,  \* m_ai_cache_map
  file,        \* the cache file: m_expires_s of the keys in it
  use_cache,   \* m_use_cache
  up,          \* is there a resolver
  pc,          \* a thread's: "idle", "ask", "insert" or "copy"
  key, ptr,    \* what it looks up, and l_host_info
  since        \* when it found the entry, or asked for it

resolver_vars == <<now, heap, m_ai_cache, file, use_cache, up, pc, key, ptr, since>>
thread == <<pc, key, ptr, since>>

new_obj == CHOOSE o \in Objs : o \notin DOMAIN heap

ResolverInit ==
  /\ now = 0 /\ heap = EmptyMap /\ m_ai_cache = EmptyMap /\ file = EmptyMap
  /\ use_cache \in BOOLEAN /\ up = TRUE
  /\ pc = [t \in Threads |-> "idle"] /\ key = [t \in Threads |-> CHOOSE k \in Keys : TRUE]
  /\ ptr = [t \in Threads |-> NoObj] /\ since = [t \in Threads |-> 0]

cached(k) == k \in DOMAIN m_ai_cache
\* slip: an entry is good for ever
expired_x(o) == FALSE
expired(o) == now > heap[o].expires

ThreadBecomes(t, where, k, o, n_since) ==
  /\ pc' = [pc EXCEPT ![t] = where] /\ key' = [key EXCEPT ![t] = k]
  /\ ptr' = [ptr EXCEPT ![t] = o] /\ since' = [since EXCEPT ![t] = n_since]

\* lookup_tryfast, and what lookup_sync does first: the cache, where what is expired goes
Lookup(t, k) ==
  /\ up /\ pc[t] = "idle"
  /\ \/ /\ use_cache /\ cached(k) /\ ~expired(m_ai_cache[k])
        /\ ThreadBecomes(t, "copy", k, m_ai_cache[k], now)
        /\ UNCHANGED <<heap, m_ai_cache>>
     \/ /\ use_cache /\ cached(k) /\ expired(m_ai_cache[k])
        /\ heap' = Without(heap, m_ai_cache[k]) /\ m_ai_cache' = Without(m_ai_cache, k)
        /\ ThreadBecomes(t, "ask", k, NoObj, now)
     \/ /\ ~(use_cache /\ cached(k))
        /\ ThreadBecomes(t, "ask", k, NoObj, now)
        /\ UNCHANGED <<heap, m_ai_cache>>
  /\ UNCHANGED <<now, file, use_cache, up>>

\* lookup_inline up to nlookup, or the error tryfast returns for a name
Ask(t) ==
  /\ pc[t] = "ask"
  /\ \/ /\ heap' = With(heap, new_obj, [key |-> key[t], expires |-> now + Ttl])
        /\ ThreadBecomes(t, IF use_cache THEN "insert" ELSE "copy", key[t], new_obj, now)
     \/ ThreadBecomes(t, "idle", key[t], NoObj, now) /\ UNCHANGED heap
  /\ UNCHANGED <<now, m_ai_cache, file, use_cache, up>>

\* slip: the new object is forgotten when there is one already
dropped_x(o) == heap
dropped(o) == Without(heap, o)

\* ai_cache::lookup with an object to insert
InsertAnswer(t) ==
  /\ pc[t] = "insert"
  /\ LET k == key[t] IN
     \/ /\ cached(k) /\ ~expired(m_ai_cache[k])
        /\ heap' = dropped(ptr[t])
        /\ ThreadBecomes(t, "copy", k, m_ai_cache[k], now)
        /\ UNCHANGED m_ai_cache
     \/ /\ cached(k) /\ expired(m_ai_cache[k])
        /\ heap' = Without(heap, m_ai_cache[k])
        /\ m_ai_cache' = With(m_ai_cache, k, ptr[t])
        /\ ThreadBecomes(t, "copy", k, ptr[t], since[t])
     \/ /\ ~cached(k)
        /\ m_ai_cache' = With(m_ai_cache, k, ptr[t])
        /\ ThreadBecomes(t, "copy", k, ptr[t], since[t])
        /\ UNCHANGED heap
  /\ UNCHANGED <<now, file, use_cache, up>>

\* the answer is copied; without a cache the object is deleted
Copy(t) ==
  /\ pc[t] = "copy"
  /\ heap' = IF use_cache THEN heap ELSE Without(heap, ptr[t])
  /\ pc' = [pc EXCEPT ![t] = "idle"] /\ ptr' = [ptr EXCEPT ![t] = NoObj]
  /\ UNCHANGED <<now, m_ai_cache, file, use_cache, up, key, since>>

idle == \A t \in Threads : pc[t] = "idle"

\* ~ai_cache: the file is truncated, written and closed; a file cut short is no JSON array
Stop(whole) ==
  /\ up /\ idle
  /\ up' = FALSE
  /\ file' = IF ~use_cache THEN file
             ELSE IF whole THEN [k \in DOMAIN m_ai_cache |-> heap[m_ai_cache[k]].expires]
             ELSE EmptyMap
  /\ heap' = EmptyMap /\ m_ai_cache' = EmptyMap
  /\ UNCHANGED <<now, use_cache, thread>>

\* a new process: every entry of the file gets an object, expired or not
Start ==
  /\ ~up /\ up' = TRUE
  /\ use_cache' \in BOOLEAN
  /\ LET at == CHOOSE f \in [DOMAIN file -> Objs] : IsInjective(f) IN
     IF use_cache'
     THEN /\ m_ai_cache' = at
          /\ heap' = [o \in Range(at) |->
                        LET k == CHOOSE k \in DOMAIN at : at[k] = o
                        IN [key |-> k, expires |-> file[k]]]
     ELSE UNCHANGED <<m_ai_cache, heap>>
  /\ UNCHANGED <<now, file, thread>>

Tick ==
  /\ now < MaxTime /\ now' = now + 1
  /\ LateCopy \/ \A t \in Threads : pc[t] \in {"idle", "ask"}
  /\ UNCHANGED <<heap, m_ai_cache, file, use_cache, up, thread>>

ResolverNext ==
  \/ \E t \in Threads : (\E k \in Keys : Lookup(t, k)) \/ Ask(t) \/ InsertAnswer(t) \/ Copy(t)
  \/ Stop(TRUE) \/ Stop(FALSE) \/ Start \/ Tick

ResolverSpec == ResolverInit /\ [][ResolverNext]_resolver_vars

-----------------------------------------------------------------------------
(* Properties                                                              *)

\* threads whose lookup owns the object it has
making == {t \in Threads : pc[t] = "insert" \/ (pc[t] = "copy" /\ ~use_cache)}
made == {ptr[t] : t \in making}

\* Every host_info on the heap has one owner, a key of the cache or the lookup that made it:
\* no path through expiry, insertion, an entry that is there already, failure, shutdown or
\* restart loses one or leaves the cache a pointer to one that was deleted.
OneOwner ==
  /\ DOMAIN heap = Range(m_ai_cache) \cup made
  /\ IsInjective(m_ai_cache)
  /\ made \cap Range(m_ai_cache) = {}
  /\ \A t, u \in making : ptr[t] = ptr[u] => t = u

\* An answer is about to be copied from an object that is still there, of the host asked for,
\* and that had not expired when it was looked up, in this process or the one that left the file.
AnswerHolds ==
  \A t \in Threads : pc[t] = "copy" =>
    /\ ptr[t] \in DOMAIN heap
    /\ heap[ptr[t]].key = key[t]
    /\ heap[ptr[t]].expires >= since[t]
=============================================================================
