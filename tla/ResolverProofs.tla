--------------------------- MODULE ResolverProofs ---------------------------
(***************************************************************************)
(* The address cache neither loses a host_info nor keeps one that was      *)
(* deleted, for any threads and hosts.                                     *)
(***************************************************************************)
EXTENDS Resolver, TLAPS

TypeOK ==
  /\ use_cache \in BOOLEAN /\ up \in BOOLEAN
  /\ DOMAIN m_ai_cache \in SUBSET Keys
  /\ m_ai_cache \in [DOMAIN m_ai_cache -> Objs]
  /\ DOMAIN heap \in SUBSET Objs /\ DOMAIN file \in SUBSET Keys
  /\ pc \in [Threads -> {"idle", "ask", "insert", "copy"}]
  /\ ptr \in [Threads -> Objs \cup {NoObj}]
  /\ key \in [Threads -> {key[t] : t \in Threads}]
  /\ \A t \in Threads : pc[t] # "idle" => key[t] \in Keys

\* A thread holds an object from nlookup, or the cache, to the copy, and inserts only what it
\* may; a resolver that is gone leaves no object and no thread in it.
Calls ==
  /\ \A t \in Threads : pc[t] \in {"idle", "ask"} <=> ptr[t] = NoObj
  /\ \A t \in Threads : pc[t] = "insert" => use_cache
  /\ ~use_cache => m_ai_cache = EmptyMap
  /\ ~up => idle /\ heap = EmptyMap /\ m_ai_cache = EmptyMap

IInv == ObjsAssumption /\ TypeOK /\ Calls /\ OneOwner

USE DEF thread

LEMMA InitIInv == ObjsAssumption /\ ResolverInit => IInv
<1> SUFFICES ASSUME ObjsAssumption, ResolverInit PROVE TypeOK /\ Calls /\ OneOwner
  BY DEF IInv
<1>1. DOMAIN EmptyMap = {}
  BY DEF EmptyMap
<1>2. TypeOK
  BY <1>1 DEF ResolverInit, TypeOK
<1>3. Calls
  BY DEF ResolverInit, Calls, idle
<1>4. OneOwner
  BY <1>1 DEF ResolverInit, OneOwner, Range, IsInjective, making, made
<1> QED
  BY <1>2, <1>3, <1>4

\* Deleting from a map whose values differ, and adding to it or replacing in it.
LEMMA RangeWithout ==
  ASSUME NEW f, IsInjective(f), NEW k \in DOMAIN f
  PROVE  DOMAIN Without(f, k) = DOMAIN f \ {k} /\ IsInjective(Without(f, k))
         /\ Range(Without(f, k)) = Range(f) \ {f[k]}
  BY DEF Without, Range, IsInjective

LEMMA WithInjective ==
  ASSUME NEW f, IsInjective(f), NEW k, NEW v, v \notin Range(f)
  PROVE  DOMAIN With(f, k, v) = DOMAIN f \cup {k} /\ IsInjective(With(f, k, v))
  BY DEF With, Range, IsInjective

-----------------------------------------------------------------------------
LEMMA LookupIInv ==
  ASSUME IInv, NEW t \in Threads, NEW k \in Keys, Lookup(t, k)
  PROVE  IInv'
<1> USE DEF IInv
<1>1. pc[t] = "idle" /\ ptr[t] = NoObj /\ NoObj \notin Objs /\ t \notin making
  BY DEF Lookup, Calls, ObjsAssumption, making
<1>2. CASE use_cache /\ cached(k)
  <2>1. m_ai_cache[k] \in Objs
    BY <1>2 DEF TypeOK, cached
  <2>2. CASE ~expired(m_ai_cache[k])
    <3>1. ThreadBecomes(t, "copy", k, m_ai_cache[k], now) /\ UNCHANGED <<heap, m_ai_cache>>
      BY <1>2, <2>2 DEF Lookup
    <3>2. TypeOK' /\ Calls'
      BY <1>1, <1>2, <2>1, <3>1 DEF Lookup, ThreadBecomes, TypeOK, Calls, idle
    <3>3. making' = making /\ \A u \in making : ptr'[u] = ptr[u]
      BY <1>1, <1>2, <3>1 DEF Lookup, ThreadBecomes, making, TypeOK
    <3>4. made' = made
      BY <3>3 DEF made
    <3> QED
      BY <3>1, <3>2, <3>3, <3>4 DEF OneOwner, ObjsAssumption
  <2>3. CASE expired(m_ai_cache[k])
    <3>1. /\ ThreadBecomes(t, "ask", k, NoObj, now)
          /\ heap' = Without(heap, m_ai_cache[k]) /\ m_ai_cache' = Without(m_ai_cache, k)
      BY <1>2, <2>3 DEF Lookup
    <3>2. /\ DOMAIN m_ai_cache' = DOMAIN m_ai_cache \ {k} /\ IsInjective(m_ai_cache')
          /\ Range(m_ai_cache') = Range(m_ai_cache) \ {m_ai_cache[k]}
      BY <1>2, <3>1, RangeWithout DEF OneOwner, cached
    <3>3. DOMAIN heap' = DOMAIN heap \ {m_ai_cache[k]}
      BY <3>1 DEF Without
    <3>4. m_ai_cache' \in [DOMAIN m_ai_cache' -> Objs]
      BY <3>1, <3>2 DEF TypeOK, Without
    <3>5. TypeOK' /\ Calls'
      BY <1>1, <1>2, <3>1, <3>2, <3>3, <3>4 DEF Lookup, ThreadBecomes, TypeOK, Calls, idle
    <3>6. making' = making /\ \A u \in making : ptr'[u] = ptr[u]
      BY <1>1, <1>2, <3>1 DEF Lookup, ThreadBecomes, making, TypeOK
    <3>7. made' = made
      BY <3>6 DEF made
    <3>8. m_ai_cache[k] \in Range(m_ai_cache)
      BY <1>2 DEF cached, Range
    <3> QED
      BY <3>2, <3>3, <3>5, <3>6, <3>7, <3>8 DEF OneOwner, ObjsAssumption
  <2> QED
    BY <2>2, <2>3
<1>3. CASE ~(use_cache /\ cached(k))
  <2>1. ThreadBecomes(t, "ask", k, NoObj, now) /\ UNCHANGED <<heap, m_ai_cache>>
    BY <1>3 DEF Lookup
  <2>2. TypeOK' /\ Calls'
    BY <1>1, <2>1 DEF Lookup, ThreadBecomes, TypeOK, Calls, idle
  <2>3. making' = making /\ \A u \in making : ptr'[u] = ptr[u]
    BY <1>1, <2>1 DEF Lookup, ThreadBecomes, making, TypeOK
  <2>4. made' = made
    BY <2>3 DEF made
  <2> QED
    BY <2>1, <2>2, <2>3, <2>4 DEF OneOwner, ObjsAssumption
<1> QED
  BY <1>2, <1>3

\* The object nlookup fills is a new one.
LEMMA FreshObject ==
  ASSUME IInv, NEW t \in Threads, ptr[t] = NoObj
  PROVE  new_obj \in Objs /\ new_obj \notin DOMAIN heap
<1> USE DEF IInv
<1>1. Objs \ (Range(m_ai_cache) \cup Range(ptr)) # {}
  BY DEF ObjsAssumption, TypeOK
<1>2. made \subseteq Range(ptr)
  BY DEF made, making, Range, TypeOK
<1>3. \E o \in Objs : o \notin DOMAIN heap
  BY <1>1, <1>2 DEF OneOwner
<1> QED
  BY <1>3 DEF new_obj

LEMMA AskIInv ==
  ASSUME IInv, NEW t \in Threads, Ask(t)
  PROVE  IInv'
<1> USE DEF IInv
<1>1. pc[t] = "ask" /\ ptr[t] = NoObj /\ NoObj \notin Objs /\ t \notin making /\ key[t] \in Keys
  BY DEF Ask, Calls, ObjsAssumption, making, TypeOK
<1>2. UNCHANGED <<now, m_ai_cache, file, use_cache, up>>
  BY DEF Ask
<1>3. CASE ThreadBecomes(t, "idle", key[t], NoObj, now) /\ UNCHANGED heap
  <2>1. TypeOK' /\ Calls'
    BY <1>1, <1>2, <1>3 DEF ThreadBecomes, TypeOK, Calls, idle
  <2>2. making' = making /\ \A u \in making : ptr'[u] = ptr[u]
    BY <1>1, <1>2, <1>3 DEF ThreadBecomes, making, TypeOK
  <2>3. made' = made
    BY <2>2 DEF made
  <2> QED
    BY <1>2, <1>3, <2>1, <2>2, <2>3 DEF OneOwner, ObjsAssumption
<1>4. ASSUME heap' = With(heap, new_obj, [key |-> key[t], expires |-> now + Ttl]),
             ThreadBecomes(t, IF use_cache THEN "insert" ELSE "copy", key[t], new_obj, now)
      PROVE  IInv'
  <2>1. new_obj \in Objs /\ new_obj \notin DOMAIN heap
    BY <1>1, FreshObject
  <2>2. DOMAIN heap' = DOMAIN heap \cup {new_obj}
    BY <1>4 DEF With
  <2>3. TypeOK' /\ Calls'
    BY <1>1, <1>2, <1>4, <2>1, <2>2 DEF ThreadBecomes, TypeOK, Calls, idle
  <2>4. /\ making' = making \cup {t} /\ ptr'[t] = new_obj
        /\ \A u \in making : ptr'[u] = ptr[u]
    BY <1>1, <1>2, <1>4 DEF ThreadBecomes, making, TypeOK
  <2>5. made' = made \cup {new_obj}
    BY <1>1, <2>4 DEF made
  <2>6. \A u \in making : ptr[u] \in DOMAIN heap
    BY DEF OneOwner, made
  <2>7. /\ DOMAIN heap' = Range(m_ai_cache') \cup made' /\ made' \cap Range(m_ai_cache') = {}
        /\ IsInjective(m_ai_cache')
    BY <1>2, <2>1, <2>2, <2>5 DEF OneOwner
  <2>8. \A u, v \in making' : ptr'[u] = ptr'[v] => u = v
    BY <2>1, <2>4, <2>6 DEF OneOwner
  <2> QED
    BY <2>3, <2>7, <2>8 DEF OneOwner, ObjsAssumption
<1> QED
  BY <1>3, <1>4 DEF Ask

LEMMA InsertIInv ==
  ASSUME IInv, NEW t \in Threads, InsertAnswer(t)
  PROVE  IInv'
<1> USE DEF IInv
<1> DEFINE k == key[t]
<1>0. k \in Keys /\ cached(k) = (k \in DOMAIN m_ai_cache)
  BY DEF InsertAnswer, TypeOK, cached
<1>1. /\ pc[t] = "insert" /\ use_cache /\ ptr[t] \in Objs /\ NoObj \notin Objs
      /\ t \in making /\ k \in Keys /\ ptr[t] \in made
  BY DEF InsertAnswer, Calls, ObjsAssumption, making, made, TypeOK
<1>2. UNCHANGED <<now, file, use_cache, up>>
  BY DEF InsertAnswer
<1>3. up
  BY <1>1 DEF Calls, idle
<1>4. ASSUME NEW o \in Objs, NEW n, ThreadBecomes(t, "copy", k, o, n)
      PROVE  /\ making' = making \ {t} /\ made' = made \ {ptr[t]}
             /\ \A u \in making' : ptr'[u] = ptr[u]
             /\ pc' \in [Threads -> {"idle", "ask", "insert", "copy"}]
             /\ ptr' \in [Threads -> Objs \cup {NoObj}]
             /\ key' \in [Threads -> {key'[u] : u \in Threads}]
             /\ \A u \in Threads : pc'[u] # "idle" => key'[u] \in Keys
             /\ \A u \in Threads : pc'[u] \in {"idle", "ask"} <=> ptr'[u] = NoObj
             /\ \A u \in Threads : pc'[u] = "insert" => use_cache
  <2>1. /\ pc' = [pc EXCEPT ![t] = "copy"] /\ key' = [key EXCEPT ![t] = k]
        /\ ptr' = [ptr EXCEPT ![t] = o]
    BY <1>4 DEF ThreadBecomes
  <2>2. making' = making \ {t} /\ \A u \in making' : ptr'[u] = ptr[u]
    BY <1>1, <1>2, <2>1 DEF making, TypeOK
  <2>3. made' = made \ {ptr[t]}
    BY <1>1, <2>2 DEF made, OneOwner
  <2> QED
    BY <1>1, <2>1, <2>2, <2>3 DEF TypeOK, Calls
<1>5. CASE cached(k) /\ ~expired(m_ai_cache[k])
  <2>1. /\ heap' = Without(heap, ptr[t]) /\ UNCHANGED m_ai_cache
        /\ ThreadBecomes(t, "copy", k, m_ai_cache[k], now)
    BY <1>5 DEF InsertAnswer, dropped
  <2>2. m_ai_cache[k] \in Objs /\ DOMAIN heap' = DOMAIN heap \ {ptr[t]}
    BY <1>5, <2>1 DEF cached, TypeOK, Without
  <2>3. TypeOK' /\ Calls'
    BY <1>1, <1>2, <1>3, <1>4, <2>1, <2>2 DEF TypeOK, Calls
  <2>4. making' = making \ {t} /\ made' = made \ {ptr[t]} /\ \A u \in making' : ptr'[u] = ptr[u]
    BY <1>4, <2>1, <2>2
  <2>5. /\ DOMAIN heap' = Range(m_ai_cache') \cup made' /\ made' \cap Range(m_ai_cache') = {}
        /\ IsInjective(m_ai_cache')
    BY <1>1, <2>1, <2>2, <2>4 DEF OneOwner
  <2>6. \A u, v \in making' : ptr'[u] = ptr'[v] => u = v
    BY <2>4 DEF OneOwner
  <2> QED
    BY <2>3, <2>5, <2>6 DEF OneOwner, ObjsAssumption
<1>6. CASE ~cached(k) \/ expired(m_ai_cache[k])
  <2>1. /\ m_ai_cache' = With(m_ai_cache, k, ptr[t]) /\ ThreadBecomes(t, "copy", k, ptr[t], since[t])
        /\ heap' = IF cached(k) THEN Without(heap, m_ai_cache[k]) ELSE heap
    BY <1>6 DEF InsertAnswer
  <2>2. /\ DOMAIN m_ai_cache' = DOMAIN m_ai_cache \cup {k} /\ IsInjective(m_ai_cache')
        /\ Range(m_ai_cache')
             = (Range(m_ai_cache) \ (IF cached(k) THEN {m_ai_cache[k]} ELSE {})) \cup {ptr[t]}
    <3>1. IsInjective(m_ai_cache) /\ ptr[t] \notin Range(m_ai_cache)
      BY <1>1 DEF OneOwner
    <3>2. m_ai_cache' = With(m_ai_cache, k, ptr[t])
      BY <2>1
    <3> HIDE DEF k, IInv
    <3>3. DOMAIN m_ai_cache' = DOMAIN m_ai_cache \cup {k} /\ IsInjective(m_ai_cache')
      BY <3>1, <3>2, WithInjective
    <3>4. k \in DOMAIN m_ai_cache =>
            Range(m_ai_cache') = (Range(m_ai_cache) \ {m_ai_cache[k]}) \cup {ptr[t]}
      BY <3>1, <3>2 DEF With, Range, IsInjective
    <3>5. k \notin DOMAIN m_ai_cache => Range(m_ai_cache') = Range(m_ai_cache) \cup {ptr[t]}
      BY <3>1, <3>2 DEF With, Range
    <3> QED
      BY <1>0, <3>3, <3>4, <3>5
  <2>3. DOMAIN heap' = DOMAIN heap \ (IF cached(k) THEN {m_ai_cache[k]} ELSE {})
    BY <2>1 DEF Without
  <2>4. m_ai_cache' \in [DOMAIN m_ai_cache' -> Objs]
    BY <1>1, <2>1, <2>2 DEF TypeOK, With
  <2>5. cached(k) => m_ai_cache[k] \in Range(m_ai_cache)
    BY DEF cached, Range
  <2>6. TypeOK' /\ Calls'
    BY <1>1, <1>2, <1>3, <1>4, <2>1, <2>2, <2>3, <2>4 DEF TypeOK, Calls
  <2>7. making' = making \ {t} /\ made' = made \ {ptr[t]} /\ \A u \in making' : ptr'[u] = ptr[u]
    BY <1>1, <1>4, <2>1
  <2>8. DOMAIN heap' = Range(m_ai_cache') \cup made' /\ made' \cap Range(m_ai_cache') = {}
    BY <1>1, <2>2, <2>3, <2>5, <2>7 DEF OneOwner
  <2>9. \A u, v \in making' : ptr'[u] = ptr'[v] => u = v
    BY <2>7 DEF OneOwner
  <2> QED
    BY <2>2, <2>6, <2>8, <2>9 DEF OneOwner, ObjsAssumption
<1> QED
  BY <1>5, <1>6

LEMMA CopyIInv ==
  ASSUME IInv, NEW t \in Threads, Copy(t)
  PROVE  IInv'
<1> USE DEF IInv
<1>1. UNCHANGED <<now, m_ai_cache, file, use_cache, up, key>> /\ pc[t] = "copy" /\ ptr[t] # NoObj
  BY DEF Copy, Calls
<1>2. pc' = [pc EXCEPT ![t] = "idle"] /\ ptr' = [ptr EXCEPT ![t] = NoObj]
  BY DEF Copy
<1>3. DOMAIN heap' = IF use_cache THEN DOMAIN heap ELSE DOMAIN heap \ {ptr[t]}
  BY DEF Copy, Without
<1>4. TypeOK'
  BY <1>1, <1>2, <1>3 DEF TypeOK
<1>5. Calls'
  BY <1>1, <1>2 DEF Calls, TypeOK, idle
<1>6. making' = making \ {t} /\ \A u \in making' : ptr'[u] = ptr[u]
  BY <1>1, <1>2 DEF making, TypeOK
<1>7. CASE use_cache
  <2>1. t \notin making
    BY <1>1, <1>7 DEF making
  <2>2. made' = made
    BY <1>6, <2>1 DEF made
  <2> QED
    BY <1>1, <1>3, <1>4, <1>5, <1>6, <1>7, <2>2 DEF OneOwner, ObjsAssumption
<1>8. CASE ~use_cache
  <2>1. t \in making /\ ptr[t] \in made
    BY <1>1, <1>8 DEF making, made
  <2>2. made' = made \ {ptr[t]}
    BY <1>6, <2>1 DEF made, OneOwner
  <2> QED
    BY <1>1, <1>3, <1>4, <1>5, <1>6, <1>8, <2>1, <2>2 DEF OneOwner, ObjsAssumption
<1> QED
  BY <1>4, <1>7, <1>8 DEF TypeOK

\* The process ends, and another begins with what the file holds.
LEMMA StopStartIInv ==
  ASSUME IInv, Stop(TRUE) \/ Stop(FALSE) \/ Start
  PROVE  IInv'
<1> USE DEF IInv
<1>0. DOMAIN EmptyMap = {} /\ Range(EmptyMap) = {} /\ IsInjective(EmptyMap) /\ EmptyMap \in [{} -> Objs]
  BY DEF EmptyMap, Range, IsInjective
<1>1. making' = {} /\ made' = {} /\ idle /\ idle'
  <2>1. idle /\ UNCHANGED thread
    BY DEF Stop, Start, Calls
  <2> QED
    BY <2>1 DEF making, made, idle
<1>2. UNCHANGED <<pc, key, ptr, since>> /\ up \in BOOLEAN
  BY DEF Stop, Start, TypeOK
<1>3. CASE Stop(TRUE) \/ Stop(FALSE)
  <2>1. /\ heap' = EmptyMap /\ m_ai_cache' = EmptyMap /\ up' = FALSE /\ UNCHANGED use_cache
        /\ \/ file' = file \/ file' = EmptyMap
           \/ file' = [k \in DOMAIN m_ai_cache |-> heap[m_ai_cache[k]].expires]
    BY <1>3 DEF Stop
  <2>2. DOMAIN file' \in SUBSET Keys
    BY <1>0, <2>1 DEF TypeOK
  <2>3. TypeOK'
    BY <1>0, <1>2, <2>1, <2>2 DEF TypeOK
  <2>4. Calls'
    BY <1>1, <1>2, <2>1 DEF Calls, idle
  <2> QED
    BY <1>0, <1>1, <2>1, <2>3, <2>4 DEF OneOwner, ObjsAssumption
<1>4. CASE Start
  <2> DEFINE at == CHOOSE f \in [DOMAIN file -> Objs] : IsInjective(f)
  <2>1. at \in [DOMAIN file -> Objs] /\ IsInjective(at)
    BY DEF ObjsAssumption, TypeOK
  <2>2. /\ use_cache' \in BOOLEAN /\ up' = TRUE /\ UNCHANGED file
        /\ \/ use_cache' /\ m_ai_cache' = at /\ DOMAIN heap' = Range(at)
           \/ ~use_cache' /\ m_ai_cache' = EmptyMap /\ heap' = EmptyMap
    BY <1>4 DEF Start, Calls
  <2>3. Range(at) \in SUBSET Objs /\ DOMAIN at = DOMAIN file
    BY <2>1 DEF Range
  <2> HIDE DEF at
  <2>4. TypeOK'
    BY <1>0, <1>2, <2>1, <2>2, <2>3 DEF TypeOK
  <2>5. Calls'
    BY <1>1, <1>2, <2>2 DEF Calls, idle
  <2> QED
    BY <1>0, <1>1, <2>1, <2>2, <2>4, <2>5 DEF OneOwner, ObjsAssumption
<1> QED
  BY <1>3, <1>4

LEMMA NextIInv == IInv /\ [ResolverNext]_resolver_vars => IInv'
<1> SUFFICES ASSUME IInv, [ResolverNext]_resolver_vars PROVE IInv'
  OBVIOUS
<1>1. ASSUME NEW t \in Threads, (\E k \in Keys : Lookup(t, k)) \/ Ask(t) \/ InsertAnswer(t) \/ Copy(t)
      PROVE  IInv'
  BY <1>1, LookupIInv, AskIInv, InsertIInv, CopyIInv
<1>2. CASE Tick \/ UNCHANGED resolver_vars
  <2>1. UNCHANGED <<heap, m_ai_cache, file, use_cache, up, pc, key, ptr, since>>
    BY <1>2 DEF Tick, resolver_vars
  <2>2. TypeOK' /\ Calls'
    BY <2>1 DEF IInv, TypeOK, Calls, idle
  <2>3. making' = making /\ made' = made
    BY <2>1 DEF making, made
  <2> QED
    BY <2>1, <2>2, <2>3 DEF IInv, OneOwner, ObjsAssumption
<1> QED
  BY <1>1, <1>2, StopStartIInv DEF ResolverNext

\* Expiry, insertion, an entry that is there already, failure, shutdown and restart neither
\* lose a host_info nor leave the cache one that was deleted.
THEOREM OneOwnerHolds == ObjsAssumption => (ResolverSpec => []OneOwner)
<1>1. ObjsAssumption /\ ResolverInit => IInv
  BY InitIInv
<1>2. IInv /\ [ResolverNext]_resolver_vars => IInv'
  BY NextIInv
<1>3. IInv => OneOwner
  BY DEF IInv
<1> QED
  BY <1>1, <1>2, <1>3, PTL DEF ResolverSpec

-----------------------------------------------------------------------------
(* Answers, if no second begins between a lookup and its copy.             *)

\* Every object is of its key, and a thread that has one has it of its host and before it
\* expires; one of the cache is the cache's still.
Answers ==
  /\ \A o \in DOMAIN heap : heap[o].expires \in Int
  /\ \A k \in DOMAIN file : file[k] \in Int
  /\ \A k \in DOMAIN m_ai_cache : heap[m_ai_cache[k]].key = k
  /\ \A t \in Threads : pc[t] \in {"insert", "copy"} =>
       /\ ptr[t] \in DOMAIN heap /\ heap[ptr[t]].key = key[t] /\ heap[ptr[t]].expires >= now
       /\ since[t] \in Int /\ since[t] <= now
  /\ \A t \in Threads : pc[t] = "copy" /\ use_cache => ptr[t] \in Range(m_ai_cache)

AInv ==
  /\ ResolverAssumption /\ ~LateCopy /\ now \in Nat /\ since \in [Threads -> Nat]
  /\ IInv /\ Answers

LEMMA InitAInv == ResolverAssumption /\ ~LateCopy /\ ObjsAssumption /\ ResolverInit => AInv
  BY InitIInv DEF AInv, ResolverInit, Answers, EmptyMap

\* What the cache holds is on the heap.
LEMMA CacheOnHeap ==
  ASSUME IInv, NEW k \in DOMAIN m_ai_cache
  PROVE  m_ai_cache[k] \in DOMAIN heap /\ m_ai_cache[k] \in Range(m_ai_cache)
  BY DEF IInv, OneOwner, Range

\* Deleting objects that nobody has in hand.
LEMMA HeapShrinks ==
  ASSUME NEW o, heap' = Without(heap, o)
  PROVE  DOMAIN heap' = DOMAIN heap \ {o} /\ \A p \in DOMAIN heap' : heap'[p] = heap[p]
  BY DEF Without

LEMMA LookupAnswers ==
  ASSUME AInv, NEW t \in Threads, NEW k \in Keys, Lookup(t, k)
  PROVE  Answers'
<1> USE DEF AInv, IInv, TypeOK, ResolverAssumption
<1>1. UNCHANGED <<now, file, use_cache, up>> /\ pc[t] = "idle"
  BY DEF Lookup
<1>2. CASE use_cache /\ cached(k) /\ ~expired(m_ai_cache[k])
  <2>1. ThreadBecomes(t, "copy", k, m_ai_cache[k], now) /\ UNCHANGED <<heap, m_ai_cache>>
    BY <1>2 DEF Lookup
  <2>2. m_ai_cache[k] \in DOMAIN heap /\ m_ai_cache[k] \in Range(m_ai_cache)
    BY <1>2, CacheOnHeap DEF cached
  <2>3. heap[m_ai_cache[k]].key = k /\ heap[m_ai_cache[k]].expires >= now
    BY <1>2, <2>2 DEF Answers, expired, cached
  <2> QED
    BY <1>1, <2>1, <2>2, <2>3 DEF Answers, ThreadBecomes
<1>3. CASE use_cache /\ cached(k) /\ expired(m_ai_cache[k])
  <2> DEFINE o == m_ai_cache[k]
  <2>1. /\ ThreadBecomes(t, "ask", k, NoObj, now)
        /\ heap' = Without(heap, o) /\ m_ai_cache' = Without(m_ai_cache, k)
    BY <1>3 DEF Lookup
  <2>2. DOMAIN heap' = DOMAIN heap \ {o} /\ \A p \in DOMAIN heap' : heap'[p] = heap[p]
    BY <2>1, HeapShrinks
  <2>3. /\ DOMAIN m_ai_cache' = DOMAIN m_ai_cache \ {k}
        /\ \A l \in DOMAIN m_ai_cache' : m_ai_cache'[l] = m_ai_cache[l] /\ m_ai_cache'[l] # o
        /\ Range(m_ai_cache') = Range(m_ai_cache) \ {o}
    BY <1>3, <2>1 DEF OneOwner, IsInjective, Range, Without, cached
  <2>4. o \in DOMAIN heap /\ heap[o].expires < now
    BY <1>3, CacheOnHeap DEF expired, cached, Answers
  <2>5. \A l \in DOMAIN m_ai_cache' : m_ai_cache'[l] \in DOMAIN heap'
    BY <2>2, <2>3, CacheOnHeap
  <2>6. \A u \in Threads : pc[u] \in {"insert", "copy"} => ptr[u] # o
    BY <2>4 DEF Answers
  <2> HIDE DEF o
  <2> QED
    BY <1>1, <2>1, <2>2, <2>3, <2>5, <2>6 DEF Answers, ThreadBecomes
<1>4. CASE ~(use_cache /\ cached(k))
  <2>1. ThreadBecomes(t, "ask", k, NoObj, now) /\ UNCHANGED <<heap, m_ai_cache>>
    BY <1>4 DEF Lookup
  <2> QED
    BY <1>1, <2>1 DEF Answers, ThreadBecomes
<1> QED
  BY <1>2, <1>3, <1>4

LEMMA AskAnswers ==
  ASSUME AInv, NEW t \in Threads, Ask(t)
  PROVE  Answers'
<1> USE DEF AInv, IInv, TypeOK, ResolverAssumption
<1>1. UNCHANGED <<now, m_ai_cache, file, use_cache, up>> /\ pc[t] = "ask" /\ ptr[t] = NoObj
  BY DEF Ask, Calls
<1>2. CASE ThreadBecomes(t, "idle", key[t], NoObj, now) /\ UNCHANGED heap
  BY <1>1, <1>2 DEF Answers, ThreadBecomes
<1>3. ASSUME heap' = With(heap, new_obj, [key |-> key[t], expires |-> now + Ttl]),
             ThreadBecomes(t, IF use_cache THEN "insert" ELSE "copy", key[t], new_obj, now)
      PROVE  Answers'
  <2>1. new_obj \notin DOMAIN heap
    BY <1>1, FreshObject
  <2>2. /\ DOMAIN heap' = DOMAIN heap \cup {new_obj}
        /\ \A p \in DOMAIN heap : heap'[p] = heap[p]
        /\ heap'[new_obj].key = key[t] /\ heap'[new_obj].expires = now + Ttl
    BY <1>3, <2>1 DEF With
  <2>3. \A l \in DOMAIN m_ai_cache : m_ai_cache[l] \in DOMAIN heap
    BY CacheOnHeap
  <2> HIDE DEF new_obj
  <2> QED
    BY <1>1, <1>3, <2>1, <2>2, <2>3 DEF Answers, ThreadBecomes
<1> QED
  BY <1>2, <1>3 DEF Ask

LEMMA InsertAnswers ==
  ASSUME AInv, NEW t \in Threads, InsertAnswer(t)
  PROVE  Answers'
<1> USE DEF AInv, IInv, TypeOK, ResolverAssumption
<1> DEFINE k == key[t]
<1>1. UNCHANGED <<now, file, use_cache, up>> /\ pc[t] = "insert" /\ k \in Keys /\ use_cache
  BY DEF InsertAnswer, Calls
<1>2. t \in making /\ ptr[t] \in made /\ ptr[t] \notin Range(m_ai_cache)
  BY <1>1 DEF making, made, OneOwner
<1>3. CASE cached(k) /\ ~expired(m_ai_cache[k])
  <2>1. /\ heap' = Without(heap, ptr[t]) /\ UNCHANGED m_ai_cache
        /\ ThreadBecomes(t, "copy", k, m_ai_cache[k], now)
    BY <1>3 DEF InsertAnswer, dropped
  <2>2. DOMAIN heap' = DOMAIN heap \ {ptr[t]} /\ \A p \in DOMAIN heap' : heap'[p] = heap[p]
    BY <2>1, HeapShrinks
  <2>3. \A l \in DOMAIN m_ai_cache : m_ai_cache[l] \in DOMAIN heap' /\ m_ai_cache[l] \in Range(m_ai_cache)
    BY <1>2, <2>2, CacheOnHeap
  <2>4. heap[m_ai_cache[k]].key = k /\ heap[m_ai_cache[k]].expires >= now
    BY <1>3, CacheOnHeap DEF Answers, expired, cached
  <2>5. \A u \in Threads \ {t} : pc[u] \in {"insert", "copy"} => ptr[u] # ptr[t]
    BY <1>1, <1>2 DEF Answers, OneOwner, making
  <2> QED
    BY <1>1, <1>3, <2>1, <2>2, <2>3, <2>4, <2>5 DEF Answers, ThreadBecomes, cached
<1>4. CASE ~cached(k) \/ expired(m_ai_cache[k])
  <2>1. /\ m_ai_cache' = With(m_ai_cache, k, ptr[t]) /\ ThreadBecomes(t, "copy", k, ptr[t], since[t])
        /\ heap' = IF cached(k) THEN Without(heap, m_ai_cache[k]) ELSE heap
    BY <1>4 DEF InsertAnswer
  <2>2. /\ DOMAIN m_ai_cache' = DOMAIN m_ai_cache \cup {k} /\ m_ai_cache'[k] = ptr[t]
        /\ \A l \in DOMAIN m_ai_cache \ {k} : m_ai_cache'[l] = m_ai_cache[l]
    BY <2>1 DEF With
  <2>3. /\ DOMAIN heap' = DOMAIN heap \ (IF cached(k) THEN {m_ai_cache[k]} ELSE {})
        /\ \A p \in DOMAIN heap' : heap'[p] = heap[p]
    BY <2>1 DEF Without
  <2>4. cached(k) => m_ai_cache[k] \in DOMAIN heap /\ heap[m_ai_cache[k]].expires < now
    BY <1>4, CacheOnHeap DEF expired, cached, Answers
  <2>5. \A u \in Threads : pc[u] \in {"insert", "copy"} => ptr[u] \in DOMAIN heap'
    BY <2>3, <2>4 DEF Answers
  <2>6. \A l \in DOMAIN m_ai_cache \ {k} : m_ai_cache[l] \in DOMAIN heap'
    BY <2>3, CacheOnHeap DEF OneOwner, IsInjective, cached
  <2>7. \A u \in Threads \ {t} : pc[u] = "copy" => ptr[u] \in Range(m_ai_cache')
    <3>1. SUFFICES ASSUME NEW u \in Threads \ {t}, pc[u] = "copy" PROVE ptr[u] \in Range(m_ai_cache')
      OBVIOUS
    <3>2. PICK l \in DOMAIN m_ai_cache : ptr[u] = m_ai_cache[l]
      BY <1>1, <3>1 DEF Answers, Range
    <3>3. l # k
      BY <2>4, <3>1, <3>2 DEF Answers, cached
    <3> QED
      BY <2>2, <3>2, <3>3 DEF Range
  <2>8. ptr[t] \in Range(m_ai_cache')
    BY <2>2 DEF Range
  <2> HIDE DEF k
  <2>9. /\ \A o \in DOMAIN heap' : heap'[o].expires \in Int
        /\ \A l \in DOMAIN file' : file'[l] \in Int
    BY <1>1, <2>3 DEF Answers
  <2>10. \A l \in DOMAIN m_ai_cache' : heap'[m_ai_cache'[l]].key = l
    BY <1>1, <2>2, <2>3, <2>5, <2>6 DEF Answers, k
  <2>11. \A u \in Threads : pc'[u] \in {"insert", "copy"} =>
           /\ ptr'[u] \in DOMAIN heap' /\ heap'[ptr'[u]].key = key'[u]
           /\ heap'[ptr'[u]].expires >= now' /\ since'[u] \in Int /\ since'[u] <= now'
    BY <1>1, <2>1, <2>3, <2>5 DEF Answers, ThreadBecomes, k
  <2>12. \A u \in Threads : pc'[u] = "copy" /\ use_cache' => ptr'[u] \in Range(m_ai_cache')
    BY <1>1, <2>1, <2>7, <2>8 DEF ThreadBecomes
  <2> QED
    BY <2>9, <2>10, <2>11, <2>12 DEF Answers
<1> QED
  BY <1>3, <1>4

LEMMA CopyAnswers ==
  ASSUME AInv, NEW t \in Threads, Copy(t)
  PROVE  Answers'
<1> USE DEF AInv, IInv, TypeOK
<1>1. /\ UNCHANGED <<now, m_ai_cache, file, use_cache, up, key, since>> /\ pc[t] = "copy"
      /\ pc' = [pc EXCEPT ![t] = "idle"] /\ ptr' = [ptr EXCEPT ![t] = NoObj]
  BY DEF Copy
<1>2. CASE use_cache
  <2>1. UNCHANGED heap
    BY <1>2 DEF Copy
  <2> QED
    BY <1>1, <2>1 DEF Answers
<1>3. CASE ~use_cache
  <2>1. DOMAIN heap' = DOMAIN heap \ {ptr[t]} /\ \A p \in DOMAIN heap' : heap'[p] = heap[p]
    BY <1>3, HeapShrinks DEF Copy
  <2>2. DOMAIN m_ai_cache = {}
    BY <1>3 DEF Calls, EmptyMap
  <2>3. \A u \in Threads \ {t} : pc[u] \in {"insert", "copy"} => ptr[u] # ptr[t]
    BY <1>1, <1>3 DEF OneOwner, making
  <2> QED
    BY <1>1, <1>3, <2>1, <2>2, <2>3 DEF Answers
<1> QED
  BY <1>2, <1>3

LEMMA StopStartAnswers ==
  ASSUME AInv, Stop(TRUE) \/ Stop(FALSE) \/ Start
  PROVE  Answers'
<1> USE DEF AInv, IInv, TypeOK
<1>1. idle /\ UNCHANGED <<now, pc, key, ptr, since>>
  BY DEF Stop, Start, Calls
<1>2. \A t \in Threads : pc'[t] \notin {"insert", "copy"}
  BY <1>1 DEF idle
<1>3. CASE Stop(TRUE) \/ Stop(FALSE)
  <2>1. /\ heap' = EmptyMap /\ m_ai_cache' = EmptyMap
        /\ \/ file' = file \/ file' = EmptyMap
           \/ file' = [k \in DOMAIN m_ai_cache |-> heap[m_ai_cache[k]].expires]
    BY <1>3 DEF Stop
  <2>2. \A k \in DOMAIN m_ai_cache : heap[m_ai_cache[k]].expires \in Int
    BY CacheOnHeap DEF Answers
  <2>3. \A k \in DOMAIN file' : file'[k] \in Int
    <3>1. CASE file' = file
      BY <3>1 DEF Answers
    <3>2. CASE file' = EmptyMap
      BY <3>2 DEF EmptyMap
    <3>3. CASE file' = [k \in DOMAIN m_ai_cache |-> heap[m_ai_cache[k]].expires]
      BY <2>2, <3>3
    <3> QED
      BY <2>1, <3>1, <3>2, <3>3
  <2> QED
    BY <1>2, <2>1, <2>3 DEF Answers, EmptyMap
<1>4. CASE Start
  <2> DEFINE at == CHOOSE f \in [DOMAIN file -> Objs] : IsInjective(f)
             of(o) == CHOOSE k \in DOMAIN at : at[k] = o
  <2>1. at \in [DOMAIN file -> Objs] /\ IsInjective(at)
    BY DEF ObjsAssumption
  <2>2. /\ UNCHANGED file
        /\ \/ /\ m_ai_cache' = at
              /\ heap' = [o \in Range(at) |-> [key |-> of(o), expires |-> file[of(o)]]]
           \/ m_ai_cache' = EmptyMap /\ heap' = EmptyMap
    BY <1>4 DEF Start, Calls
  <2> HIDE DEF at
  <2>3. \A k \in DOMAIN at : of(at[k]) = k /\ at[k] \in Range(at)
    BY DEF Range, IsInjective
  <2>4. \A o \in Range(at) : of(o) \in DOMAIN file
    BY <2>1 DEF Range
  <2> HIDE DEF of
  <2>5. CASE m_ai_cache' = at /\ heap' = [o \in Range(at) |-> [key |-> of(o), expires |-> file[of(o)]]]
    BY <1>2, <2>1, <2>2, <2>3, <2>4, <2>5 DEF Answers
  <2>6. CASE m_ai_cache' = EmptyMap /\ heap' = EmptyMap
    BY <1>2, <2>2, <2>6 DEF Answers, EmptyMap
  <2> QED
    BY <2>2, <2>5, <2>6
<1> QED
  BY <1>3, <1>4

\* A second begins only when no thread is between a lookup and its copy.
LEMMA TickAnswers ==
  ASSUME AInv, Tick \/ UNCHANGED resolver_vars
  PROVE  Answers'
<1> USE DEF AInv
<1>1. UNCHANGED <<heap, m_ai_cache, file, use_cache, pc, key, ptr, since>>
  BY DEF Tick, resolver_vars
<1>2. CASE Tick
  BY <1>1, <1>2 DEF Tick, Answers
<1>3. CASE UNCHANGED resolver_vars
  BY <1>1, <1>3 DEF resolver_vars, Answers
<1> QED
  BY <1>2, <1>3

LEMMA NextAInv == AInv /\ [ResolverNext]_resolver_vars => AInv'
<1> SUFFICES ASSUME AInv, [ResolverNext]_resolver_vars PROVE AInv'
  OBVIOUS
<1>1. IInv'
  BY NextIInv DEF AInv
<1>2. Answers'
  <2>1. ASSUME NEW t \in Threads, (\E k \in Keys : Lookup(t, k)) \/ Ask(t) \/ InsertAnswer(t) \/ Copy(t)
        PROVE  Answers'
    BY <2>1, LookupAnswers, AskAnswers, InsertAnswers, CopyAnswers
  <2> QED
    BY <2>1, StopStartAnswers, TickAnswers DEF ResolverNext
<1>3. now' \in Nat
  <2>1. now' = now \/ now' = now + 1
    BY DEF ResolverNext, Lookup, Ask, InsertAnswer, Copy, Stop, Start, Tick, resolver_vars
  <2> QED
    BY <2>1 DEF AInv
<1>4. since' \in [Threads -> Nat]
  BY DEF AInv, ResolverNext, Lookup, Ask, InsertAnswer, Copy, Stop, Start, Tick, resolver_vars, ThreadBecomes
<1> QED
  BY <1>1, <1>2, <1>3, <1>4 DEF AInv, ResolverAssumption

\* An answer is copied from an object that is still there, of the host asked for, and had not
\* expired when it was looked up.
THEOREM AnswersHold ==
  ResolverAssumption /\ ObjsAssumption /\ ~LateCopy => (ResolverSpec => []AnswerHolds)
<1>1. ResolverAssumption /\ ~LateCopy /\ ObjsAssumption /\ ResolverInit => AInv
  BY InitAInv
<1>2. AInv /\ [ResolverNext]_resolver_vars => AInv'
  BY NextAInv
<1>3. AInv => AnswerHolds
  BY DEF AInv, Answers, AnswerHolds, IInv, OneOwner
<1> QED
  BY <1>1, <1>2, <1>3, PTL DEF ResolverSpec
=============================================================================
