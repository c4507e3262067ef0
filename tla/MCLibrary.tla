----------------------------- MODULE MCLibrary ------------------------------
(* The library's small objects in one run: a behaviour is about one of them, *)
(* and the others stay as they began.                                        *)
EXTENDS Nbq, Nlru, ObjPool, CircularVector, EvrTimers, Resolver, Paths

CONSTANT Objects   \* what the run is about

VARIABLE object

Blocks == {<<>>, <<<<6, 7>>, <<8>>>>, <<<<9>>, <<>>>>}
Sizes == {NoMax, 1, 2, 3, 5}
RangesOf == {<<0, 0>>, <<1, 2>>, <<5, 7>>, <<3, 1>>}

ASSUME ParametersAssumption ==
  /\ SizesAssumption /\ SplitAssumption /\ BodiesAssumption /\ LruAssumption /\ PoolAssumption /\ VectorAssumption
  /\ TimeAssumption /\ ResolverAssumption /\ ObjsAssumption /\ PathsAssumption

vars == <<object, nbq_vars, nlru_vars, pool_vars, vector_vars, timer_vars, resolver_vars, path_vars>>

Init ==
  /\ object \in Objects
  /\ NbqInit /\ NlruInit /\ PoolInit /\ TimersInit
  /\ VectorInit /\ (object # "vector" => m_max_size = NoMax)
  /\ ResolverInit /\ (object # "resolver" => use_cache)
  /\ PathsInit /\ (object # "paths" => ranges = <<>>)

Next ==
  /\ UNCHANGED object
  /\ \/ /\ object = "nbq" /\ NbqNext
        /\ UNCHANGED <<nlru_vars, pool_vars, vector_vars, timer_vars, resolver_vars, path_vars>>
     \/ /\ object = "nlru" /\ NlruNext
        /\ UNCHANGED <<nbq_vars, pool_vars, vector_vars, timer_vars, resolver_vars, path_vars>>
     \/ /\ object = "pool" /\ PoolNext
        /\ UNCHANGED <<nbq_vars, nlru_vars, vector_vars, timer_vars, resolver_vars, path_vars>>
     \/ /\ object = "vector" /\ VectorNext
        /\ UNCHANGED <<nbq_vars, nlru_vars, pool_vars, timer_vars, resolver_vars, path_vars>>
     \/ /\ object = "timers" /\ TimersNext
        /\ UNCHANGED <<nbq_vars, nlru_vars, pool_vars, vector_vars, resolver_vars, path_vars>>
     \/ /\ object = "resolver" /\ ResolverNext
        /\ UNCHANGED <<nbq_vars, nlru_vars, pool_vars, vector_vars, timer_vars, path_vars>>
     \/ /\ object = "paths" /\ PathsNext
        /\ UNCHANGED <<nbq_vars, nlru_vars, pool_vars, vector_vars, timer_vars, resolver_vars>>

Spec == Init /\ [][Next]_vars /\ (object = "timers" => Fairness)
=============================================================================
