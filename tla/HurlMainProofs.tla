--------------------------- MODULE HurlMainProofs --------------------------
(***************************************************************************)
(* Theorems about HurlMain, for any number of threads, any -f and -p.      *)
(*                                                                         *)
(* Main reads m_stopped one worker at a time while the workers change it;  *)
(* Watch says why what it has read is still true when it has read it all:  *)
(* until main calls stop(), a flag that is up belongs to a worker that has *)
(* not started or is over, and a worker that is over stays so.             *)
(*                                                                         *)
(* get_stat adds up counters that go on counting.  Partial says what a sum *)
(* it has not finished is: for each worker it has read, a value that       *)
(* worker's counter had, no less than the last display had of it.          *)
(***************************************************************************)
EXTENDS HurlMain, SequenceLemmas, FiniteSets, FiniteSetTheorems

USE ThreadsAssumption, OptionsAssumption, WorldAssumption

\* a loop over the workers stays among them
LEMMA WorkerRange ==
  ASSUME i_t \in Workers
  PROVE  /\ 0 \in Workers
         /\ ~last => i_t + 1 \in Workers
         /\ last => \A t \in Workers : t <= i_t
BY DEF Workers, last

-----------------------------------------------------------------------------
(* Types.                                                                  *)

\* a worker handles an event of a connection it holds
EventHasConn == \A t \in Workers : wpc[t] = "event" => conns[t] > 0

Sound == TypeOK /\ EventHasConn

LEMMA SoundInit == Init => Sound
<1> SUFFICES ASSUME Init PROVE Sound
  OBVIOUS
<1>1. 0 \in Workers /\ 0 \in 0..ParallelMax /\ -1 \in Nat \cup {-1}
  BY DEF Workers
<1>2. NoTotals \in Totals
  BY DEF Totals, NoTotals
<1>3. /\ wpc \in [Workers -> WPC] /\ conns \in [Workers -> 0..ParallelMax]
      /\ m_stopped \in [Workers -> BOOLEAN] /\ ctl \in [Workers -> BOOLEAN]
      /\ m_num_to_request \in [Workers -> Nat \cup {-1}]
      /\ m_reqs \in [Workers -> Nat] /\ m_resp \in [Workers -> Nat]
      /\ m_resp_2xx \in [Workers -> Nat]
  BY <1>1 DEF Init, WPC
<1>4. /\ l_is_running \in BOOLEAN /\ joined \in BOOLEAN /\ g_test_finished \in BOOLEAN
      /\ main \in Mains /\ i_t \in Workers /\ l_total \in Totals /\ s_last \in Totals
  BY <1>1, <1>2, Zenon DEF Init, Mains
<1> QED BY <1>3, <1>4 DEF Init, Sound, TypeOK, EventHasConn

\* a worker's share of -f is a limit or none
LEMMA ShareType == \A t \in Workers : share(t) \in Nat \cup {-1}
<1>1. NumToRequest >= 0 => NumToRequest \div NumThreads \in Nat /\ NumToRequest % NumThreads \in Nat
  OBVIOUS
<1> QED BY <1>1 DEF share

\* the steps of main
LEMMA SoundMain ==
  ASSUME Sound, Main \/ Finish
  PROVE  Sound'
<1> USE DEF Sound, EventHasConn, TypeOK
<1>0. /\ 0 \in Workers
      /\ ~last => i_t + 1 \in Workers
  BY WorkerRange
<1>1. CASE MainCreate
  BY <1>0, <1>1, ShareType DEF MainCreate, NextWorker, Mains, statVars
<1>2. CASE MainRun
  BY <1>0, <1>2 DEF MainRun, NextWorker, Mains, WPC, statVars
<1>3. CASE MainLoop
  BY <1>3 DEF MainLoop, Mains, statVars, workerVars
<1>4. CASE MainSleep
  BY <1>4 DEF MainSleep, Mains, statVars, workerVars
<1>5. CASE MainCheck
  BY <1>0, <1>5 DEF MainCheck, NextWorker, Mains, running, statVars, workerVars
<1>6. CASE MainStatReqs
  <2>1. so_far \in Totals
    BY DEF so_far, Totals, NoTotals
  <2>2. l_total' \in Totals
    BY <1>6, <2>1 DEF MainStatReqs, Totals
  <2> QED BY <1>6, <2>2 DEF MainStatReqs, Mains, workerVars
<1>7. CASE MainStatResp
  <2>0. m_resp[i_t] \in Nat /\ m_resp_2xx[i_t] \in Nat
    OBVIOUS
  <2>1. l_total' \in Totals
    <3>1. l_total.resp + m_resp[i_t] \in Nat
      BY <2>0 DEF Totals
    <3>2. l_total' = [l_total EXCEPT !.resp = l_total.resp + m_resp[i_t],
                                     !.class = m_resp_2xx[i_t]]
      BY <1>7 DEF MainStatResp, add_resp
    <3> HIDE DEF TypeOK
    <3>3. l_total \in Totals
      BY DEF TypeOK
    <3> QED BY <2>0, <3>1, <3>2, <3>3 DEF Totals
  <2> QED BY <1>0, <1>7, <2>1 DEF MainStatResp, NextWorker, Mains, workerVars
<1>8. CASE MainStop
  BY <1>8 DEF MainStop, Mains, statVars
<1>9. CASE MainSignal
  BY <1>0, <1>9 DEF MainSignal, signalled, NextWorker, Mains, statVars
<1>10. CASE MainJoin
  BY <1>0, <1>10 DEF MainJoin, NextWorker, Mains, last, statVars, workerVars
<1>11. CASE Finish
  BY <1>11 DEF Finish, mainVars, statVars, workerVars
<1> QED BY <1>1, <1>2, <1>3, <1>4, <1>5, <1>6, <1>7, <1>8, <1>9, <1>10, <1>11 DEF Main

\* the steps of a worker
LEMMA SoundWorker ==
  ASSUME Sound, NEW t \in Workers, Worker(t) \/ WorkerReported(t) \/ WorkerInterrupted(t)
  PROVE  Sound'
<1> USE DEF Sound, EventHasConn, TypeOK
<1>1. CASE WorkerInit(t)
  BY <1>1 DEF WorkerInit, WPC, mainVars, statVars
<1>2. CASE WorkerContinue(t) \/ WorkerExit(t)
  BY <1>2 DEF WorkerContinue, WorkerExit, WPC, mainVars, statVars
<1>3. CASE WorkerStart(t)
  <2>1. PICK n, r \in 0..room(t) : /\ conns' = [conns EXCEPT ![t] = @ + n]
                                   /\ m_reqs' = [m_reqs EXCEPT ![t] = @ + r]
    BY <1>3 DEF WorkerStart
  <2>2. conns[t] + n \in 0..ParallelMax /\ m_reqs[t] + r \in Nat
    BY DEF room
  <2> QED BY <1>3, <2>1, <2>2 DEF WorkerStart, WPC, mainVars, statVars
<1>4. CASE WorkerWoken(t) \/ WorkerInterrupted(t)
  BY <1>4 DEF WorkerWoken, WorkerInterrupted, WPC, mainVars, statVars
<1>5. CASE WorkerReported(t)
  BY <1>5 DEF WorkerReported, WPC, mainVars, statVars
<1>6. CASE WorkerResponse(t)
  <2>1. conns[t] - 1 \in 0..ParallelMax
    BY <1>6 DEF WorkerResponse, EventDone
  <2>2. PICK ok \in {0, 1} : m_resp_2xx' = [m_resp_2xx EXCEPT ![t] = @ + ok]
    BY <1>6 DEF WorkerResponse
  <2> QED BY <1>6, <2>1, <2>2 DEF WorkerResponse, EventDone, WPC, mainVars, statVars
<1>7. CASE WorkerConnected(t)
  <2>1. PICK n \in {0, 1} : m_reqs' = [m_reqs EXCEPT ![t] = @ + n]
    BY <1>7 DEF WorkerConnected
  <2> QED BY <1>7, <2>1 DEF WorkerConnected, EventDone, WPC, mainVars, statVars
<1>8. CASE WorkerLost(t)
  <2>1. conns[t] - 1 \in 0..ParallelMax
    BY <1>8 DEF WorkerLost, EventDone
  <2> QED BY <1>8, <2>1 DEF WorkerLost, EventDone, WPC, mainVars, statVars
<1> QED BY <1>1, <1>2, <1>3, <1>4, <1>5, <1>6, <1>7, <1>8 DEF Worker

LEMMA SoundStep == Sound /\ [Next]_vars => Sound'
<1> SUFFICES ASSUME Sound, [Next]_vars PROVE Sound'
  OBVIOUS
<1>1. CASE Main \/ Finish
  BY <1>1, SoundMain
<1>2. ASSUME NEW t \in Workers, Worker(t) \/ WorkerReported(t) \/ WorkerInterrupted(t)
      PROVE  Sound'
  BY <1>2, SoundWorker
<1>3. CASE UNCHANGED vars
  BY <1>3 DEF Sound, EventHasConn, TypeOK, vars, mainVars, statVars, workerVars
<1> QED BY <1>1, <1>2, <1>3 DEF Next, Exited

\* Type correctness: sums and counters stay natural numbers, no worker holds more than -p
\* connections, and main's loops stay within its list of workers.
THEOREM TypeCorrect == Spec => []TypeOK
<1>1. Sound => TypeOK
  BY DEF Sound
<1> QED BY SoundInit, SoundStep, <1>1, PTL DEF Spec

-----------------------------------------------------------------------------
(* Main ends the test only when there is nobody left to wait for.          *)

Unstarted == {"none", "new"}

\* where main may be before it calls stop(), or after it has joined the workers
Watching == {"init", "run", "loop", "sleep", "check", "stat_reqs", "stat_resp"}

\* main has come past its loop that creates the threads for the workers before i_t, or all
Created ==
  /\ main = "run" => \A t \in Workers : t < i_t => wpc[t] # "none"
  /\ main \notin {"init", "run"} => \A t \in Workers : wpc[t] # "none"

\* main begins to look at the flags with the first worker
FromTheFirst == main \in {"loop", "sleep"} => i_t = 0

\* once the workers are joined there is only the final report
JoinedReports == joined => main \in {"stat_reqs", "stat_resp", "done"}

\* until main calls stop(), the flag of a worker that runs is down
FlagIsTrue ==
  main \in Watching /\ ~joined =>
    \A t \in Workers : m_stopped[t] => wpc[t] \in Unstarted \cup {"exited"}

\* main does not look before every worker has started
Started ==
  PromptStart /\ main \notin {"init", "run", "loop"} => \A t \in Workers : wpc[t] # "new"

\* what main has seen so far is still so
SeenIsOver ==
  PromptStart /\ main = "check" /\ ~l_is_running =>
    \A t \in Workers : t < i_t => wpc[t] = "exited"

Watch == /\ Sound /\ Created /\ FromTheFirst /\ JoinedReports /\ FlagIsTrue /\ Started
         /\ SeenIsOver

LEMMA WatchInit == Init => Watch
BY SoundInit
   DEF Init, Watch, Created, FromTheFirst, JoinedReports, FlagIsTrue, Started, SeenIsOver, Unstarted

\* the steps of main
LEMMA WatchMain ==
  ASSUME Watch, Main \/ Finish
  PROVE  Watch'
<1> USE DEF Watch, Created, FromTheFirst, JoinedReports, FlagIsTrue, Started, SeenIsOver,
            Watching, Unstarted
<1>0. Sound'
  BY SoundMain
<1>a. /\ i_t \in Workers /\ m_stopped \in [Workers -> BOOLEAN] /\ wpc \in [Workers -> WPC]
      /\ \A t \in Workers : t \in Int
      /\ NumThreads \in Int
  BY DEF Sound, TypeOK, Workers
<1>b. /\ ~last => \A t \in Workers : t < i_t + 1 <=> t < i_t \/ t = i_t
      /\ last => \A t \in Workers : t < i_t \/ t = i_t
      /\ \A t \in Workers : ~(t < 0)
  BY <1>a DEF Workers, last
<1>1. CASE MainCreate
  BY <1>0, <1>a, <1>b, <1>1 DEF MainCreate, NextWorker
<1>2. CASE MainRun
  BY <1>0, <1>a, <1>b, <1>2 DEF MainRun, NextWorker
<1>3. CASE MainLoop
  BY <1>0, <1>a, <1>b, <1>3 DEF MainLoop, workerVars
<1>4. CASE MainSleep
  BY <1>0, <1>a, <1>b, <1>4 DEF MainSleep, workerVars
<1>5. CASE MainCheck
  BY <1>0, <1>a, <1>b, <1>5 DEF MainCheck, NextWorker, running, workerVars
<1>6. CASE MainStatReqs
  BY <1>0, <1>a, <1>b, <1>6 DEF MainStatReqs, workerVars
<1>7. CASE MainStatResp
  BY <1>0, <1>a, <1>b, <1>7 DEF MainStatResp, NextWorker, workerVars
<1>8. CASE MainStop
  BY <1>0, <1>a, <1>b, <1>8 DEF MainStop
<1>9. CASE MainSignal
  BY <1>0, <1>a, <1>b, <1>9 DEF MainSignal, NextWorker
<1>10. CASE MainJoin
  BY <1>0, <1>a, <1>b, <1>10 DEF MainJoin, NextWorker, workerVars
<1>11. CASE Finish
  BY <1>0, <1>a, <1>b, <1>11 DEF Finish, mainVars, workerVars
<1> QED BY <1>1, <1>2, <1>3, <1>4, <1>5, <1>6, <1>7, <1>8, <1>9, <1>10, <1>11 DEF Main

\* a worker that is over stays so, one that starts has its flag down, and none goes back
LEMMA WorkerMoves ==
  ASSUME Sound, NEW t \in Workers, Worker(t) \/ WorkerReported(t) \/ WorkerInterrupted(t)
  PROVE  /\ UNCHANGED mainVars
         /\ wpc[t] \notin {"none", "exited"} /\ wpc'[t] \notin Unstarted
         /\ m_stopped'[t] => wpc'[t] = "exited" \/ (m_stopped[t] /\ wpc[t] \notin Unstarted)
         /\ \A u \in Workers : u # t => wpc'[u] = wpc[u] /\ m_stopped'[u] = m_stopped[u]
BY DEF Sound, TypeOK, Worker, WorkerInit, WorkerContinue, WorkerExit, WorkerStart, WorkerWoken,
       WorkerReported, WorkerInterrupted, WorkerResponse, WorkerConnected, WorkerLost, EventDone,
       Unstarted, mainVars

LEMMA WatchWorker ==
  ASSUME Watch, NEW t \in Workers, Worker(t) \/ WorkerReported(t) \/ WorkerInterrupted(t)
  PROVE  Watch'
<1>0. Sound'
  BY SoundWorker DEF Watch
<1>1. /\ UNCHANGED mainVars
      /\ wpc[t] \notin {"none", "exited"} /\ wpc'[t] \notin Unstarted
      /\ m_stopped'[t] => wpc'[t] = "exited" \/ (m_stopped[t] /\ wpc[t] \notin Unstarted)
      /\ \A u \in Workers : u # t => wpc'[u] = wpc[u] /\ m_stopped'[u] = m_stopped[u]
  BY WorkerMoves DEF Watch
<1>2. Created' /\ FromTheFirst' /\ JoinedReports' /\ Started' /\ SeenIsOver'
  BY <1>1 DEF Watch, Created, FromTheFirst, JoinedReports, Started, SeenIsOver, Unstarted, mainVars
<1>3. FlagIsTrue'
  BY <1>1 DEF Watch, FlagIsTrue, Unstarted, mainVars
<1> QED BY <1>0, <1>2, <1>3 DEF Watch

LEMMA WatchStep == Watch /\ [Next]_vars => Watch'
<1> SUFFICES ASSUME Watch, [Next]_vars PROVE Watch'
  OBVIOUS
<1>1. CASE Main \/ Finish
  BY <1>1, WatchMain
<1>2. ASSUME NEW t \in Workers, Worker(t) \/ WorkerReported(t) \/ WorkerInterrupted(t)
      PROVE  Watch'
  BY <1>2, WatchWorker
<1>3. CASE UNCHANGED vars
  BY <1>3, SoundStep
     DEF Watch, Created, FromTheFirst, JoinedReports, FlagIsTrue, Started, SeenIsOver,
         vars, mainVars, statVars, workerVars
<1> QED BY <1>1, <1>2, <1>3 DEF Next, Exited

\* If the workers start before main looks at them, main ends the test of its own accord only
\* when every worker is over.
THEOREM NoticeJustifiedHolds == PromptStart => (Spec => NoticeJustified)
<1> DEFINE Noticed == main = "check" /\ main' # "check" /\ g_test_finished' # g_test_finished
           AllOver == \A t \in Workers : wpc[t] = "exited"
<1> SUFFICES ASSUME PromptStart PROVE Spec => NoticeJustified
  OBVIOUS
<1>1. Watch /\ [Next]_vars => [Noticed => AllOver]_vars
  <2> SUFFICES ASSUME Watch, [Next]_vars, Noticed PROVE AllOver
    OBVIOUS
  <2>1. MainCheck
    BY DEF Next, Main, Exited, Worker, MainCreate, MainRun, MainLoop, MainSleep, MainStatReqs,
           MainStatResp, MainStop, MainSignal, MainJoin, Finish, WorkerInit, WorkerContinue,
           WorkerExit, WorkerStart, WorkerWoken, WorkerReported, WorkerInterrupted,
           WorkerResponse, WorkerConnected, WorkerLost, EventDone, vars, mainVars
  <2>2. last /\ ~running
    BY <2>1 DEF MainCheck, Watch, Sound, TypeOK
  <2>3. ~l_is_running /\ m_stopped[i_t]
    BY <2>2 DEF running
  <2>4. i_t \in Workers /\ \A t \in Workers : t < i_t \/ t = i_t
    BY <2>2 DEF Watch, Sound, TypeOK, Workers, last
  <2>5. wpc[i_t] = "exited"
    BY <2>3, <2>4 DEF Watch, FlagIsTrue, Watching, Created, Started, JoinedReports, Unstarted
  <2> QED BY <2>3, <2>4, <2>5 DEF Watch, SeenIsOver
<1>2. Spec => []Watch /\ [][Next]_vars
  BY WatchInit, WatchStep, PTL DEF Spec
<1> QED BY <1>1, <1>2, PTL DEF NoticeJustified

-----------------------------------------------------------------------------
(* Sums.  SumFunction folds over the subsets of its domain, in the order of *)
(* one CHOOSE; a function that does so exists, and what it computes is shown *)
(* by induction on the subsets, as the least set of which it is not so.    *)

PickOf(s) == CHOOSE x \in s : TRUE

\* taking out what PickOf picks
LEMMA Without ==
  ASSUME NEW S, IsFiniteSet(S), NEW s \in SUBSET S, s # {}
  PROVE  /\ PickOf(s) \in s /\ PickOf(s) \in S /\ s \ {PickOf(s)} \in SUBSET S
         /\ Cardinality(s) \in Nat /\ Cardinality(s \ {PickOf(s)}) = Cardinality(s) - 1
         /\ Cardinality(s \ {PickOf(s)}) \in Nat
<1>1. PickOf(s) \in s
  BY DEF PickOf
<1>2. IsFiniteSet(s)
  BY FS_Subset
<1>3. Cardinality(s) \in Nat /\ Cardinality(s \ {PickOf(s)}) = Cardinality(s) - 1
  BY <1>1, <1>2, FS_RemoveElement, FS_CardinalityType
<1>4. Cardinality(s \ {PickOf(s)}) \in Nat
  BY <1>2, FS_RemoveElement, FS_CardinalityType
<1> QED BY <1>1, <1>3, <1>4

\* induction on the subsets of a finite set, in the order in which they are summed
LEMMA SubsetSteps ==
  ASSUME NEW S, IsFiniteSet(S), NEW G, {} \in G,
         \A s \in SUBSET S : s # {} /\ s \ {PickOf(s)} \in G => s \in G
  PROVE  \A s \in SUBSET S : s \in G
<1> DEFINE N == {n \in Nat : \A s \in SUBSET S : Cardinality(s) = n => s \in G}
<1>1. 0 \in N
  <2> SUFFICES ASSUME NEW s \in SUBSET S, Cardinality(s) = 0 PROVE s \in G
    OBVIOUS
  <2>1. IsFiniteSet(s)
    BY FS_Subset
  <2> QED BY <2>1, FS_EmptySet
<1>2. ASSUME NEW n \in Nat, n \in N PROVE n + 1 \in N
  <2> SUFFICES ASSUME NEW s \in SUBSET S, Cardinality(s) = n + 1 PROVE s \in G
    OBVIOUS
  <2>1. s # {}
    <3>1. Cardinality({}) = 0
      BY FS_EmptySet
    <3>2. Cardinality(s) # 0
      OBVIOUS
    <3> QED BY <3>1, <3>2, Zenon
  <2>2. s \ {PickOf(s)} \in SUBSET S /\ Cardinality(s \ {PickOf(s)}) = n
    BY <2>1, Without
  <2> QED BY <1>2, <2>1, <2>2
<1>3. \A n \in Nat : n \in N
  <2> HIDE DEF N
  <2> QED BY <1>1, <1>2, NatSteps
<1> QED BY <1>3, FS_Subset, FS_CardinalityType

\* iter is the function SumFunctionOnSet(f, S) is defined by
Sums(iter, f, S) ==
  iter = [s \in SUBSET S |-> IF s = {} THEN 0 ELSE f[PickOf(s)] + iter[s \ {PickOf(s)}]]

\* there is such a function, also if the set it is asked for is left open up to a cardinality
LEMMA SumsExists ==
  ASSUME NEW f, NEW S, IsFiniteSet(S)
  PROVE  \E iter : Sums(iter, f, S)
<1> DEFINE Eq(g, s) == g[s] = IF s = {} THEN 0 ELSE f[PickOf(s)] + g[s \ {PickOf(s)}]
           UpTo(g, n) == \A s \in SUBSET S : Cardinality(s) <= n => Eq(g, s)
           N == {n \in Nat : \E g : UpTo(g, n)}
<1>a. \A s \in SUBSET S : Cardinality(s) \in Nat
  BY FS_Subset, FS_CardinalityType
<1>1. 0 \in N
  <2> DEFINE g == [s \in SUBSET S |-> 0]
  <2>1. UpTo(g, 0)
    <3> SUFFICES ASSUME NEW s \in SUBSET S, Cardinality(s) <= 0 PROVE Eq(g, s)
      OBVIOUS
    <3>1. IsFiniteSet(s) /\ Cardinality(s) = 0
      BY <1>a, FS_Subset
    <3>2. s = {}
      BY <3>1, FS_EmptySet
    <3> QED BY <3>2
  <2> QED BY <2>1
<1>2. ASSUME NEW n \in Nat, n \in N PROVE n + 1 \in N
  <2>1. PICK g : UpTo(g, n)
    BY <1>2
  <2> DEFINE h == [s \in SUBSET S |-> IF s = {} THEN 0 ELSE f[PickOf(s)] + g[s \ {PickOf(s)}]]
  <2>2. ASSUME NEW s \in SUBSET S, Cardinality(s) <= n PROVE h[s] = g[s]
    BY <2>1, <2>2
  <2>3. ASSUME NEW s \in SUBSET S, Cardinality(s) <= n + 1 PROVE Eq(h, s)
    <3>1. CASE s = {}
      BY <3>1
    <3>2. CASE s # {}
      <4>1. s \ {PickOf(s)} \in SUBSET S /\ Cardinality(s \ {PickOf(s)}) <= n
        BY <2>3, <3>2, Without
      <4>2. h[s \ {PickOf(s)}] = g[s \ {PickOf(s)}]
        BY <4>1, <2>2
      <4> QED BY <3>2, <4>2
    <3> QED BY <3>1, <3>2
  <2>4. UpTo(h, n + 1)
    BY <2>3
  <2>5. \E g1 : UpTo(g1, n + 1)
    <3> HIDE DEF h, UpTo
    <3> QED BY <2>4
  <2> HIDE DEF UpTo, h
  <2> QED BY <2>5
<1>3. Cardinality(S) \in Nat /\ Cardinality(S) \in N
  <2> HIDE DEF N
  <2> QED BY <1>1, <1>2, NatSteps, FS_CardinalityType
<1>4. PICK g : UpTo(g, Cardinality(S))
  BY <1>3
<1> DEFINE iter == [s \in SUBSET S |-> g[s]]
<1>5. \A s \in SUBSET S : Eq(g, s)
  BY <1>4, FS_Subset
<1>6. Sums(iter, f, S)
  <2>1. \A s \in SUBSET S : iter[s] = IF s = {} THEN 0 ELSE f[PickOf(s)] + iter[s \ {PickOf(s)}]
    <3> SUFFICES ASSUME NEW s \in SUBSET S
                 PROVE iter[s] = IF s = {} THEN 0 ELSE f[PickOf(s)] + iter[s \ {PickOf(s)}]
      OBVIOUS
    <3>1. s \ {PickOf(s)} \in SUBSET S
      OBVIOUS
    <3> QED BY <3>1, <1>5
  <2> QED BY <2>1 DEF Sums
<1> QED BY <1>6

\* SumFunction is the last value of that function
LEMMA Unfold ==
  ASSUME NEW f, IsFiniteSet(DOMAIN f)
  PROVE  \E iter : /\ Sums(iter, f, DOMAIN f)
                   /\ SumFunction(f) = iter[DOMAIN f]
<1> DEFINE iter == CHOOSE g : Sums(g, f, DOMAIN f)
<1>1. SumFunction(f) = iter[DOMAIN f]
  BY DEF SumFunction, SumFunctionOnSet, FoldFunctionOnSet, MapThenFoldSet, Sums, PickOf
<1>2. Sums(iter, f, DOMAIN f)
  BY SumsExists
<1> QED BY <1>1, <1>2

\* a sum of naturals is a natural
LEMMA SumType ==
  ASSUME NEW S, IsFiniteSet(S), NEW f \in [S -> Nat]
  PROVE  SumFunction(f) \in Nat
<1>1. PICK p : Sums(p, f, S) /\ SumFunction(f) = p[S]
  BY Unfold
<1> DEFINE G == {s \in SUBSET S : p[s] \in Nat}
<1>2. {} \in G
  BY <1>1 DEF Sums
<1>3. ASSUME NEW s \in SUBSET S, s # {}, s \ {PickOf(s)} \in G
      PROVE  s \in G
  <2>1. p[s] = f[PickOf(s)] + p[s \ {PickOf(s)}] /\ PickOf(s) \in S
    BY <1>1, <1>3, Without DEF Sums
  <2> QED BY <2>1, <1>3
<1>4. S \in G
  <2> HIDE DEF G
  <2> QED BY <1>2, <1>3, SubsetSteps
<1> QED BY <1>1, <1>4

\* it grows with its terms
LEMMA SumGrows ==
  ASSUME NEW S, IsFiniteSet(S), NEW f \in [S -> Nat], NEW g \in [S -> Nat],
         \A x \in S : f[x] <= g[x]
  PROVE  SumFunction(f) <= SumFunction(g)
<1>1. PICK p : Sums(p, f, S) /\ SumFunction(f) = p[S]
  BY Unfold
<1>2. PICK q : Sums(q, g, S) /\ SumFunction(g) = q[S]
  BY Unfold
<1> DEFINE G == {s \in SUBSET S : p[s] \in Nat /\ q[s] \in Nat /\ p[s] <= q[s]}
<1>3. {} \in G
  BY <1>1, <1>2 DEF Sums
<1>4. ASSUME NEW s \in SUBSET S, s # {}, s \ {PickOf(s)} \in G
      PROVE  s \in G
  <2>1. p[s] = f[PickOf(s)] + p[s \ {PickOf(s)}] /\ PickOf(s) \in S
    BY <1>1, <1>4, Without DEF Sums
  <2>2. q[s] = g[PickOf(s)] + q[s \ {PickOf(s)}]
    BY <1>2, <1>4, Without DEF Sums
  <2> QED BY <2>1, <2>2, <1>4
<1>5. S \in G
  <2> HIDE DEF G
  <2> QED BY <1>3, <1>4, SubsetSteps
<1> QED BY <1>1, <1>2, <1>5

\* one term is changed
LEMMA SumChanged ==
  ASSUME NEW S, IsFiniteSet(S), NEW f \in [S -> Nat], NEW g \in [S -> Nat], NEW t \in S,
         \A x \in S : x # t => g[x] = f[x]
  PROVE  SumFunction(g) = SumFunction(f) + g[t] - f[t]
<1>1. PICK p : Sums(p, f, S) /\ SumFunction(f) = p[S]
  BY Unfold
<1>2. PICK q : Sums(q, g, S) /\ SumFunction(g) = q[S]
  BY Unfold
<1> DEFINE G == {s \in SUBSET S : /\ p[s] \in Int /\ q[s] \in Int
                                  /\ t \notin s => q[s] = p[s]
                                  /\ t \in s => q[s] = p[s] + g[t] - f[t]}
<1>3. {} \in G
  BY <1>1, <1>2 DEF Sums
<1>4. ASSUME NEW s \in SUBSET S, s # {}, s \ {PickOf(s)} \in G
      PROVE  s \in G
  <2>1. p[s] = f[PickOf(s)] + p[s \ {PickOf(s)}] /\ PickOf(s) \in S /\ PickOf(s) \in s
    BY <1>1, <1>4, Without DEF Sums
  <2>2. q[s] = g[PickOf(s)] + q[s \ {PickOf(s)}]
    BY <1>2, <1>4, Without DEF Sums
  <2>3. CASE PickOf(s) = t
    BY <2>1, <2>2, <2>3, <1>4
  <2>4. CASE PickOf(s) # t
    BY <2>1, <2>2, <2>4, <1>4
  <2> QED BY <2>3, <2>4
<1>5. S \in G
  <2> HIDE DEF G
  <2> QED BY <1>3, <1>4, SubsetSteps
<1> QED BY <1>1, <1>2, <1>5

\* all terms are the same
LEMMA SumSame ==
  ASSUME NEW S, IsFiniteSet(S), NEW n \in Nat
  PROVE  SumFunction([x \in S |-> n]) = n * Cardinality(S)
<1> DEFINE f == [x \in S |-> n]
<1>1. PICK p : Sums(p, f, S) /\ SumFunction(f) = p[S]
  BY Unfold
<1> DEFINE G == {s \in SUBSET S : p[s] = n * Cardinality(s)}
<1>3. {} \in G
  BY <1>1, FS_EmptySet DEF Sums
<1>4. ASSUME NEW s \in SUBSET S, s # {}, s \ {PickOf(s)} \in G
      PROVE  s \in G
  <2>1. p[s] = n + p[s \ {PickOf(s)}] 
    BY <1>1, <1>4, Without DEF Sums
  <2>2. /\ Cardinality(s) \in Nat /\ Cardinality(s \ {PickOf(s)}) = Cardinality(s) - 1
    BY <1>4, Without
  <2>3. \A c \in Nat : n + n * (c - 1) = n * c
    OBVIOUS
  <2> QED BY <2>1, <2>2, <2>3, <1>4
<1>5. S \in G
  <2> HIDE DEF G
  <2> QED BY <1>3, <1>4, SubsetSteps
<1> QED BY <1>1, <1>5

-----------------------------------------------------------------------------
(* The sums of get_stat, and what a display is of the counters it reads.   *)

\* there are NumThreads workers
LEMMA WorkersFinite == IsFiniteSet(Workers) /\ Cardinality(Workers) = NumThreads
<1>1. NumThreads \in Nat /\ NumThreads - 1 \in Int /\ ~(0 > NumThreads - 1)
  OBVIOUS
<1>2. /\ IsFiniteSet(0..(NumThreads - 1))
      /\ Cardinality(0..(NumThreads - 1)) = (NumThreads - 1) - 0 + 1
  BY <1>1, FS_Interval
<1> QED BY <1>1, <1>2 DEF Workers

\* one sum of get_stat, of the counters m of the workers before k: what it had of each when it
\* read it, no less than what the last display had, and all there is once the workers are joined
Partial(total, shown, k, m, over) ==
  \E f, h \in [Workers -> Nat] :
    /\ SumFunction(f) = total /\ SumFunction(h) = shown
    /\ \A t \in Workers :
         /\ h[t] <= m[t]
         /\ t < k => h[t] <= f[t] /\ f[t] <= m[t] /\ (over => f[t] = m[t])
         /\ t >= k => f[t] = 0

\* get_stat begins with nothing
LEMMA PartialNone ==
  /\ SumFunction([t \in Workers |-> 0]) = 0
  /\ \A m \in [Workers -> Nat], over \in BOOLEAN : Partial(0, 0, 0, m, over)
<1> DEFINE zero == [t \in Workers |-> 0]
<1>1. SumFunction(zero) = 0
  <2>1. SumFunction([t \in Workers |-> 0]) = 0 * Cardinality(Workers)
    BY WorkersFinite, SumSame
  <2>2. 0 * Cardinality(Workers) = 0
    BY WorkersFinite
  <2> QED BY <2>1, <2>2
<1>2. zero \in [Workers -> Nat] /\ \A t \in Workers : t \in Nat /\ zero[t] = 0
  BY DEF Workers
<1> HIDE DEF zero
<1>3. ASSUME NEW m \in [Workers -> Nat], NEW over \in BOOLEAN PROVE Partial(0, 0, 0, m, over)
  BY <1>1, <1>2 DEF Partial
<1> QED BY <1>1, <1>3 DEF zero

\* get_stat comes to the next worker
LEMMA PartialAdd ==
  ASSUME NEW total, NEW shown, NEW k \in Workers, NEW m \in [Workers -> Nat], NEW over \in BOOLEAN,
         Partial(total, shown, k, m, over)
  PROVE  Partial(total + m[k], shown, k + 1, m, over)
<1>1. PICK f \in [Workers -> Nat], h \in [Workers -> Nat] :
        /\ SumFunction(f) = total /\ SumFunction(h) = shown
        /\ \A t \in Workers :
             /\ h[t] <= m[t]
             /\ t < k => h[t] <= f[t] /\ f[t] <= m[t] /\ (over => f[t] = m[t])
             /\ t >= k => f[t] = 0
  BY DEF Partial
<1> DEFINE g == [f EXCEPT ![k] = m[k]]
<1>2. g \in [Workers -> Nat] /\ g[k] = m[k] /\ \A t \in Workers : t # k => g[t] = f[t]
  OBVIOUS
<1>3. k \in Nat /\ f[k] = 0
  BY <1>1 DEF Workers
<1> HIDE DEF g
<1>4. SumFunction(g) = SumFunction(f) + m[k]
  <2>1. SumFunction(g) = SumFunction(f) + g[k] - f[k]
    BY <1>2, WorkersFinite, SumChanged
  <2>2. SumFunction(f) \in Nat /\ m[k] \in Nat
    BY WorkersFinite, SumType
  <2> QED BY <1>2, <1>3, <2>1, <2>2
<1>5. \A t \in Workers : t \in Nat /\ (t < k + 1 <=> t < k \/ t = k)
  BY <1>3 DEF Workers
<1>6. \A t \in Workers :
        /\ h[t] <= m[t]
        /\ t < k + 1 => h[t] <= g[t] /\ g[t] <= m[t] /\ (over => g[t] = m[t])
        /\ t >= k + 1 => g[t] = 0
  <2> SUFFICES ASSUME NEW t \in Workers
               PROVE  /\ h[t] <= m[t]
                      /\ t < k + 1 => h[t] <= g[t] /\ g[t] <= m[t] /\ (over => g[t] = m[t])
                      /\ t >= k + 1 => g[t] = 0
    OBVIOUS
  <2>1. CASE t = k
    BY <1>1, <1>2, <1>3, <2>1
  <2>2. CASE t # k
    BY <1>1, <1>2, <1>3, <1>5, <2>2
  <2> QED BY <2>1, <2>2
<1> QED BY <1>1, <1>2, <1>4, <1>6 DEF Partial

\* the workers go on counting while it reads
LEMMA PartialMoves ==
  ASSUME NEW total, NEW shown, NEW k \in Nat, NEW m \in [Workers -> Nat], NEW n \in [Workers -> Nat],
         NEW over \in BOOLEAN, Partial(total, shown, k, m, over),
         \A t \in Workers : n[t] >= m[t] /\ (over => n[t] = m[t])
  PROVE  Partial(total, shown, k, n, over)
<1>1. PICK f \in [Workers -> Nat], h \in [Workers -> Nat] :
        /\ SumFunction(f) = total /\ SumFunction(h) = shown
        /\ \A t \in Workers :
             /\ h[t] <= m[t]
             /\ t < k => h[t] <= f[t] /\ f[t] <= m[t] /\ (over => f[t] = m[t])
             /\ t >= k => f[t] = 0
  BY DEF Partial
<1>2. \A t \in Workers :
        /\ h[t] <= n[t]
        /\ t < k => h[t] <= f[t] /\ f[t] <= n[t] /\ (over => f[t] = n[t])
        /\ t >= k => f[t] = 0
  BY <1>1
<1> QED BY <1>1, <1>2 DEF Partial

\* it has come past the last worker, and keeps the sum
LEMMA PartialWhole ==
  ASSUME NEW total, NEW shown, NEW m \in [Workers -> Nat], NEW over \in BOOLEAN,
         Partial(total, shown, NumThreads, m, over)
  PROVE  /\ total >= shown /\ total <= SumFunction(m) /\ (over => total = SumFunction(m))
         /\ Partial(0, total, 0, m, over)
<1>1. PICK f \in [Workers -> Nat], h \in [Workers -> Nat] :
        /\ SumFunction(f) = total /\ SumFunction(h) = shown
        /\ \A t \in Workers :
             /\ h[t] <= m[t]
             /\ t < NumThreads => h[t] <= f[t] /\ f[t] <= m[t] /\ (over => f[t] = m[t])
             /\ t >= NumThreads => f[t] = 0
  BY DEF Partial
<1>2. \A t \in Workers : h[t] <= f[t] /\ f[t] <= m[t] /\ (over => f[t] = m[t])
  <2>1. \A t \in Workers : t < NumThreads
    BY DEF Workers
  <2> QED BY <1>1, <2>1
<1>3. SumFunction(h) <= SumFunction(f) /\ SumFunction(f) <= SumFunction(m)
  BY <1>2, WorkersFinite, SumGrows
<1>4. over => f = m
  BY <1>2
<1>5. SumFunction(f) \in Nat /\ SumFunction(h) \in Nat
  BY WorkersFinite, SumType
<1>6. Partial(0, total, 0, m, over)
  <2> DEFINE zero == [t \in Workers |-> 0]
  <2>1. zero \in [Workers -> Nat] /\ SumFunction(zero) = 0
    BY PartialNone
  <2>2. \A t \in Workers : t \in Nat /\ zero[t] = 0
    BY DEF Workers
  <2> HIDE DEF zero
  <2>3. \A t \in Workers :
          /\ f[t] <= m[t]
          /\ t < 0 => f[t] <= zero[t] /\ zero[t] <= m[t] /\ (over => zero[t] = m[t])
          /\ t >= 0 => zero[t] = 0
    BY <1>2, <2>2
  <2> QED BY <1>1, <2>1, <2>3 DEF Partial
<1> QED BY <1>1, <1>3, <1>4, <1>5, <1>6

\* a sum of no worker yet is one of workers that are over
LEMMA PartialFinish ==
  ASSUME NEW shown, NEW m \in [Workers -> Nat], Partial(0, shown, 0, m, FALSE)
  PROVE  Partial(0, shown, 0, m, TRUE)
<1>1. \A t \in Workers : t \in Nat
  BY DEF Workers
<1> QED BY <1>1 DEF Partial

-----------------------------------------------------------------------------
(* The display and the final report.                                       *)

\* a worker that has not started has counted nothing
Fresh == \A t \in Workers : wpc[t] \in Unstarted => m_reqs[t] = 0 /\ m_resp[t] = 0

\* the workers that main has yet to create a thread for
Uncreated == /\ main = "init" => \A t \in Workers : wpc[t] = "none"
             /\ main = "run" => \A t \in Workers : t >= i_t => wpc[t] = "none"

\* main reports finally when it has seen every worker over
Joined ==
  /\ main = "join" => \A t \in Workers : t < i_t => wpc[t] = "exited"
  /\ joined => \A t \in Workers : wpc[t] = "exited"
  /\ main = "done" => joined
  /\ JoinedReports

\* what get_stat has so far of the requests and of the responses, and of how many workers
reqs_seen == CASE main = "stat_reqs" -> i_t [] main = "stat_resp" -> i_t + 1 [] OTHER -> 0
resp_seen == IF main \in {"stat_reqs", "stat_resp"} THEN i_t ELSE 0
reqs_so_far == IF reqs_seen = 0 THEN 0 ELSE l_total.reqs
resp_so_far == IF resp_seen = 0 THEN 0 ELSE l_total.resp

Seen ==
  /\ Partial(reqs_so_far, s_last.reqs, reqs_seen, m_reqs, joined)
  /\ Partial(resp_so_far, s_last.resp, resp_seen, m_resp, joined)

\* at the start of get_stat's second read, the first worker's sum begins from zero
Cleared == main = "stat_resp" /\ i_t = 0 => l_total.resp = 0

Final == main = "done" => s_last.reqs = SumFunction(m_reqs) /\ s_last.resp = SumFunction(m_resp)

Report == /\ Sound /\ Fresh /\ Uncreated /\ Joined /\ Cleared /\ Seen /\ Final

\* before the first display
LEMMA ReportInit == Init => Report
<1> SUFFICES ASSUME Init PROVE Report
  OBVIOUS
<1>1. Sound
  BY SoundInit
<1>2. Fresh /\ Uncreated /\ Joined /\ Cleared /\ Final
  BY DEF Init, Fresh, Uncreated, Joined, JoinedReports, Cleared, Final
<1>3. m_reqs \in [Workers -> Nat] /\ m_resp \in [Workers -> Nat] /\ joined \in BOOLEAN
  BY <1>1 DEF Sound, TypeOK
<1>4. reqs_seen = 0 /\ resp_seen = 0 /\ s_last.reqs = 0 /\ s_last.resp = 0
  BY DEF Init, reqs_seen, resp_seen, NoTotals
<1>5. Seen
  BY <1>3, <1>4, PartialNone DEF Seen, reqs_so_far, resp_so_far
<1> QED BY <1>1, <1>2, <1>5 DEF Report

\* the types these proofs use
LEMMA ReportTypes ==
  ASSUME Report
  PROVE  /\ i_t \in Workers /\ i_t \in Nat /\ joined \in BOOLEAN /\ wpc \in [Workers -> WPC]
         /\ m_reqs \in [Workers -> Nat] /\ m_resp \in [Workers -> Nat] /\ l_total \in Totals
<1>1. TypeOK
  BY DEF Report, Sound
<1>2. i_t \in Workers
  BY <1>1 DEF TypeOK
<1>3. i_t \in Nat
  BY <1>2 DEF Workers
<1> QED BY <1>1, <1>2, <1>3 DEF TypeOK

\* the steps of main that do not touch the sums
LEMMA ReportMain ==
  ASSUME Report, Main \/ Finish, ~MainStatReqs, ~MainStatResp
  PROVE  Report'
<1>0. Sound'
  BY SoundMain DEF Report
<1>a. /\ i_t \in Workers /\ wpc \in [Workers -> WPC] /\ joined \in BOOLEAN
      /\ m_reqs \in [Workers -> Nat] /\ m_resp \in [Workers -> Nat]
      /\ \A t \in Workers : t \in Nat
  BY ReportTypes DEF Workers
<1>b. /\ ~last => \A t \in Workers : t < i_t + 1 <=> t < i_t \/ t = i_t
      /\ last => \A t \in Workers : t < i_t \/ t = i_t
      /\ \A t \in Workers : ~(t < 0)
  BY <1>a DEF Workers, last
<1> USE DEF Report, Fresh, Uncreated, Joined, JoinedReports, Unstarted
<1>d. Fresh' /\ Uncreated' /\ Joined' /\ UNCHANGED <<s_last, m_reqs, m_resp>>
  <2>1. CASE MainCreate
    BY <2>1, <1>a, <1>b DEF MainCreate, NextWorker, statVars
  <2>2. CASE MainRun
    BY <2>2, <1>a, <1>b DEF MainRun, NextWorker, statVars
  <2>3. CASE MainLoop \/ MainSleep
    BY <2>3, <1>a, <1>b DEF MainLoop, MainSleep, statVars, workerVars
  <2>5. CASE MainCheck
    BY <2>5, <1>a, <1>b DEF MainCheck, NextWorker, statVars, workerVars
  <2>6. CASE MainStop
    BY <2>6, <1>a, <1>b DEF MainStop, statVars
  <2>7. CASE MainSignal
    BY <2>7, <1>a, <1>b DEF MainSignal, NextWorker, statVars
  <2>8. CASE MainJoin
    BY <2>8, <1>a, <1>b DEF MainJoin, NextWorker, statVars, workerVars
  <2>9. CASE Finish
    BY <2>9, <1>a, <1>b DEF Finish, mainVars, statVars, workerVars
  <2> QED BY <2>1, <2>2, <2>3, <2>5, <2>6, <2>7, <2>8, <2>9 DEF Main
<1>1. CASE Finish
  <2>1. UNCHANGED <<main, i_t, joined, l_total, s_last, m_reqs, m_resp>>
    BY <1>1 DEF Finish, mainVars, statVars, workerVars
  <2>2. Seen' /\ Cleared' /\ Final'
    BY <2>1 DEF Seen, Cleared, Final, reqs_seen, resp_seen, reqs_so_far, resp_so_far
  <2> QED BY <1>0, <1>d, <2>2
<1>2. CASE Main
  <2>1. /\ main \notin {"stat_reqs", "stat_resp", "done"} /\ main' \notin {"stat_resp", "done"}
        /\ main' = "stat_reqs" => i_t' = 0
    BY <1>2 DEF Main, MainCreate, MainRun, MainLoop, MainSleep, MainCheck, MainStop, MainSignal,
                MainJoin, NextWorker
  <2>7. UNCHANGED joined \/ (joined = FALSE /\ joined' = TRUE)
    <3>1. CASE MainJoin
      <4>1. joined = FALSE /\ joined' \in BOOLEAN
        BY <3>1, <1>0, <1>a DEF MainJoin, Sound, TypeOK
      <4> QED BY <4>1
    <3>2. CASE ~MainJoin
      BY <3>2, <1>2 DEF Main, MainCreate, MainRun, MainLoop, MainSleep, MainCheck, MainStop, MainSignal
    <3> QED BY <3>1, <3>2
  <2>2. reqs_seen = 0 /\ resp_seen = 0 /\ (reqs_seen = 0)' /\ (resp_seen = 0)'
    BY <2>1 DEF reqs_seen, resp_seen
  <2>3. Partial(0, s_last.reqs, 0, m_reqs, joined) /\ Partial(0, s_last.resp, 0, m_resp, joined)
    BY <2>2 DEF Seen, reqs_so_far, resp_so_far
  <2>4. Partial(0, s_last.reqs, 0, m_reqs, joined') /\ Partial(0, s_last.resp, 0, m_resp, joined')
    <3>1. CASE UNCHANGED joined
      BY <3>1, <2>3
    <3>2. CASE joined = FALSE /\ joined' = TRUE
      BY <3>2, <2>3, <1>a, PartialFinish
    <3> QED BY <2>7, <3>1, <3>2
  <2>5. Seen'
    BY <2>2, <2>4, <1>d DEF Seen, reqs_so_far, resp_so_far
  <2>6. Cleared' /\ Final'
    BY <2>1 DEF Cleared, Final
  <2> QED BY <1>0, <1>d, <2>5, <2>6
<1> QED BY <1>1, <1>2

\* get_stat reads the requests of a worker
LEMMA ReportReqs ==
  ASSUME Report, MainStatReqs
  PROVE  Report'
<1>0. Sound'
  BY SoundMain DEF Report, Main
<1>a. /\ i_t \in Workers /\ i_t \in Nat /\ joined \in BOOLEAN
      /\ m_reqs \in [Workers -> Nat] /\ m_resp \in [Workers -> Nat] /\ l_total \in Totals
  BY ReportTypes
<1>1. /\ main = "stat_reqs" /\ main' = "stat_resp"
      /\ UNCHANGED <<i_t, joined, s_last, wpc, m_reqs, m_resp>>
  BY DEF MainStatReqs, workerVars
<1>2. Fresh' /\ Uncreated' /\ Joined' /\ Final'
  BY <1>1 DEF Report, Fresh, Uncreated, Joined, JoinedReports, Final
<1>3. so_far \in Totals /\ l_total' = [so_far EXCEPT !.reqs = @ + m_reqs[i_t]]
  BY <1>a DEF MainStatReqs, so_far, NoTotals, Totals
<1>4. l_total'.reqs = so_far.reqs + m_reqs[i_t] /\ l_total'.resp = so_far.resp
  BY <1>3 DEF Totals
<1>5. Cleared'
  BY <1>1, <1>4 DEF Cleared, so_far, NoTotals
<1>6. /\ reqs_seen = i_t /\ resp_seen = i_t /\ reqs_so_far = so_far.reqs /\ resp_so_far = so_far.resp
  BY <1>1 DEF reqs_seen, resp_seen, reqs_so_far, resp_so_far, so_far, NoTotals
<1>7. /\ Partial(so_far.reqs, s_last.reqs, i_t, m_reqs, joined)
      /\ Partial(so_far.resp, s_last.resp, i_t, m_resp, joined)
  BY <1>6 DEF Report, Seen
<1>8. Partial(l_total'.reqs, s_last.reqs, i_t + 1, m_reqs, joined)
  BY <1>4, <1>7, <1>a, PartialAdd
<1>9. reqs_seen' = i_t + 1 /\ resp_seen' = i_t /\ reqs_so_far' = l_total'.reqs
  BY <1>1, <1>a DEF reqs_seen, resp_seen, reqs_so_far
<1>10. resp_so_far' = l_total'.resp
  BY <1>1, <1>9, <1>4 DEF resp_so_far, so_far, NoTotals
<1>11. Seen'
  BY <1>1, <1>4, <1>7, <1>8, <1>9, <1>10 DEF Seen
<1> QED BY <1>0, <1>2, <1>5, <1>11 DEF Report

\* what get_stat has when it has read the responses of a worker
LEMMA ReadBoth ==
  ASSUME Report, MainStatResp
  PROVE  /\ Partial(l_total.reqs, s_last.reqs, i_t + 1, m_reqs, joined)
         /\ Partial(l_total'.resp, s_last.resp, i_t + 1, m_resp, joined)
         /\ l_total'.reqs = l_total.reqs
<1>a. /\ i_t \in Workers /\ i_t \in Nat /\ joined \in BOOLEAN
      /\ m_reqs \in [Workers -> Nat] /\ m_resp \in [Workers -> Nat] /\ l_total \in Totals
  BY ReportTypes
<1>1. main = "stat_resp" /\ l_total' = add_resp
  BY DEF MainStatResp
<1>2. l_total'.reqs = l_total.reqs /\ l_total'.resp = l_total.resp + m_resp[i_t]
  BY <1>1, <1>a DEF add_resp, Totals
<1>3. reqs_seen = i_t + 1 /\ resp_seen = i_t /\ reqs_so_far = l_total.reqs
  BY <1>1, <1>a DEF reqs_seen, resp_seen, reqs_so_far
<1>4. resp_so_far = l_total.resp
  BY <1>1, <1>3 DEF resp_so_far, Report, Cleared
<1>5. /\ Partial(l_total.reqs, s_last.reqs, i_t + 1, m_reqs, joined)
      /\ Partial(l_total.resp, s_last.resp, i_t, m_resp, joined)
  BY <1>3, <1>4 DEF Report, Seen
<1>6. Partial(l_total.resp + m_resp[i_t], s_last.resp, i_t + 1, m_resp, joined)
  BY <1>5, <1>a, PartialAdd
<1> QED BY <1>2, <1>5, <1>6

\* the last read of a display: what it shows
LEMMA Displayed ==
  ASSUME Report, MainStatResp, last
  PROVE  /\ s_last'.reqs >= s_last.reqs /\ s_last'.resp >= s_last.resp
         /\ s_last'.reqs <= SumFunction(m_reqs) /\ s_last'.resp <= SumFunction(m_resp)
         /\ joined => s_last'.reqs = SumFunction(m_reqs) /\ s_last'.resp = SumFunction(m_resp)
         /\ Partial(0, s_last'.reqs, 0, m_reqs, joined) /\ Partial(0, s_last'.resp, 0, m_resp, joined)
<1>a. /\ i_t \in Nat /\ joined \in BOOLEAN
      /\ m_reqs \in [Workers -> Nat] /\ m_resp \in [Workers -> Nat]
  BY ReportTypes
<1>1. i_t + 1 = NumThreads
  BY <1>a DEF last
<1>2. s_last'.reqs = l_total.reqs /\ s_last'.resp = l_total'.resp
  BY ReadBoth DEF MainStatResp
<1>3. /\ Partial(s_last'.reqs, s_last.reqs, NumThreads, m_reqs, joined)
      /\ Partial(s_last'.resp, s_last.resp, NumThreads, m_resp, joined)
  BY <1>1, <1>2, ReadBoth
<1>4. /\ s_last'.reqs >= s_last.reqs /\ s_last'.reqs <= SumFunction(m_reqs)
      /\ joined => s_last'.reqs = SumFunction(m_reqs)
      /\ Partial(0, s_last'.reqs, 0, m_reqs, joined)
  BY <1>a, <1>3, PartialWhole
<1>5. /\ s_last'.resp >= s_last.resp /\ s_last'.resp <= SumFunction(m_resp)
      /\ joined => s_last'.resp = SumFunction(m_resp)
      /\ Partial(0, s_last'.resp, 0, m_resp, joined)
  BY <1>a, <1>3, PartialWhole
<1> QED BY <1>4, <1>5

\* get_stat reads the responses of a worker
LEMMA ReportResp ==
  ASSUME Report, MainStatResp
  PROVE  Report'
<1>0. Sound'
  BY SoundMain DEF Report, Main
<1>a. i_t \in Workers /\ i_t \in Nat /\ joined \in BOOLEAN
  BY ReportTypes
<1>1. /\ main = "stat_resp" /\ UNCHANGED <<joined, wpc, m_reqs, m_resp>>
      /\ NextWorker("stat_reqs", IF joined THEN "done" ELSE "loop")
  BY DEF MainStatResp, workerVars
<1>2. Fresh' /\ Uncreated' /\ Joined' /\ Cleared'
  BY <1>1 DEF Report, Fresh, Uncreated, Joined, JoinedReports, Cleared, NextWorker
<1>3. CASE ~last
  <2>1. main' = "stat_reqs" /\ i_t' = i_t + 1 /\ UNCHANGED s_last
    BY <1>1, <1>3 DEF NextWorker, MainStatResp
  <2>2. /\ reqs_seen' = i_t + 1 /\ resp_seen' = i_t + 1
        /\ reqs_so_far' = l_total'.reqs /\ resp_so_far' = l_total'.resp
    BY <2>1, <1>a DEF reqs_seen, resp_seen, reqs_so_far, resp_so_far
  <2>3. Seen'
    BY <1>1, <2>1, <2>2, ReadBoth DEF Seen
  <2>4. Final'
    BY <2>1 DEF Final
  <2> QED BY <1>0, <1>2, <2>3, <2>4 DEF Report
<1>4. CASE last
  <2>1. main' \in {"done", "loop"} /\ (main' = "done" => joined)
    BY <1>1, <1>4 DEF NextWorker
  <2>2. reqs_seen' = 0 /\ resp_seen' = 0 /\ reqs_so_far' = 0 /\ resp_so_far' = 0
    BY <2>1 DEF reqs_seen, resp_seen, reqs_so_far, resp_so_far
  <2>3. Seen'
    BY <1>1, <1>4, <2>2, Displayed DEF Seen
  <2>4. Final'
    BY <1>1, <1>4, <2>1, Displayed DEF Final
  <2> QED BY <1>0, <1>2, <2>3, <2>4 DEF Report
<1> QED BY <1>3, <1>4

\* what a worker may do to its counters
LEMMA WorkerCounts ==
  ASSUME Sound, Fresh, NEW t \in Workers, Worker(t) \/ WorkerReported(t) \/ WorkerInterrupted(t)
  PROVE  /\ UNCHANGED statVars
         /\ \A u \in Workers : m_reqs'[u] >= m_reqs[u] /\ m_resp'[u] >= m_resp[u]
         /\ \A u \in Workers : u # t => m_reqs'[u] = m_reqs[u] /\ m_resp'[u] = m_resp[u]
<1>a. /\ m_reqs \in [Workers -> Nat] /\ m_resp \in [Workers -> Nat]
      /\ wpc[t] = "new" => m_reqs[t] = 0 /\ m_resp[t] = 0
  BY DEF Sound, TypeOK, Fresh, Unstarted
<1>1. CASE WorkerInit(t)
  BY <1>1, <1>a DEF WorkerInit
<1>2. CASE WorkerContinue(t) \/ WorkerExit(t) \/ WorkerWoken(t) \/ WorkerReported(t)
           \/ WorkerInterrupted(t)
  BY <1>2, <1>a DEF WorkerContinue, WorkerExit, WorkerWoken, WorkerReported, WorkerInterrupted
<1>3. CASE WorkerStart(t)
  <2>0. room(t) \in Int
    BY DEF Sound, TypeOK, room
  <2>1. PICK r \in 0..room(t) : m_reqs' = [m_reqs EXCEPT ![t] = @ + r]
    BY <1>3 DEF WorkerStart
  <2>2. UNCHANGED <<m_resp, statVars>>
    BY <1>3 DEF WorkerStart
  <2> QED BY <1>a, <2>0, <2>1, <2>2
<1>4. CASE WorkerResponse(t)
  <2>1. m_resp' = [m_resp EXCEPT ![t] = @ + 1] /\ UNCHANGED statVars
    BY <1>4 DEF WorkerResponse, EventDone
  <2>2. m_reqs' = [m_reqs EXCEPT ![t] = @ + 1] \/ UNCHANGED m_reqs
    BY <1>4 DEF WorkerResponse
  <2> QED BY <1>a, <2>1, <2>2
<1>5. CASE WorkerConnected(t)
  <2>1. PICK n \in {0, 1} : m_reqs' = [m_reqs EXCEPT ![t] = @ + n]
    BY <1>5 DEF WorkerConnected
  <2>2. UNCHANGED <<m_resp, statVars>>
    BY <1>5 DEF WorkerConnected, EventDone
  <2> QED BY <1>a, <2>1, <2>2
<1>6. CASE WorkerLost(t)
  BY <1>6, <1>a DEF WorkerLost, EventDone
<1> QED BY <1>1, <1>2, <1>3, <1>4, <1>5, <1>6 DEF Worker

\* the steps of the workers
LEMMA ReportWorker ==
  ASSUME Report, NEW t \in Workers, Worker(t) \/ WorkerReported(t) \/ WorkerInterrupted(t)
  PROVE  Report'
<1>0. Sound'
  BY SoundWorker DEF Report
<1>1. /\ UNCHANGED <<main, i_t, joined>> /\ wpc[t] \notin {"none", "exited"} /\ wpc'[t] \notin Unstarted
      /\ \A u \in Workers : u # t => wpc'[u] = wpc[u]
  BY WorkerMoves DEF Report, mainVars
<1>2. /\ UNCHANGED <<l_total, s_last>>
      /\ \A u \in Workers : m_reqs'[u] >= m_reqs[u] /\ m_resp'[u] >= m_resp[u]
      /\ \A u \in Workers : u # t => m_reqs'[u] = m_reqs[u] /\ m_resp'[u] = m_resp[u]
  BY WorkerCounts DEF Report, statVars
<1>3. Fresh' /\ Uncreated' /\ Joined' /\ Cleared'
  BY <1>1, <1>2 DEF Report, Fresh, Uncreated, Joined, JoinedReports, Cleared, Unstarted
<1>4. ~joined /\ main # "done"
  BY <1>1 DEF Report, Joined, JoinedReports
<1>5. Final'
  BY <1>1, <1>4 DEF Final
<1>6. /\ m_reqs \in [Workers -> Nat] /\ m_resp \in [Workers -> Nat] /\ joined \in BOOLEAN
      /\ m_reqs' \in [Workers -> Nat] /\ m_resp' \in [Workers -> Nat]
  BY <1>0, ReportTypes DEF Sound, TypeOK
<1>10. reqs_seen \in Nat /\ resp_seen \in Nat
  <2>1. i_t \in Nat /\ i_t + 1 \in Nat
    BY ReportTypes
  <2>2. reqs_seen \in {i_t, i_t + 1, 0} /\ resp_seen \in {i_t, 0}
    BY DEF reqs_seen, resp_seen
  <2> QED BY <2>1, <2>2
<1>7. /\ Partial(reqs_so_far, s_last.reqs, reqs_seen, m_reqs', joined)
      /\ Partial(resp_so_far, s_last.resp, resp_seen, m_resp', joined)
  BY <1>2, <1>4, <1>6, <1>10, PartialMoves DEF Report, Seen
<1>8. UNCHANGED <<reqs_seen, resp_seen, reqs_so_far, resp_so_far>>
  BY <1>1, <1>2 DEF reqs_seen, resp_seen, reqs_so_far, resp_so_far
<1>9. Seen'
  BY <1>1, <1>2, <1>7, <1>8 DEF Seen
<1> QED BY <1>0, <1>3, <1>5, <1>9 DEF Report

\* every step
LEMMA ReportStep == Report /\ [Next]_vars => Report'
<1> SUFFICES ASSUME Report, [Next]_vars PROVE Report'
  OBVIOUS
<1>1. CASE Main \/ Finish
  BY <1>1, ReportMain, ReportReqs, ReportResp
<1>2. ASSUME NEW t \in Workers, Worker(t) \/ WorkerReported(t) \/ WorkerInterrupted(t)
      PROVE  Report'
  BY <1>2, ReportWorker
<1>3. CASE UNCHANGED vars
  <2>1. UNCHANGED <<main, i_t, joined, l_total, s_last, wpc, m_reqs, m_resp>>
    BY <1>3 DEF vars, mainVars, statVars, workerVars
  <2>2. UNCHANGED <<reqs_seen, resp_seen, reqs_so_far, resp_so_far>>
    BY <2>1 DEF reqs_seen, resp_seen, reqs_so_far, resp_so_far
  <2> QED BY <1>3, <2>1, <2>2, SoundStep
         DEF Report, Fresh, Uncreated, Joined, JoinedReports, Cleared, Seen, Final
<1> QED BY <1>1, <1>2, <1>3 DEF Next, Exited

\* and so in every state
LEMMA ReportHolds == Spec => []Report
BY ReportInit, ReportStep, PTL DEF Spec

\* The final report is all the workers did: get_stat runs once more after the last join, and what
\* it reads of a worker that is over is what that worker has counted.
THEOREM FinalReportHolds == Spec => []FinalReport
<1>1. Report => FinalReport
  BY DEF Report, Final, FinalReport
<1> QED BY ReportHolds, <1>1, PTL

\* A display shows no less than the last, and no more than there is, though every term of its sums
\* is read at another time, from a worker that goes on counting, or that has not started.
THEOREM DisplayGrowsHolds == Spec => DisplayGrows
<1> DEFINE Grows == /\ s_last'.reqs >= s_last.reqs /\ s_last'.resp >= s_last.resp
                    /\ s_last'.reqs <= SumFunction(m_reqs) /\ s_last'.resp <= SumFunction(m_resp)
<1>1. Report /\ [Next]_vars => [Grows]_s_last
  <2> SUFFICES ASSUME Report, [Next]_vars, s_last' # s_last PROVE Grows
    OBVIOUS
  <2>1. MainStatResp /\ last
    <3>1. ASSUME NEW t \in Workers, Worker(t) \/ WorkerReported(t) \/ WorkerInterrupted(t)
          PROVE  FALSE
      BY <3>1, WorkerCounts DEF Report, statVars
    <3>2. Main
      BY <3>1 DEF Next, Exited, Finish, vars, statVars
    <3>3. MainStatResp
      BY <3>2 DEF Main, MainCreate, MainRun, MainLoop, MainSleep, MainCheck, MainStatReqs, MainStop,
                  MainSignal, MainJoin, statVars
    <3> QED BY <3>3 DEF MainStatResp
  <2> QED BY <2>1, Displayed
<1>2. Spec => []Report /\ [][Next]_vars
  BY ReportHolds, PTL DEF Spec
<1> QED BY <1>1, <1>2, PTL DEF DisplayGrows

-----------------------------------------------------------------------------
(* Main ends the test only when there is nothing left to ask for.          *)

\* the shares of the workers make up -f
LEMMA SharesMakeUp ==
  ASSUME NumToRequest >= 0
  PROVE  /\ [t \in Workers |-> share(t)] \in [Workers -> Nat]
         /\ SumFunction([t \in Workers |-> share(t)]) = NumToRequest
<1> DEFINE q == NumToRequest \div NumThreads
           r == NumToRequest % NumThreads
           even == [t \in Workers |-> q]
           shares == [t \in Workers |-> share(t)]
<1>1. q \in Nat /\ r \in Nat /\ q * NumThreads + r = NumToRequest
  OBVIOUS
<1>2. 0 \in Workers
  BY DEF Workers
<1>3. \A t \in Workers : share(t) = IF t = 0 THEN q + r ELSE q
  BY <1>1 DEF share
<1> HIDE DEF q, r
<1>4. /\ even \in [Workers -> Nat] /\ shares \in [Workers -> Nat]
      /\ even[0] = q /\ shares[0] = q + r
      /\ \A t \in Workers : t # 0 => shares[t] = even[t]
  BY <1>1, <1>2, <1>3
<1>5. SumFunction(even) = q * NumThreads
  BY <1>1, WorkersFinite, SumSame
<1> HIDE DEF even, shares
<1>6. SumFunction(shares) = SumFunction(even) + shares[0] - even[0]
  BY <1>2, <1>4, WorkersFinite, SumChanged
<1>7. q * NumThreads \in Nat
  BY <1>1
<1>8. SumFunction(shares) = NumToRequest
  BY <1>1, <1>4, <1>5, <1>6, <1>7
<1> QED BY <1>4, <1>8 DEF shares

\* a worker has its share from before it starts
Shared ==
  /\ main = "init" => \A t \in Workers : t < i_t => m_num_to_request[t] = share(t)
  /\ main # "init" => \A t \in Workers : m_num_to_request[t] = share(t)

\* a worker that is over before main calls stop() has had the responses of its share
Earned ==
  main \in Watching /\ ~joined =>
    \A t \in Workers : wpc[t] = "exited" => m_num_to_request[t] >= 0 /\ m_resp[t] >= m_num_to_request[t]

Due == Shared /\ Earned

\* before main has given out the shares
LEMMA DueInit == Init => Due
BY DEF Init, Due, Shared, Earned, Workers

\* the steps of main
LEMMA DueMain ==
  ASSUME Watch, Report, Due, Main \/ Finish
  PROVE  Due'
<1>a. /\ i_t \in Workers /\ m_num_to_request \in [Workers -> Nat \cup {-1}]
      /\ wpc \in [Workers -> WPC]
  BY DEF Report, Sound, TypeOK
<1>b. /\ ~last => \A t \in Workers : t < i_t + 1 <=> t < i_t \/ t = i_t
      /\ last => \A t \in Workers : t < i_t \/ t = i_t
  BY <1>a DEF Workers, last
<1>1. Shared'
  <2>1. CASE MainCreate
    BY <2>1, <1>a, <1>b DEF MainCreate, NextWorker, Due, Shared, share
  <2>2. CASE ~MainCreate
    <3>1. (main # "init" /\ main' # "init") \/ UNCHANGED <<main, i_t>>
      BY <2>2 DEF Main, MainRun, MainLoop, MainSleep, MainCheck, MainStatReqs, MainStatResp,
                  MainStop, MainSignal, MainJoin, NextWorker, Finish, mainVars
    <3>2. UNCHANGED m_num_to_request
      BY <2>2 DEF Main, MainRun, MainLoop, MainSleep, MainCheck, MainStatReqs, MainStatResp,
                  MainStop, MainSignal, MainJoin, Finish, workerVars
    <3> QED BY <3>1, <3>2 DEF Due, Shared, share
  <2> QED BY <2>1, <2>2
<1>2. Earned'
  <2>1. CASE MainCreate
    BY <2>1 DEF MainCreate, Report, Uncreated, Earned
  <2>2. CASE MainRun
    BY <2>2, <1>a DEF MainRun, Report, Uncreated, Due, Earned, Watching, NextWorker
  <2>3. CASE ~MainCreate /\ ~MainRun
    <3>1. UNCHANGED <<wpc, m_num_to_request, m_resp>>
      BY <2>3 DEF Main, MainLoop, MainSleep, MainCheck, MainStatReqs, MainStatResp, MainStop,
                  MainSignal, MainJoin, Finish, workerVars
    <3>2. main' \in Watching /\ ~joined' => main \in Watching /\ ~joined
      BY <2>3 DEF Main, MainLoop, MainSleep, MainCheck, MainStatReqs, MainStatResp, MainStop,
                  MainSignal, MainJoin, NextWorker, Finish, mainVars, Watching
    <3> QED BY <3>1, <3>2 DEF Due, Earned
  <2> QED BY <2>1, <2>2, <2>3
<1> QED BY <1>1, <1>2 DEF Due

\* a worker ends by itself only with the responses it was to get
LEMMA DueWorker ==
  ASSUME Watch, Report, Due, NEW t \in Workers,
         Worker(t) \/ WorkerReported(t) \/ WorkerInterrupted(t)
  PROVE  Due'
<1>a. /\ wpc \in [Workers -> WPC] /\ m_num_to_request \in [Workers -> Nat \cup {-1}]
      /\ m_resp \in [Workers -> Nat]
  BY DEF Report, Sound, TypeOK
<1>1. /\ UNCHANGED <<main, i_t, joined>> /\ wpc[t] # "exited"
      /\ \A u \in Workers : u # t => wpc'[u] = wpc[u]
  BY WorkerMoves DEF Report, mainVars
<1>2. UNCHANGED m_num_to_request
  BY DEF Worker, WorkerInit, WorkerContinue, WorkerExit, WorkerStart, WorkerWoken, WorkerReported,
         WorkerInterrupted, WorkerResponse, WorkerConnected, WorkerLost, EventDone
<1>3. \A u \in Workers : u # t => m_resp'[u] = m_resp[u]
  BY WorkerCounts DEF Report
<1>4. Shared'
  BY <1>1, <1>2 DEF Due, Shared, share
<1>5. ASSUME main \in Watching, ~joined, wpc'[t] = "exited"
      PROVE  m_num_to_request[t] >= 0 /\ m_resp'[t] >= m_num_to_request[t]
  <2>1. WorkerExit(t)
    BY <1>5, <1>a DEF Worker, WorkerInit, WorkerContinue, WorkerStart, WorkerWoken,
           WorkerReported, WorkerInterrupted, WorkerResponse, WorkerConnected, WorkerLost, EventDone
  <2>2. wpc[t] = "loop" /\ ~more(t) /\ UNCHANGED m_resp
    BY <2>1 DEF WorkerExit
  <2>3. ~m_stopped[t]
    BY <1>5, <2>2 DEF Watch, FlagIsTrue, Unstarted
  <2> QED BY <2>2, <2>3, <1>a DEF more
<1>6. Earned'
  BY <1>1, <1>2, <1>3, <1>5 DEF Due, Earned
<1> QED BY <1>4, <1>6 DEF Due

\* every step
LEMMA DueStep == Watch /\ Report /\ Due /\ [Next]_vars => Due'
<1> SUFFICES ASSUME Watch, Report, Due, [Next]_vars PROVE Due'
  OBVIOUS
<1>1. CASE Main \/ Finish
  BY <1>1, DueMain
<1>2. ASSUME NEW t \in Workers, Worker(t) \/ WorkerReported(t) \/ WorkerInterrupted(t)
      PROVE  Due'
  BY <1>2, DueWorker
<1>3. CASE UNCHANGED vars
  BY <1>3 DEF Due, Shared, Earned, share, vars, mainVars, workerVars
<1> QED BY <1>1, <1>2, <1>3 DEF Next, Exited

\* when every worker has what it was to get, -f responses are there
LEMMA DueSum ==
  ASSUME Report, Due, main = "check", \A t \in Workers : wpc[t] = "exited"
  PROVE  SumFunction(m_resp) >= NumToRequest
<1>1. m_resp \in [Workers -> Nat] /\ SumFunction(m_resp) \in Nat
  BY ReportTypes, WorkersFinite, SumType
<1>2. CASE NumToRequest < 0
  BY <1>1, <1>2
<1>3. CASE NumToRequest >= 0
  <2> DEFINE shares == [t \in Workers |-> share(t)]
  <2>1. ~joined /\ main \in Watching /\ main # "init"
    BY DEF Report, Joined, JoinedReports, Watching
  <2>2. \A t \in Workers : shares[t] <= m_resp[t]
    BY <2>1 DEF Due, Shared, Earned
  <2>3. shares \in [Workers -> Nat] /\ SumFunction(shares) = NumToRequest
    BY <1>3, SharesMakeUp
  <2> HIDE DEF shares
  <2>4. SumFunction(shares) <= SumFunction(m_resp)
    BY <1>1, <2>2, <2>3, WorkersFinite, SumGrows
  <2> QED BY <1>1, <1>3, <2>3, <2>4
<1> QED BY <1>2, <1>3

\* If the workers start before main looks at them, main ends the test of its own accord only when
\* -f responses are there.
THEOREM NothingCutShortHolds == PromptStart => (Spec => NothingCutShort)
<1> DEFINE Noticed == main = "check" /\ main' # "check" /\ g_test_finished' # g_test_finished
           AllOver == \A t \in Workers : wpc[t] = "exited"
           Enough == SumFunction(m_resp) >= NumToRequest
<1> SUFFICES ASSUME PromptStart PROVE Spec => NothingCutShort
  OBVIOUS
<1>1. Report /\ Due /\ [Noticed => AllOver]_vars => [Noticed => Enough]_vars
  BY DueSum
<1>2. Spec => [][Noticed => AllOver]_vars
  BY NoticeJustifiedHolds DEF NoticeJustified
<1>3. Spec => []Report /\ []Due
  BY WatchInit, WatchStep, ReportInit, ReportStep, DueInit, DueStep, PTL DEF Spec
<1> QED BY <1>1, <1>2, <1>3, PTL DEF NothingCutShort
=============================================================================
