------------------------------ MODULE HurlMain -----------------------------
(***************************************************************************)
(* The main thread of hurl with all its workers: splitting -f, starting    *)
(* the workers, watching and showing their progress, stopping and joining  *)
(* them, and the final report (main from its "init" to its "results",      *)
(* get_stat).  The main thread reads and writes what the workers use       *)
(* without locks, one worker and one member at a time, and so it does here.*)
(*                                                                         *)
(* A worker is what THurl shows of it: it starts, fills its connections,   *)
(* waits, and handles an event of a connection or the wakeup of stop().    *)
(***************************************************************************)
EXTENDS Integers, Functions

CONSTANTS
  NumThreads,    \* g_num_threads      (-t)
  NumToRequest,  \* l_num_to_request   (-f), -1 for no limit
  ParallelMax,   \* l_num_parallel     (-p)
  PromptStart,   \* TRUE iff every worker gets to run before main looks at it
  EarlyEnd,      \* TRUE iff q, SIGINT, -l or a failed ncsetup may end the test
  MaxReqs        \* bound on the requests of a worker

ASSUME ThreadsAssumption == NumThreads \in Nat \ {0}
ASSUME OptionsAssumption ==
  NumToRequest \in (Nat \ {0}) \cup {-1} /\ ParallelMax \in Nat \ {0} /\ MaxReqs \in Nat
ASSUME WorldAssumption == PromptStart \in BOOLEAN /\ EarlyEnd \in BOOLEAN

VARIABLES
  \* the main thread
  main,         \* where it is
  i_t,          \* the worker its loop has come to
  l_is_running, \* a worker was found running
  joined,       \* all workers are joined; what remains is the final report
  g_test_finished,
  l_total,      \* the sums of get_stat so far: requests, responses, 2xx responses
  s_last,       \* the sums it showed last
  \* the workers
  wpc,          \* where a worker is; "none" before it has a thread
  m_stopped,
  m_num_to_request,
  conns,        \* how many connections it holds
  m_reqs, m_resp, m_resp_2xx,   \* m_stat
  ctl           \* an unreported write to its control eventfd

mainVars   == <<main, i_t, l_is_running, joined>>
statVars   == <<l_total, s_last>>
workerVars == <<wpc, m_stopped, m_num_to_request, conns, m_reqs, m_resp, m_resp_2xx, ctl>>
vars == <<mainVars, g_test_finished, statVars, workerVars>>

Workers == 0..(NumThreads - 1)
Mains == {"init", "run", "loop", "sleep", "check", "stat_reqs", "stat_resp", "stop", "signal",
          "join", "done"}
WPC   == {"none", "new", "loop", "start", "wait", "event", "exited"}
Totals == [reqs : Nat, resp : Nat, class : Nat]
NoTotals == [reqs |-> 0, resp |-> 0, class |-> 0]

TypeOK ==
  /\ main \in Mains /\ i_t \in Workers /\ l_is_running \in BOOLEAN /\ joined \in BOOLEAN
  /\ g_test_finished \in BOOLEAN
  /\ l_total \in Totals /\ s_last \in Totals
  /\ wpc \in [Workers -> WPC]
  /\ m_stopped \in [Workers -> BOOLEAN] /\ ctl \in [Workers -> BOOLEAN]
  /\ m_num_to_request \in [Workers -> Nat \cup {-1}]
  /\ conns \in [Workers -> 0..ParallelMax]
  /\ m_reqs \in [Workers -> Nat] /\ m_resp \in [Workers -> Nat]
  /\ m_resp_2xx \in [Workers -> Nat]

\* the constructor of t_hurl makes m_stopped true
Init ==
  /\ main = "init" /\ i_t = 0 /\ l_is_running = FALSE /\ joined = FALSE
  /\ g_test_finished = FALSE
  /\ l_total = NoTotals /\ s_last = NoTotals
  /\ wpc = [t \in Workers |-> "none"]
  /\ m_stopped = [t \in Workers |-> TRUE] /\ ctl = [t \in Workers |-> FALSE]
  /\ m_num_to_request = [t \in Workers |-> -1]
  /\ conns = [t \in Workers |-> 0]
  /\ m_reqs = [t \in Workers |-> 0] /\ m_resp = [t \in Workers |-> 0]
  /\ m_resp_2xx = [t \in Workers |-> 0]

-----------------------------------------------------------------------------
(* The main thread.  A loop over the workers goes on at s, or to m when it *)
(* has done the last.                                                      *)

last == i_t = NumThreads - 1
NextWorker(s, m) == /\ i_t' = IF last THEN 0 ELSE i_t + 1
                    /\ main' = IF last THEN m ELSE s

share_x(t) == NumToRequest \div NumThreads  \* the remainder is lost

\* l_num_to_request_per: the first worker gets the remainder
share(t) ==
  IF NumToRequest < 0 THEN -1
  ELSE NumToRequest \div NumThreads + (IF t = 0 THEN NumToRequest % NumThreads ELSE 0)

MainCreate ==
  /\ main = "init"
  /\ m_num_to_request' = [m_num_to_request EXCEPT ![i_t] = share(i_t)]
  /\ NextWorker("init", "run")
  /\ UNCHANGED <<l_is_running, joined, g_test_finished, statVars, wpc, m_stopped, conns, m_reqs, m_resp,
                 m_resp_2xx, ctl>>

\* pthread_create
MainRun ==
  /\ main = "run"
  /\ wpc' = [wpc EXCEPT ![i_t] = "new"]
  /\ NextWorker("run", "loop")
  /\ UNCHANGED <<l_is_running, joined, g_test_finished, statVars, m_stopped, m_num_to_request, conns,
                 m_reqs, m_resp, m_resp_2xx, ctl>>

\* while (!g_test_finished)
MainLoop ==
  /\ main = "loop"
  /\ PromptStart => \A t \in Workers : wpc[t] # "new"
  /\ main' = IF g_test_finished THEN "stop" ELSE "sleep"
  /\ UNCHANGED <<i_t, l_is_running, joined, g_test_finished, statVars, workerVars>>

\* usleep
MainSleep ==
  /\ main = "sleep"
  /\ l_is_running' = FALSE
  /\ main' = "check"
  /\ UNCHANGED <<i_t, joined, g_test_finished, statVars, workerVars>>

running_x == ~m_stopped[i_t]  \* forgets the workers before

\* is one of the workers looked at so far running
running == l_is_running \/ ~m_stopped[i_t]

\* the loop that looks for a worker that runs; if there is none the test is finished
MainCheck ==
  /\ main = "check"
  /\ l_is_running' = running
  /\ g_test_finished' = (g_test_finished \/ (last /\ ~running))
  /\ NextWorker("check", "stat_reqs")
  /\ UNCHANGED <<joined, statVars, workerVars>>

\* get_stat clears its sums before it looks at the first worker
so_far == IF i_t = 0 THEN NoTotals ELSE l_total

\* get_stat reads a worker's requests
MainStatReqs ==
  /\ main = "stat_reqs"
  /\ l_total' = [so_far EXCEPT !.reqs = @ + m_reqs[i_t]]
  /\ main' = "stat_resp"
  /\ UNCHANGED <<i_t, l_is_running, joined, g_test_finished, s_last, workerVars>>

add_resp_x ==  \* only the workers that run
  [l_total EXCEPT !.resp = IF m_stopped[i_t] THEN @ ELSE @ + m_resp[i_t],
                  !.class = m_resp_2xx[i_t]]

\* get_stat adds a worker's responses; the count of their class it assigns
add_resp ==
  [l_total EXCEPT !.resp = @ + m_resp[i_t], !.class = m_resp_2xx[i_t]]

\* get_stat reads a worker's responses; after the last worker it keeps the sums, of which
\* the next rates are differences
MainStatResp ==
  /\ main = "stat_resp"
  /\ l_total' = add_resp
  /\ NextWorker("stat_reqs", IF joined THEN "done" ELSE "loop")
  /\ s_last' = IF last THEN l_total' ELSE s_last
  /\ UNCHANGED <<l_is_running, joined, g_test_finished, workerVars>>

\* t_hurl::stop, for each worker
MainStop ==
  /\ main = "stop"
  /\ m_stopped' = [m_stopped EXCEPT ![i_t] = TRUE]
  /\ main' = "signal"
  /\ UNCHANGED <<i_t, l_is_running, joined, g_test_finished, statVars, wpc, m_num_to_request, conns,
                 m_reqs, m_resp, m_resp_2xx, ctl>>

signalled_x == ctl  \* the wakeup is lost
signalled == [ctl EXCEPT ![i_t] = TRUE]
MainSignal ==
  /\ main = "signal"
  /\ ctl' = signalled
  /\ NextWorker("stop", "join")
  /\ UNCHANGED <<l_is_running, joined, g_test_finished, statVars, wpc, m_stopped, m_num_to_request,
                 conns, m_reqs, m_resp, m_resp_2xx>>

\* pthread_join returns when the thread is over
MainJoin ==
  /\ main = "join"
  /\ wpc[i_t] = "exited"
  /\ joined' = last
  /\ NextWorker("join", "stat_reqs")
  /\ UNCHANGED <<l_is_running, g_test_finished, statVars, workerVars>>

Main == MainCreate \/ MainRun \/ MainLoop \/ MainSleep \/ MainCheck \/ MainStatReqs \/ MainStatResp
        \/ MainStop \/ MainSignal \/ MainJoin

\* q, SIGINT taken by main, the run time of -l, or a worker whose ncsetup failed
Finish ==
  /\ EarlyEnd /\ ~g_test_finished
  /\ g_test_finished' = TRUE
  /\ UNCHANGED <<mainVars, statVars, workerVars>>

-----------------------------------------------------------------------------
(* A worker.                                                               *)

\* t_run up to its loop
WorkerInit(t) ==
  /\ wpc[t] = "new"
  /\ m_stopped' = [m_stopped EXCEPT ![t] = FALSE]
  /\ m_reqs' = [m_reqs EXCEPT ![t] = 0] /\ m_resp' = [m_resp EXCEPT ![t] = 0]
  /\ m_resp_2xx' = [m_resp_2xx EXCEPT ![t] = 0]
  /\ wpc' = [wpc EXCEPT ![t] = "loop"]
  /\ UNCHANGED <<mainVars, g_test_finished, statVars, m_num_to_request, conns, ctl>>

\* the condition of t_run's loop, and its end
more(t) == ~m_stopped[t] /\ (m_num_to_request[t] < 0 \/ m_num_to_request[t] > m_resp[t])

WorkerContinue(t) ==
  /\ wpc[t] = "loop" /\ more(t)
  /\ wpc' = [wpc EXCEPT ![t] = "start"]
  /\ UNCHANGED <<mainVars, g_test_finished, statVars, m_stopped, m_num_to_request, conns, m_reqs,
                 m_resp, m_resp_2xx, ctl>>

WorkerExit(t) ==
  /\ wpc[t] = "loop" /\ ~more(t)
  /\ m_stopped' = [m_stopped EXCEPT ![t] = TRUE]
  /\ wpc' = [wpc EXCEPT ![t] = "exited"]
  /\ UNCHANGED <<mainVars, g_test_finished, statVars, m_num_to_request, conns, m_reqs, m_resp,
                 m_resp_2xx, ctl>>

room_x(t) == ParallelMax  \* forgets the connections there are
room(t) == ParallelMax - conns[t]

\* conn_start adds n connections, some of which connect at once and issue a request; the one
\* that makes it give up may have issued a request before it was lost.  Once the test is
\* finished, the connection it creates is deleted before it issues any.
WorkerStart(t) ==
  /\ wpc[t] = "start"
  /\ \E n, r \in 0..room(t) :
       /\ r <= n + 1
       /\ g_test_finished => n = 0 /\ r = 0
       /\ m_reqs[t] + r <= MaxReqs
       /\ conns' = [conns EXCEPT ![t] = @ + n]
       /\ m_reqs' = [m_reqs EXCEPT ![t] = @ + r]
  /\ wpc' = [wpc EXCEPT ![t] = "wait"]
  /\ UNCHANGED <<mainVars, g_test_finished, statVars, m_stopped, m_num_to_request, m_resp,
                 m_resp_2xx, ctl>>

\* epoll_wait takes the wakeup of stop()
WorkerWoken(t) ==
  /\ wpc[t] = "wait" /\ ctl[t]
  /\ ctl' = [ctl EXCEPT ![t] = FALSE]
  /\ wpc' = [wpc EXCEPT ![t] = "loop"]
  /\ UNCHANGED <<mainVars, g_test_finished, statVars, m_stopped, m_num_to_request, conns, m_reqs,
                 m_resp, m_resp_2xx>>

\* epoll_wait takes SIGINT: sig_handler finishes the test, and evr_loop::run fails
WorkerInterrupted(t) ==
  /\ wpc[t] = "wait" /\ EarlyEnd /\ ~g_test_finished
  /\ g_test_finished' = TRUE
  /\ wpc' = [wpc EXCEPT ![t] = "loop"]
  /\ UNCHANGED <<mainVars, statVars, m_stopped, m_num_to_request, conns, m_reqs, m_resp,
                 m_resp_2xx, ctl>>

\* epoll_wait reports a connection (and stop()'s wakeup, if it is there); if the test is
\* finished by then, the connection is deleted
WorkerReported(t) ==
  /\ wpc[t] = "wait" /\ conns[t] > 0
  /\ ctl' = [ctl EXCEPT ![t] = FALSE]
  /\ IF g_test_finished
     THEN wpc' = [wpc EXCEPT ![t] = "loop"] /\ conns' = [conns EXCEPT ![t] = @ - 1]
     ELSE wpc' = [wpc EXCEPT ![t] = "event"] /\ UNCHANGED conns
  /\ UNCHANGED <<mainVars, g_test_finished, statVars, m_stopped, m_num_to_request, m_reqs, m_resp,
                 m_resp_2xx>>

\* the worker is done with what epoll_wait reported
EventDone(t) ==
  /\ wpc[t] = "event"
  /\ wpc' = [wpc EXCEPT ![t] = "loop"]
  /\ UNCHANGED <<mainVars, g_test_finished, statVars, m_stopped, m_num_to_request, ctl>>

\* the requests in progress: THurl's Conservation
pending(t) == m_reqs[t] - m_resp[t]

\* can_request after a response that leaves n requests in progress
can_request(t, n) ==
  /\ ~g_test_finished /\ ~m_stopped[t]
  /\ n < ParallelMax
  /\ m_num_to_request[t] < 0 \/ m_num_to_request[t] > m_reqs[t] + n

\* a response, of class 2xx or not; the connection is used again, closed, or kept until
\* its server closes it
WorkerResponse(t) ==
  /\ EventDone(t)
  /\ pending(t) > 0
  /\ m_resp' = [m_resp EXCEPT ![t] = @ + 1]
  /\ \E ok \in {0, 1} : m_resp_2xx' = [m_resp_2xx EXCEPT ![t] = @ + ok]
  /\ \/ /\ can_request(t, pending(t) - 1) /\ m_reqs[t] < MaxReqs
        /\ m_reqs' = [m_reqs EXCEPT ![t] = @ + 1]
        /\ UNCHANGED conns
     \/ /\ conns' = [conns EXCEPT ![t] = @ - 1]
        /\ UNCHANGED m_reqs
     \/ UNCHANGED <<conns, m_reqs>>

\* a connection connects and issues its first request, or has nothing to count yet
WorkerConnected(t) ==
  /\ EventDone(t)
  /\ \E n \in {0, 1} : m_reqs[t] + n <= MaxReqs /\ m_reqs' = [m_reqs EXCEPT ![t] = @ + n]
  /\ UNCHANGED <<conns, m_resp, m_resp_2xx>>

\* a connection is lost
WorkerLost(t) ==
  /\ EventDone(t)
  /\ conns' = [conns EXCEPT ![t] = @ - 1]
  /\ UNCHANGED <<m_reqs, m_resp, m_resp_2xx>>

\* what the worker does without anybody's help
Worker(t) == \/ WorkerInit(t) \/ WorkerContinue(t) \/ WorkerExit(t) \/ WorkerStart(t)
             \/ WorkerWoken(t) \/ WorkerResponse(t) \/ WorkerConnected(t) \/ WorkerLost(t)

Exited == main = "done" /\ UNCHANGED vars

Next == Main \/ Finish \/ Exited
        \/ \E t \in Workers : Worker(t) \/ WorkerReported(t) \/ WorkerInterrupted(t)

Fairness == WF_vars(Main) /\ \A t \in Workers : WF_vars(Worker(t))

Spec == Init /\ [][Next]_vars /\ Fairness

-----------------------------------------------------------------------------
(* Properties.                                                             *)

\* After the test is finished every worker is stopped and joined and the process ends.
\* It needs the workers to have started: t_run undoes a stop() that comes before it.
Shutdown == g_test_finished ~> main = "done"

\* Main's own test ends the run only when every worker is over, though it reads the flags
\* one at a time while workers change them, and a flag is also true before its worker
\* starts.
NoticeJustified ==
  [][main = "check" /\ main' # "check" /\ g_test_finished' # g_test_finished =>
       \A t \in Workers : wpc[t] = "exited"]_vars

\* The final report shows what the workers did, all of it, whoever ended the test.
FinalReport ==
  main = "done" => s_last.reqs = SumFunction(m_reqs) /\ s_last.resp = SumFunction(m_resp)

\* When main itself ends the test, the workers have -f responses between them: the shares
\* they were given, with their remainder, make up -f, also if some get no share.
NothingCutShort ==
  [][main = "check" /\ main' # "check" /\ g_test_finished' # g_test_finished =>
       SumFunction(m_resp) >= NumToRequest]_vars

\* A display never shows fewer requests or responses than the one before (the rates are
\* unsigned differences of the two), nor more than there were.
DisplayGrows ==
  [][/\ s_last'.reqs >= s_last.reqs /\ s_last'.resp >= s_last.resp
     /\ s_last'.reqs <= SumFunction(m_reqs) /\ s_last'.resp <= SumFunction(m_resp)]_s_last
=============================================================================
