------------------------------- MODULE THurl -------------------------------
(***************************************************************************)
(* One worker thread of hurl (class t_hurl): its main loop t_run, the      *)
(* connection starter conn_start, the event loop it blocks in, and the     *)
(* per-connection state machine session::run_state_machine, for plain      *)
(* HTTP/1.x connections (nconn_tcp, http_session).  The thread runs        *)
(* against                                                                 *)
(*   - the main thread, which sets g_test_finished and then calls stop()   *)
(*     (its startup, its other threads and its display are elsewhere);     *)
(*   - the kernel: sockets, and epoll in edge-triggered mode;              *)
(*   - the server at the other end of every connection.                    *)
(*                                                                         *)
(* A pass of the state machine is two steps, the check of g_test_finished  *)
(* at the label state_top, and the switch up to the next goto state_top or *)
(* return.  In a pass the code reads what other threads write only there,  *)
(* in can_request(), and in one system call.  A request is ReqBlocks       *)
(* blocks of the out queue, one block per send(); a response is a short    *)
(* sequence of units, one per recv().                                      *)
(***************************************************************************)
EXTENDS Integers, Sequences, FiniteSets

CONSTANTS
  Conns,         \* addresses an nconn object can have
  None,          \* no connection
  ParallelMax,   \* m_num_conn_parallel_max   (-p)
  NumToRequest,  \* m_num_to_request          (-f), -1 for no limit
  ReqsPerConn,   \* g_reqs_per_conn           (-N), -1 for no limit
  ReqBlocks,     \* blocks the out queue holds for one request
  UserQuits,     \* TRUE iff q, SIGINT or -l may end the test early
  SendMayFill,   \* TRUE iff the socket's send buffer may fill up
  ServerAnswers, \* TRUE iff a server eventually answers every request
  EarlyAnswers,  \* TRUE iff a server may answer before it has the whole request
  FaultKinds,    \* what may go wrong in the kernel or at a server
  MaxFaults      \* bound on the number of faults

AllFaults == {"setup", "refused", "unreachable", "reset", "close", "garbage"}

ASSUME ConnsAssumption == IsFiniteSet(Conns) /\ None \notin Conns
ASSUME OptionsAssumption ==
  /\ ParallelMax \in Nat \ {0}
  /\ NumToRequest \in Nat \cup {-1}
  /\ ReqsPerConn \in (Nat \ {0}) \cup {-1}
  /\ ReqBlocks \in Nat \ {0}
ASSUME WorldAssumption ==
  /\ UserQuits \in BOOLEAN /\ SendMayFill \in BOOLEAN
  /\ ServerAnswers \in BOOLEAN /\ EarlyAnswers \in BOOLEAN
  /\ FaultKinds \subseteq AllFaults
  /\ MaxFaults \in Nat

VARIABLES
  \* the worker thread
  pc,             \* where the thread is: see PC
  cur,            \* the connection run_state_machine works on, or None
  mode,           \* a_conn_mode of that call
  caller,         \* who called it: conn_start, or one of the two event callbacks
  batch,          \* m_events: per connection, the events epoll_wait reported
  m_reqs, m_resp, m_errors,   \* m_stat
  m_num_in_progress,
  \* the connections (nconn, and the http_session it carries)
  nc_state,       \* m_nc_state, or "none" when there is no such nconn
  m_num_reqs,     \* completed requests of the nconn
  out_q,          \* blocks of m_out_q not yet sent
  m_resp_state,   \* how far the response parser (m_resp) has got
  m_goaway,
  \* the kernel
  link,           \* state of the connection's socket
  mask,           \* the events its fd is registered for
  ready,          \* is the fd on epoll's ready list
  full,           \* is its send buffer full
  rx,             \* units in its receive buffer
  \* the servers
  server,         \* what the server is doing with the current request
  seen,           \* requests the server has begun to receive on this connection
  faults,         \* faults so far
  \* the main thread
  main, g_test_finished, m_stopped,
  ctl             \* an unreported write to the control eventfd

counters   == <<m_reqs, m_resp, m_errors, m_num_in_progress>>
threadVars == <<pc, cur, mode, caller, batch>>
connVars   == <<nc_state, m_num_reqs, out_q, m_resp_state, m_goaway>>
sockVars   == <<link, mask, ready, full, rx>>
serverVars == <<server, seen>>
mainVars   == <<main, g_test_finished, m_stopped, ctl>>
vars == <<threadVars, counters, connVars, sockVars, serverVars, faults, mainVars>>

PC == {"loop", "start", "wait", "dispatch", "top", "sm", "after_read", "exited"}
ConnStates == {"none", "FREE", "CONNECTING", "CONNECTED", "DONE"}
RespStates == {"start", "partial", "to_eof", "keep", "close"}
Links   == {"none", "new", "syn", "up", "fin", "dead"}
Events  == {"IN", "OUT", "RDHUP", "HUP", "ERR"}
Units   == {"part", "head", "end", "end_close", "bad"}
Servers == {"idle", "owes", "mid", "to_eof", "closing"}
Mains   == {"run", "stop", "signal", "join", "done"}

TypeOK ==
  /\ pc \in PC /\ cur \in Conns \cup {None}
  /\ mode \in {"READ", "WRITE"} /\ caller \in {"start", "read", "write"}
  /\ batch \in [Conns -> SUBSET Events]
  /\ m_reqs \in Nat /\ m_resp \in Nat /\ m_errors \in Nat /\ m_num_in_progress \in Nat
  /\ nc_state \in [Conns -> ConnStates]
  /\ m_num_reqs \in [Conns -> Nat]
  /\ out_q \in [Conns -> 0..ReqBlocks]
  /\ m_resp_state \in [Conns -> RespStates]
  /\ m_goaway \in [Conns -> BOOLEAN]
  /\ link \in [Conns -> Links]
  /\ mask \in [Conns -> SUBSET Events]
  /\ ready \in [Conns -> BOOLEAN] /\ full \in [Conns -> BOOLEAN]
  /\ rx \in [Conns -> Seq(Units)]
  /\ server \in [Conns -> Servers] /\ seen \in [Conns -> Nat]
  /\ faults \in 0..MaxFaults
  /\ main \in Mains
  /\ g_test_finished \in BOOLEAN /\ m_stopped \in BOOLEAN /\ ctl \in BOOLEAN

Init ==
  /\ pc = "loop" /\ cur = None /\ mode = "WRITE" /\ caller = "start"
  /\ batch = [c \in Conns |-> {}]
  /\ m_reqs = 0 /\ m_resp = 0 /\ m_errors = 0 /\ m_num_in_progress = 0
  /\ nc_state = [c \in Conns |-> "none"]
  /\ m_num_reqs = [c \in Conns |-> 0]
  /\ out_q = [c \in Conns |-> 0]
  /\ m_resp_state = [c \in Conns |-> "start"]
  /\ m_goaway = [c \in Conns |-> FALSE]
  /\ link = [c \in Conns |-> "none"]
  /\ mask = [c \in Conns |-> {}]
  /\ ready = [c \in Conns |-> FALSE] /\ full = [c \in Conns |-> FALSE]
  /\ rx = [c \in Conns |-> << >>]
  /\ server = [c \in Conns |-> "idle"] /\ seen = [c \in Conns |-> 0]
  /\ faults = 0
  /\ main = "run"
  /\ g_test_finished = FALSE /\ m_stopped = FALSE /\ ctl = FALSE

-----------------------------------------------------------------------------
(* The connection set and the predicates the code asks of it.              *)

\* m_nconn_set: an nconn is inserted when it is created and erased when it is freed
m_nconn_set == {c \in Conns : nc_state[c] # "none"}

\* Names that end in _x are faulty forms of the definition that follows: a slip a
\* programmer could make there.  No action uses them; they show that the properties
\* can fail.

room_x == Cardinality(m_nconn_set) <= ParallelMax  \* one too many

\* conn_start's room for another connection
room == Cardinality(m_nconn_set) < ParallelMax

can_reuse_x(n) == ReqsPerConn = -1 \/ n <= ReqsPerConn  \* one too many

\* nconn::can_reuse, of a connection that has completed n requests
can_reuse(n) == ReqsPerConn = -1 \/ n < ReqsPerConn

can_request_x(n_reqs, n_in_progress) ==  \* forgets the requests in progress
  /\ ~g_test_finished /\ ~m_stopped
  /\ n_in_progress < ParallelMax
  /\ NumToRequest < 0 \/ NumToRequest >= n_reqs

\* t_hurl::can_request, with the counters it reads; m_reqs counts the requests in
\* progress too, so they are counted twice
can_request(n_reqs, n_in_progress) ==
  /\ ~g_test_finished /\ ~m_stopped
  /\ n_in_progress < ParallelMax
  /\ NumToRequest < 0 \/ NumToRequest > n_reqs + n_in_progress

\* request::m_keepalive: -N 1 turns it off
m_keepalive == ReqsPerConn # 1

complete_x(r) == r # "start"  \* takes any part of a response for all of it

\* resp::m_complete
complete(r) == r \in {"keep", "close"}

\* http_parser_execute and the callbacks of cb.cc on one unit; a body without a
\* length is completed by the end of the stream
parse(r, u) ==
  CASE u = "part"      -> "partial"
    [] u = "head"      -> "to_eof"
    [] u = "end"       -> "keep"
    [] u = "end_close" -> "close"
    [] u = "EOF"       -> IF r = "to_eof" THEN "close" ELSE r

-----------------------------------------------------------------------------
(* The kernel: what a socket in state l, with receive buffer r and a send  *)
(* buffer that is full or not, would report to poll().                     *)

poll(l, r, f) ==
  (IF r # << >> \/ l \in {"fin", "dead"} THEN {"IN"} ELSE {}) \cup
  (IF l \in {"new", "dead"} \/ (l \in {"up", "fin"} /\ ~f) THEN {"OUT"} ELSE {}) \cup
  (IF l \in {"fin", "dead"} THEN {"RDHUP"} ELSE {}) \cup
  (IF l \in {"new", "dead"} THEN {"HUP"} ELSE {}) \cup
  (IF l = "dead" THEN {"ERR"} ELSE {})

\* ERR and HUP are reported whether registered or not
armed(m) == m \cup {"ERR", "HUP"}

\* what epoll_wait would report for c
reported(c) == IF ready[c] THEN poll(link[c], rx[c], full[c]) \cap armed(mask[c]) ELSE {}

\* epoll_ctl ADD or MOD of c to mask m while its socket is in state l: the fd goes
\* on the ready list if it has something to report already
evr_ctl(c, m, l) ==
  /\ mask' = [mask EXCEPT ![c] = m]
  /\ ready' = [ready EXCEPT ![c] = @ \/ poll(l, rx[c], full[c]) \cap armed(m) # {}]

\* the masks nconn_tcp registers: in ncsetup, in ncconnect, and in ncwrite on EAGAIN
mask_setup == {"IN", "RDHUP"}
mask_connect_x == {"OUT", "RDHUP"}  \* forgets to read
mask_connect == {"IN", "OUT", "RDHUP"}
mask_again == {"OUT", "RDHUP"}

fault(k) == /\ k \in FaultKinds /\ faults < MaxFaults
            /\ faults' = faults + 1

-----------------------------------------------------------------------------
(* t_hurl::t_run and t_hurl::conn_start.                                   *)

more_x == ~m_stopped /\ (NumToRequest < 0 \/ NumToRequest > m_reqs)  \* requests, not responses

\* the condition of t_run's loop
more == ~m_stopped /\ (NumToRequest < 0 \/ NumToRequest > m_resp)

RunContinue ==
  /\ pc = "loop" /\ more
  /\ pc' = "start"
  /\ UNCHANGED <<cur, mode, caller, batch, counters, connVars, sockVars, serverVars,
                 faults, mainVars>>

\* the end of t_run
RunExit ==
  /\ pc = "loop" /\ ~more
  /\ m_stopped' = TRUE
  /\ pc' = "exited"
  /\ UNCHANGED <<cur, mode, caller, batch, counters, connVars, sockVars, serverVars,
                 faults, main, g_test_finished, ctl>>

\* conn_start creates a connection and calls its writeable callback
StartConn(c) ==
  /\ pc = "start"
  /\ room
  /\ nc_state[c] = "none"
  /\ nc_state' = [nc_state EXCEPT ![c] = "FREE"]
  /\ pc' = "top" /\ cur' = c /\ mode' = "WRITE" /\ caller' = "start"
  /\ UNCHANGED <<batch, counters, m_num_reqs, out_q, m_resp_state, m_goaway, sockVars,
                 serverVars, faults, mainVars>>

\* conn_start has nothing to start; t_run goes on to evr_loop::run
StartNone ==
  /\ pc = "start"
  /\ ~room
  /\ pc' = "wait"
  /\ UNCHANGED <<cur, mode, caller, batch, counters, connVars, sockVars, serverVars,
                 faults, mainVars>>

-----------------------------------------------------------------------------
(* evr_loop::run: epoll_wait, then one read and one write callback per     *)
(* reported fd.  No timer is ever queued, so the wait has no timeout.      *)

\* epoll_wait returns; edge triggered, so what it reports leaves the ready list.
\* The control fd carries no evr_fd and its event is skipped.
EvrWait ==
  /\ pc = "wait"
  /\ ctl \/ \E c \in Conns : reported(c) # {}
  /\ batch' = [c \in Conns |-> reported(c)]
  /\ ready' = [c \in Conns |-> FALSE]
  /\ ctl' = FALSE
  /\ pc' = "dispatch"
  /\ UNCHANGED <<cur, mode, caller, counters, connVars, link, mask, full, rx, serverVars,
                 faults, main, g_test_finished, m_stopped>>

\* SIGINT is taken by the worker in epoll_wait: sig_handler finishes the test, and run
\* fails with EINTR, which t_run ignores
EvrInterrupted ==
  /\ pc = "wait" /\ UserQuits /\ ~g_test_finished
  /\ g_test_finished' = TRUE
  /\ pc' = "loop"
  /\ UNCHANGED <<cur, mode, caller, batch, counters, connVars, sockVars, serverVars,
                 faults, main, m_stopped, ctl>>

\* the read callback of a reported fd: IN, RDHUP, HUP and ERR are all readable events,
\* and every mask that is registered has a readable bit
EvrRead(c) ==
  /\ pc = "dispatch"
  /\ batch[c] \ {"OUT"} # {}
  /\ pc' = "top" /\ cur' = c /\ mode' = "READ" /\ caller' = "read"
  /\ UNCHANGED <<batch, counters, connVars, sockVars, serverVars, faults, mainVars>>

\* the write callback of an fd reported as writeable only
EvrWrite(c) ==
  /\ pc = "dispatch"
  /\ batch[c] = {"OUT"}
  /\ pc' = "top" /\ cur' = c /\ mode' = "WRITE" /\ caller' = "write"
  /\ UNCHANGED <<batch, counters, connVars, sockVars, serverVars, faults, mainVars>>

\* the rest of the loop body after a read callback that returned STATUS_OK
EvrAfterRead ==
  /\ pc = "after_read"
  /\ IF /\ batch[cur] \cap {"HUP", "ERR"} = {}
        /\ "OUT" \in batch[cur] /\ "OUT" \in mask[cur]
     THEN /\ pc' = "top" /\ mode' = "WRITE" /\ caller' = "write"
          /\ UNCHANGED <<cur, batch>>
     ELSE /\ pc' = "dispatch" /\ cur' = None
          /\ batch' = [batch EXCEPT ![cur] = {}]
          /\ UNCHANGED <<mode, caller>>
  /\ UNCHANGED <<counters, connVars, sockVars, serverVars, faults, mainVars>>

\* every reported fd is serviced: evr_loop::run returns to t_run
EvrDone ==
  /\ pc = "dispatch"
  /\ \A c \in Conns : batch[c] = {}
  /\ pc' = "loop"
  /\ UNCHANGED <<cur, mode, caller, batch, counters, connVars, sockVars, serverVars,
                 faults, mainVars>>

-----------------------------------------------------------------------------
(* session::run_state_machine.                                             *)

\* the parameters of a call that is over
NoCall == mode' = "WRITE" /\ caller' = "start"

\* the call returns STATUS_OK to conn_start (which starts the next connection), or to
\* the event loop
ReturnOk ==
  /\ pc' = CASE caller = "start" -> "start"
             [] caller = "read"  -> "after_read"
             [] caller = "write" -> "dispatch"
  /\ cur' = IF caller = "read" THEN cur ELSE None
  /\ batch' = IF caller = "read" THEN batch ELSE [batch EXCEPT ![cur] = {}]
  /\ NoCall

ReturnNotOk_x == ReturnOk  \* forgets that the nconn may be gone

\* the call returns STATUS_ERROR or STATUS_DONE: conn_start gives up for this turn of
\* t_run, and the event loop skips what is left of the fd's events
ReturnNotOk ==
  /\ pc' = IF caller = "start" THEN "wait" ELSE "dispatch"
  /\ cur' = None
  /\ batch' = [batch EXCEPT ![cur] = {}]
  /\ NoCall

\* goto state_top, in mode m
GotoTop(m) == pc' = "top" /\ mode' = m /\ UNCHANGED <<cur, caller, batch>>

SetState(c, s) == nc_state' = [nc_state EXCEPT ![c] = s]

set_state_done_x == SetState(cur, "DONE") /\ ReturnNotOk  \* returns and never cleans up

\* set_state_done(), goto state_top
set_state_done == SetState(cur, "DONE") /\ GotoTop(mode)

\* t_hurl::session_cleanup with nconn::nc_cleanup and the deletes: the session, the
\* nconn and the socket are gone; the requests it had in progress stay counted
session_cleanup(c) ==
  /\ nc_state' = [nc_state EXCEPT ![c] = "none"]
  /\ m_num_reqs' = [m_num_reqs EXCEPT ![c] = 0]
  /\ out_q' = [out_q EXCEPT ![c] = 0]
  /\ m_resp_state' = [m_resp_state EXCEPT ![c] = "start"]
  /\ m_goaway' = [m_goaway EXCEPT ![c] = FALSE]
  /\ link' = [link EXCEPT ![c] = "none"]
  /\ mask' = [mask EXCEPT ![c] = {}]
  /\ ready' = [ready EXCEPT ![c] = FALSE]
  /\ full' = [full EXCEPT ![c] = FALSE]
  /\ rx' = [rx EXCEPT ![c] = << >>]
  /\ server' = [server EXCEPT ![c] = "idle"]
  /\ seen' = [seen EXCEPT ![c] = 0]

SmTop_x ==  \* without the check
  /\ pc = "top"
  /\ pc' = "sm"
  /\ UNCHANGED <<cur, mode, caller, batch, counters, connVars, sockVars, serverVars,
                 faults, mainVars>>

\* the check at state_top
SmTop ==
  /\ pc = "top" /\ ~g_test_finished
  /\ pc' = "sm"
  /\ UNCHANGED <<cur, mode, caller, batch, counters, connVars, sockVars, serverVars,
                 faults, mainVars>>

SmFinished ==
  /\ pc = "top" /\ g_test_finished
  /\ session_cleanup(cur)
  /\ ReturnNotOk
  /\ UNCHANGED <<counters, faults, mainVars>>

\* the case of the switch on the nconn's state
SmPass(s) == pc = "sm" /\ nc_state[cur] = s

\* case NC_STATE_FREE: ncsetup makes the socket and adds it to epoll, where a socket
\* that is not connected yet is ready with HUP
SmFree ==
  /\ SmPass("FREE")
  /\ link' = [link EXCEPT ![cur] = "new"]
  /\ evr_ctl(cur, mask_setup, "new")
  /\ SetState(cur, "CONNECTING")
  /\ GotoTop(mode)
  /\ UNCHANGED <<counters, m_num_reqs, out_q, m_resp_state, m_goaway, full, rx,
                 serverVars, faults, mainVars>>

\* case NC_STATE_FREE: ncsetup fails and the test is over
SmSetupFails ==
  /\ SmPass("FREE")
  /\ fault("setup")
  /\ g_test_finished' = TRUE
  /\ ReturnNotOk
  /\ UNCHANGED <<counters, connVars, sockVars, serverVars, main, m_stopped, ctl>>

\* case NC_STATE_CONNECTING: connect() is under way
SmConnecting ==
  /\ SmPass("CONNECTING")
  /\ link[cur] = "new"
  /\ link' = [link EXCEPT ![cur] = "syn"]
  /\ evr_ctl(cur, mask_connect, "syn")
  /\ ReturnOk
  /\ UNCHANGED <<counters, connVars, full, rx, serverVars, faults, mainVars>>

\* case NC_STATE_CONNECTING: ncconnect fails; the nconn stays in the set, CONNECTING.
\* A connection that is refused or reset leaves a socket that can connect again and
\* whose error wakes epoll; one with no route leaves it as it was.
SmConnectFails ==
  /\ SmPass("CONNECTING")
  /\ \/ /\ link[cur] = "new" /\ fault("refused")
        /\ ready' = [ready EXCEPT ![cur] = TRUE]
     \/ /\ link[cur] = "new" /\ fault("unreachable")
        /\ UNCHANGED ready
     \/ /\ link[cur] = "dead"
        /\ ready' = [ready EXCEPT ![cur] = TRUE]
        /\ UNCHANGED faults
  /\ link' = [link EXCEPT ![cur] = "new"]
  /\ m_errors' = m_errors + 1
  /\ ReturnNotOk
  /\ UNCHANGED <<m_reqs, m_resp, m_num_in_progress, connVars, mask, full, rx, serverVars,
                 mainVars>>

\* case NC_STATE_CONNECTING: connected, at once or since the last call; session_create
\* and the first srequest
SmConnected ==
  /\ SmPass("CONNECTING")
  /\ link[cur] \in {"new", "up", "fin"}
  /\ link' = [link EXCEPT ![cur] = IF @ = "new" THEN "up" ELSE @]
  /\ evr_ctl(cur, mask_connect, link'[cur])
  /\ SetState(cur, "CONNECTED")
  /\ m_reqs' = m_reqs + 1
  /\ m_num_in_progress' = m_num_in_progress + 1
  /\ out_q' = [out_q EXCEPT ![cur] = ReqBlocks]
  /\ GotoTop("WRITE")
  /\ UNCHANGED <<m_resp, m_errors, m_num_reqs, m_resp_state, m_goaway, full, rx,
                 serverVars, faults, mainVars>>

\* case NC_STATE_DONE
SmDone ==
  /\ SmPass("DONE")
  /\ session_cleanup(cur)
  /\ ReturnNotOk
  /\ UNCHANGED <<counters, faults, mainVars>>

\* recv() on c: the next unit, the end of the stream, an error or nothing yet
recv(c) ==
  CASE rx[c] # << >>                      -> Head(rx[c])
    [] rx[c] = << >> /\ link[c] = "fin"   -> "EOF"
    [] rx[c] = << >> /\ link[c] = "dead"  -> "ERROR"
    [] OTHER                              -> "AGAIN"

\* a pass of case NC_STATE_CONNECTED in mode READ or WRITE
Reading == SmPass("CONNECTED") /\ mode = "READ"
Writing == SmPass("CONNECTED") /\ mode = "WRITE"

\* nc_read returns AGAIN
SmReadAgain ==
  /\ Reading /\ recv(cur) = "AGAIN"
  /\ ReturnOk
  /\ UNCHANGED <<counters, connVars, sockVars, serverVars, faults, mainVars>>

\* nc_read fails, or the response does not parse
SmReadError ==
  /\ Reading /\ recv(cur) \in {"ERROR", "bad"}
  /\ rx' = [rx EXCEPT ![cur] = IF @ = << >> THEN @ ELSE Tail(@)]
  /\ set_state_done
  /\ UNCHANGED <<counters, m_num_reqs, out_q, m_resp_state, m_goaway, link, mask, ready,
                 full, serverVars, faults, mainVars>>

\* nc_read returns bytes or the end of the stream, which the parser takes
Received(u) ==
  /\ Reading
  /\ recv(cur) = u /\ u \in (Units \ {"bad"}) \cup {"EOF"}
  /\ rx' = [rx EXCEPT ![cur] = IF u = "EOF" THEN @ ELSE Tail(@)]
  /\ UNCHANGED <<m_errors, link, mask, ready, full, serverVars, faults, mainVars>>

\* the state the read leaves the nconn in, unless it is set to DONE later
StateAfter(u) == IF u = "EOF" THEN "DONE" ELSE "CONNECTED"

\* the response is not complete yet: send the rest of the request, or read on
SmReadPart(u) ==
  LET r == parse(m_resp_state[cur], u) IN
  /\ Received(u) /\ ~complete(r)
  /\ m_resp_state' = [m_resp_state EXCEPT ![cur] = r]
  /\ SetState(cur, StateAfter(u))
  /\ GotoTop(IF out_q[cur] # 0 THEN "WRITE" ELSE "READ")
  /\ UNCHANGED <<m_reqs, m_resp, m_num_in_progress, m_num_reqs, out_q, m_goaway>>

\* the connection must not carry another request after a response that left the
\* parser in state r: m_goaway, as sread sets it
goaway(r) ==
  \/ m_goaway[cur]
  \/ ~can_reuse(m_num_reqs[cur] + 1) \/ ~m_keepalive \/ r = "close"

in_progress_left_x == m_num_in_progress - 1  \* wraps below zero
in_progress_left_y == m_num_in_progress      \* leaks what is answered
in_progress_left_z == 0                      \* forgets the other connections

\* session::request_complete
in_progress_left == IF m_num_in_progress > 0 THEN m_num_in_progress - 1 ELSE 0
request_complete_x ==  \* counts a response nobody waits for
  /\ m_num_reqs' = [m_num_reqs EXCEPT ![cur] = @ + 1]
  /\ m_resp' = m_resp + 1
request_complete ==
  /\ m_num_reqs' = [m_num_reqs EXCEPT ![cur] = @ + 1]
  /\ m_resp' = IF m_num_in_progress > 0 THEN m_resp + 1 ELSE m_resp

\* the parser says the response is complete (again, if it was already) before the
\* request is sent: it is counted, and the rest of the request is sent
SmReadEarly(u) ==
  LET r == parse(m_resp_state[cur], u) IN
  /\ Received(u) /\ complete(r)
  /\ out_q[cur] # 0
  /\ request_complete
  /\ m_num_in_progress' = in_progress_left
  /\ m_resp_state' = [m_resp_state EXCEPT ![cur] = r]
  /\ m_goaway' = [m_goaway EXCEPT ![cur] = goaway(r)]
  /\ SetState(cur, StateAfter(u))
  /\ GotoTop("WRITE")
  /\ UNCHANGED <<m_reqs, out_q>>

\* the response is complete and the connection is not used again
SmReadLast(u) ==
  LET r == parse(m_resp_state[cur], u) IN
  /\ Received(u) /\ complete(r)
  /\ out_q[cur] = 0
  /\ goaway(r) \/ ~can_request(m_reqs, in_progress_left)
  /\ request_complete
  /\ m_num_in_progress' = in_progress_left
  /\ m_resp_state' = [m_resp_state EXCEPT ![cur] = r]
  /\ m_goaway' = [m_goaway EXCEPT ![cur] = goaway(r)]
  /\ set_state_done
  /\ UNCHANGED <<m_reqs, out_q>>

\* the response is complete and the next request of the connection follows: srequest,
\* whatever state the read left the nconn in
SmReadNext(u) ==
  LET r == parse(m_resp_state[cur], u) IN
  /\ Received(u) /\ complete(r)
  /\ out_q[cur] = 0
  /\ ~goaway(r) /\ can_request(m_reqs, in_progress_left)
  /\ request_complete
  /\ m_reqs' = m_reqs + 1
  /\ m_num_in_progress' = in_progress_left + 1
  /\ out_q' = [out_q EXCEPT ![cur] = ReqBlocks]
  /\ m_resp_state' = [m_resp_state EXCEPT ![cur] = "start"]
  /\ SetState(cur, StateAfter(u))
  /\ GotoTop("WRITE")
  /\ UNCHANGED m_goaway

\* nothing left to write
SmWriteNothing ==
  /\ Writing /\ out_q[cur] = 0
  /\ ReturnOk
  /\ UNCHANGED <<counters, connVars, sockVars, serverVars, faults, mainVars>>

\* send() fails
SmWriteError ==
  /\ Writing /\ out_q[cur] # 0
  /\ link[cur] = "dead"
  /\ set_state_done
  /\ UNCHANGED <<counters, m_num_reqs, out_q, m_resp_state, m_goaway, sockVars,
                 serverVars, faults, mainVars>>

\* send() returns EAGAIN: ncwrite registers the fd for writing
SmWriteAgain ==
  /\ Writing /\ out_q[cur] # 0
  /\ link[cur] # "dead" /\ full[cur]
  /\ evr_ctl(cur, mask_again, link[cur])
  /\ ReturnOk
  /\ UNCHANGED <<counters, connVars, link, full, rx, serverVars, faults, mainVars>>

\* send() takes a block; the first block of a request is what the server sees of it
SmWrite ==
  /\ Writing /\ out_q[cur] # 0
  /\ link[cur] # "dead" /\ ~full[cur]
  /\ out_q' = [out_q EXCEPT ![cur] = @ - 1]
  /\ \E f \in {FALSE, SendMayFill} : full' = [full EXCEPT ![cur] = f]
  /\ IF link[cur] = "up" /\ out_q[cur] = ReqBlocks
     THEN /\ server' = [server EXCEPT ![cur] = "owes"]
          /\ seen' = [seen EXCEPT ![cur] = @ + 1]
     ELSE UNCHANGED serverVars
  /\ GotoTop(mode)
  /\ UNCHANGED <<counters, nc_state, m_num_reqs, m_resp_state, m_goaway, link, mask,
                 ready, rx, faults, mainVars>>

run_state_machine ==
  \/ SmTop \/ SmFinished \/ SmFree \/ SmSetupFails
  \/ SmConnecting \/ SmConnectFails \/ SmConnected
  \/ SmReadAgain \/ SmReadError
  \/ \E u \in Units \cup {"EOF"} :
       SmReadPart(u) \/ SmReadEarly(u) \/ SmReadLast(u) \/ SmReadNext(u)
  \/ SmWriteNothing \/ SmWriteError \/ SmWriteAgain \/ SmWrite
  \/ SmDone

Thread ==
  \/ RunContinue \/ RunExit \/ (\E c \in Conns : StartConn(c)) \/ StartNone
  \/ EvrWait \/ (\E c \in Conns : EvrRead(c) \/ EvrWrite(c)) \/ EvrAfterRead \/ EvrDone
  \/ run_state_machine

-----------------------------------------------------------------------------
(* The kernel and the servers.  A change wakes epoll if the fd is          *)
(* registered for it; the end of a stream and an error always do.          *)

Wake(c, ev) == ready' = [ready EXCEPT ![c] = @ \/ ev \cap armed(mask[c]) # {}]

\* the handshake ends well
Establish(c) ==
  /\ link[c] = "syn"
  /\ link' = [link EXCEPT ![c] = "up"]
  /\ Wake(c, {"OUT"})
  /\ UNCHANGED <<threadVars, counters, connVars, mask, full, rx, serverVars, faults, mainVars>>

\* the server refuses the connection
Refuse(c) ==
  /\ link[c] = "syn"
  /\ fault("refused")
  /\ link' = [link EXCEPT ![c] = "dead"]
  /\ Wake(c, {"ERR"})
  /\ UNCHANGED <<threadVars, counters, connVars, mask, full, rx, serverVars, mainVars>>

\* the server takes what filled the send buffer
Drain(c) ==
  /\ full[c] /\ link[c] = "up"
  /\ full' = [full EXCEPT ![c] = FALSE]
  /\ Wake(c, {"OUT"})
  /\ UNCHANGED <<threadVars, counters, connVars, link, mask, rx, serverVars, faults, mainVars>>

\* the server sends unit u and goes on to state s
Send(c, u, s) ==
  /\ link[c] = "up"
  /\ EarlyAnswers \/ (out_q[c] = 0 /\ ~full[c])
  /\ rx' = [rx EXCEPT ![c] = Append(@, u)]
  /\ server' = [server EXCEPT ![c] = s]
  /\ Wake(c, {"IN"})
  /\ UNCHANGED <<threadVars, counters, connVars, link, mask, full, seen, mainVars>>

\* part of an answer, the head of one that ends with the stream, and the end of one
Answer(c) ==
  /\ \/ server[c] = "owes" /\ (Send(c, "part", "mid") \/ Send(c, "head", "to_eof"))
     \/ server[c] \in {"owes", "mid"} /\ (Send(c, "end", "idle") \/ Send(c, "end_close", "closing"))
  /\ UNCHANGED faults

\* an answer that is not HTTP
Garbage(c) ==
  /\ server[c] \in {"owes", "mid"}
  /\ Send(c, "bad", "closing")
  /\ fault("garbage")

Close(c) ==
  /\ link[c] = "up"
  /\ link' = [link EXCEPT ![c] = "fin"]
  /\ ready' = [ready EXCEPT ![c] = TRUE]
  /\ UNCHANGED <<threadVars, counters, connVars, mask, full, rx, serverVars, mainVars>>

\* the server closes: after an answer that says so
CloseAfterAnswer(c) == server[c] \in {"to_eof", "closing"} /\ Close(c) /\ UNCHANGED faults

\* the server closes an idle connection, or gives up in the middle of an answer
CloseEarly(c) == server[c] \notin {"to_eof", "closing"} /\ Close(c) /\ fault("close")

Reset(c) ==
  /\ link[c] \in {"up", "fin"}
  /\ fault("reset")
  /\ link' = [link EXCEPT ![c] = "dead"]
  /\ ready' = [ready EXCEPT ![c] = TRUE]
  /\ UNCHANGED <<threadVars, counters, connVars, mask, full, rx, serverVars, mainVars>>

World(c) ==
  \/ Establish(c) \/ Refuse(c) \/ Drain(c) \/ Answer(c) \/ Garbage(c)
  \/ CloseAfterAnswer(c) \/ CloseEarly(c) \/ Reset(c)

-----------------------------------------------------------------------------
(* The main thread, from the time the worker runs.                         *)

\* q, SIGINT or the run time of -l
MainQuit ==
  /\ main = "run" /\ UserQuits /\ ~g_test_finished
  /\ g_test_finished' = TRUE
  /\ UNCHANGED <<threadVars, counters, connVars, sockVars, serverVars, faults, main,
                 m_stopped, ctl>>

\* no thread is running any more
MainNotice ==
  /\ main = "run" /\ m_stopped /\ ~g_test_finished
  /\ g_test_finished' = TRUE
  /\ UNCHANGED <<threadVars, counters, connVars, sockVars, serverVars, faults, main,
                 m_stopped, ctl>>

MainLeave ==
  /\ main = "run" /\ g_test_finished
  /\ main' = "stop"
  /\ UNCHANGED <<threadVars, counters, connVars, sockVars, serverVars, faults,
                 g_test_finished, m_stopped, ctl>>

\* t_hurl::stop
MainStop ==
  /\ main = "stop"
  /\ m_stopped' = TRUE /\ main' = "signal"
  /\ UNCHANGED <<threadVars, counters, connVars, sockVars, serverVars, faults,
                 g_test_finished, ctl>>

signal_x == ctl' = ctl  \* the wakeup is lost

\* evr_epoll::signal: a write to the control eventfd
signal == ctl' = TRUE

MainSignal ==
  /\ main = "signal"
  /\ signal /\ main' = "join"
  /\ UNCHANGED <<threadVars, counters, connVars, sockVars, serverVars, faults,
                 g_test_finished, m_stopped>>

MainJoin ==
  /\ main = "join" /\ pc = "exited"
  /\ main' = "done"
  /\ UNCHANGED <<threadVars, counters, connVars, sockVars, serverVars, faults,
                 g_test_finished, m_stopped, ctl>>

Main == MainNotice \/ MainLeave \/ MainStop \/ MainSignal \/ MainJoin

\* the process is over
Exited == main = "done" /\ UNCHANGED vars

Next == Thread \/ (\E c \in Conns : World(c)) \/ Main \/ MainQuit \/ EvrInterrupted
        \/ Exited

Fairness ==
  /\ WF_vars(Thread)
  /\ WF_vars(Main)
  /\ \A c \in Conns : /\ WF_vars(Establish(c)) /\ WF_vars(Drain(c))
                      /\ WF_vars(CloseAfterAnswer(c))
  /\ ServerAnswers => \A c \in Conns : WF_vars(Answer(c))

Spec == Init /\ [][Next]_vars /\ Fairness

-----------------------------------------------------------------------------
(* Properties.                                                             *)

\* Every request that was issued is either answered or still counted as in progress:
\* srequest, request_complete and session_cleanup keep m_reqs, m_resp and
\* m_num_in_progress in step on every path, lost connections included.
Conservation == m_reqs = m_resp + m_num_in_progress

\* conn_start never holds more connections than -p allows, whatever mixture of failed,
\* closed and reused connections the set is made of.
ParallelBound == Cardinality(m_nconn_set) <= ParallelMax

\* The events epoll reported and the connection a callback works on are never those of
\* an nconn that session_cleanup has deleted (evr_loop::run holds raw pointers).
NoFreedConn ==
  /\ \A c \in Conns : batch[c] # {} => nc_state[c] # "none"
  /\ pc \in {"top", "sm", "after_read"} => nc_state[cur] # "none"

\* A connection the state machine gave up is cleaned up before the call returns: none
\* is left DONE in the set, where it would take a slot of -p for ever.
NoneLeftDone ==
  \A c \in Conns : nc_state[c] = "DONE" => pc \in {"top", "sm"} /\ cur = c

\* A connection carries at most the -N requests asked for, as its server sees them.
CallsPerConn == ReqsPerConn # -1 => \A c \in Conns : seen[c] <= ReqsPerConn

\* A request is not begun on a connection whose server still owes an answer: the
\* response in the parser is always that of the connection's last request.
OneAtATime ==
  \A c \in Conns : link[c] = "up" /\ out_q[c] = ReqBlocks => server[c] = "idle"

\* m_num_in_progress never falls below the number of connections that wait for an
\* answer, so can_request never lets -p be exceeded by reuse.
Waiting(c) == nc_state[c] = "CONNECTED" /\ ~complete(m_resp_state[c])
InFlightCounted == Cardinality({c \in Conns : Waiting(c)}) <= m_num_in_progress

\* Once the test is finished the worker issues at most one more request, that of the
\* pass it was in: the flag may be set between state_top and srequest, but no pass
\* begins after it.
QuietAfterFinish ==
  [][g_test_finished =>
       /\ m_reqs' <= m_reqs + 1
       /\ pc # "sm" \/ m_reqs' # m_reqs => pc' # "sm"
       /\ pc # "sm" => m_reqs' = m_reqs]_vars

\* The worker ends only when it has its responses or was told to stop.
ExitJustified ==
  pc = "exited" => (NumToRequest >= 0 /\ m_resp >= NumToRequest) \/ main \in {"signal", "join", "done"}

\* After the test is finished the process ends: stop() always gets the worker out of
\* epoll_wait and out of the state machine.
Shutdown == g_test_finished ~> main = "done"

\* With -f the worker gets its responses and ends.
Completion == <>(pc = "exited" /\ m_resp >= NumToRequest)

\* What the server sends is read, or the connection is given up, before the worker
\* ends: edge-triggered events leave no unit behind in a receive buffer.
ResponseIsRead == \A c \in Conns : rx[c] # << >> ~> rx[c] = << >> \/ pc = "exited"

-----------------------------------------------------------------------------
(* The worker implements LoadGen.                                          *)

conn_state(s) == CASE s = "none"                   -> "closed"
                   [] s \in {"FREE", "CONNECTING"} -> "opening"
                   [] s \in {"CONNECTED", "DONE"}  -> "used"

LG == INSTANCE LoadGen WITH
        conn     <- [c \in Conns |-> conn_state(nc_state[c])],
        sent     <- seen,
        asked    <- m_reqs,
        answered <- m_resp,
        stopped  <- m_stopped,
        ended    <- pc = "exited"

\* The state machine, its callbacks and the event loop add up to the worker LoadGen
\* describes: no lost, repeated or early response lets it hold, send or ask for more.
ImplementsLoadGen == LG!Spec
=============================================================================
