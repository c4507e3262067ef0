------------------------------ MODULE H2Session -----------------------------
(***************************************************************************)
(* HTTP/2 over TLS: a worker with -p 1, its event loop, its connection     *)
(* (nconn_tls over nconn_tcp) and the session on it (h2_session, with the  *)
(* nghttp2 callbacks), against the kernel and a server.  The test is not   *)
(* ended early here, and the server speaks h2; THurl has the rest.         *)
(*                                                                         *)
(* nghttp2 is modelled by what h2_session sees of it: mem_recv takes       *)
(* frames and calls back, send puts the frames it may send into m_out_q.   *)
(* One request is open at a time, so there is one stream.  A frame of      *)
(* m_out_q is written by one nc_write; the preface and the SETTINGS of     *)
(* either side go with its first frame.                                    *)
(***************************************************************************)
EXTENDS Integers, Sequences, FiniteSets, SequencesExt, FiniteSetsExt

CONSTANTS
  NumToRequest,   \* m_num_to_request   (-f)
  ReqsPerConn,    \* g_reqs_per_conn    (-N), -1 for no limit
  BodyFrames,     \* DATA frames of a request's body
  RespFrames,     \* DATA frames of an answer
  Window,         \* DATA frames either side takes before it has to give credit
  SendMayFill,    \* TRUE iff a DATA frame may fill the socket's send buffer
  EarlyAnswers,   \* TRUE iff a server may answer before it has, and has credited, the request
  FaultKinds,     \* what may go wrong
  MaxFaults       \* bound on the number of faults

AllFaults == {"handshake", "close", "rst", "goaway"}

ASSUME OptionsAssumption ==
  NumToRequest \in Nat \ {0} /\ ReqsPerConn \in (Nat \ {0}) \cup {-1}
ASSUME FramesAssumption == BodyFrames \in Nat /\ RespFrames \in Nat /\ Window \in Nat \ {0}
ASSUME WorldAssumption ==
  /\ SendMayFill \in BOOLEAN /\ EarlyAnswers \in BOOLEAN
  /\ FaultKinds \subseteq AllFaults /\ MaxFaults \in Nat

VARIABLES
  \* the worker
  pc,          \* "loop", "wait", "sm", "after_read" or "exited"
  mode,        \* a_conn_mode of the call of run_state_machine
  caller,      \* the callback that made it: "read" or "write"
  batch,       \* the events epoll_wait reported
  m_reqs, m_resp, m_errors, m_num_in_progress,
  \* the connection
  nc_state,    \* m_nc_state, or "none"
  tls,         \* m_tls_state: "tcp", "hello" (SSL_connect waits), "failed" or "up"
  m_num_reqs,
  \* the session
  out_q,       \* frames of m_out_q not yet written
  ses,         \* m_goaway, m_streams_closed, m_h2_body_q, and what nghttp2 keeps
  \* the kernel, and the record layer of TLS above it
  link,        \* state of the socket
  ready,       \* is it on epoll's ready list
  full,        \* is its send buffer full
  rx,          \* records received, each one a sequence of frames
  pend,        \* what SSL_read has not handed out of a record it has taken
  \* the server
  srv,         \* what it is doing with the current request
  seen,        \* requests it has begun to receive on this connection
  got,         \* DATA frames it has of the request
  owed,        \* credit it has yet to give for them
  sent,        \* DATA frames of the answer sent
  srv_window,  \* DATA frames it may send
  leaving,     \* it has sent GOAWAY
  whole,       \* every request it has received had its whole body
  faults

counters   == <<m_reqs, m_resp, m_errors, m_num_in_progress>>
threadVars == <<pc, mode, caller, batch>>
connVars   == <<nc_state, tls, m_num_reqs>>
sesVars    == <<out_q, ses>>
sockVars   == <<link, ready, full>>
srvVars    == <<srv, seen, got, owed, sent, srv_window, leaving, whole>>
vars == <<threadVars, counters, connVars, sesVars, sockVars, rx, pend, srvVars, faults>>

Events  == {"IN", "OUT", "RDHUP", "HUP", "ERR"}
Frames  == {"ACK", "WU", "HEADERS", "HEADERS_END", "DATA", "DATA_END"}
SrvFrames == {"SETTINGS", "CREDIT", "data", "END", "RST", "GOAWAY"}

Session == [stream : {"none", "open", "half_local", "half_remote"},
            goaway : BOOLEAN, closed : 0..1, body_q : {-1} \cup 0..BodyFrames,
            ctl : SUBSET {"ACK", "WU"}, window : Nat, consumed : 0..Window]

TypeOK ==
  /\ pc \in {"loop", "wait", "sm", "after_read", "exited"}
  /\ mode \in {"READ", "WRITE"} /\ caller \in {"read", "write"} /\ batch \subseteq Events
  /\ m_reqs \in Nat /\ m_resp \in Nat /\ m_errors \in Nat /\ m_num_in_progress \in Nat
  /\ nc_state \in {"none", "CONNECTING", "CONNECTED", "DONE"}
  /\ tls \in {"tcp", "hello", "failed", "up"} /\ m_num_reqs \in Nat
  /\ out_q \in Seq(Frames) /\ ses \in Session
  /\ link \in {"none", "syn", "up", "fin", "rst", "dead"} /\ ready \in BOOLEAN /\ full \in BOOLEAN
  /\ rx \in Seq(Seq(SrvFrames \cup {"hello"})) /\ pend \in Seq(SrvFrames)
  /\ srv \in {"idle", "hello", "recv", "owes", "gone"}
  /\ seen \in Nat /\ got \in Nat /\ owed \in Nat /\ sent \in 0..RespFrames /\ srv_window \in Nat
  /\ leaving \in BOOLEAN /\ whole \in BOOLEAN /\ faults \in 0..MaxFaults

\* a session before its first request
NewSession == [stream |-> "none", goaway |-> FALSE, closed |-> 0, body_q |-> -1, ctl |-> {},
               window |-> Window, consumed |-> 0]

Init ==
  /\ pc = "loop" /\ mode = "WRITE" /\ caller = "write" /\ batch = {}
  /\ m_reqs = 0 /\ m_resp = 0 /\ m_errors = 0 /\ m_num_in_progress = 0
  /\ nc_state = "none" /\ tls = "tcp" /\ m_num_reqs = 0
  /\ out_q = << >> /\ ses = NewSession
  /\ link = "none" /\ ready = FALSE /\ full = FALSE /\ rx = << >> /\ pend = << >>
  /\ srv = "idle" /\ seen = 0 /\ got = 0 /\ owed = 0 /\ sent = 0 /\ srv_window = Window
  /\ leaving = FALSE /\ whole = TRUE /\ faults = 0

-----------------------------------------------------------------------------
(* The session and nghttp2.                                                *)

\* nconn::can_reuse, of a connection that has completed n requests
can_reuse(n) == ReqsPerConn = -1 \/ n < ReqsPerConn

m_keepalive == ReqsPerConn # 1

can_request_x(n_in_progress) == n_in_progress < 1  \* forgets -f

\* t_hurl::can_request, with -p 1
can_request(n_in_progress) == n_in_progress < 1 /\ NumToRequest > m_reqs + n_in_progress

\* the stream closes: what stream_close_cb does to the session
stream_closed(s) ==
  [s EXCEPT !.stream = "none", !.closed = 1,
            !.goaway = @ \/ ~can_reuse(m_num_reqs + 1) \/ ~m_keepalive]

\* what is left to read of the body; m_h2_body_q is made when it is first read
body_left(s) == IF s.body_q = -1 THEN BodyFrames ELSE s.body_q

may_send_x(s) == IF s.stream \in {"open", "half_remote"} THEN body_left(s) ELSE 0  \* and no window

\* DATA frames nghttp2 asks data_source_read_cb for: while the window lasts, and one if the
\* body has nothing left (it returns 0 bytes and the end)
may_send(s) ==
  IF s.stream \in {"open", "half_remote"} /\ s.window > 0
  THEN IF body_left(s) = 0 THEN 1 ELSE Min({s.window, body_left(s)})
  ELSE 0

\* nghttp2_session_send: the frames it gives ngxxx_send_cb, control frames first
sends(s) ==
  SetToSeq(s.ctl) \o
  [i \in 1..may_send(s) |-> IF i >= body_left(s) THEN "DATA_END" ELSE "DATA"]

\* ... and what is left of the session: the last DATA frame ends our side of the stream
after_send(s) ==
  LET n == may_send(s)
      t == [s EXCEPT !.ctl = {}, !.window = @ - n,
                     !.body_q = IF n > 0 THEN Max({body_left(s) - n, 0}) ELSE @]
  IN  IF n = 0 \/ n < body_left(s) THEN t
      ELSE IF s.stream = "open" THEN [t EXCEPT !.stream = "half_local"]
      ELSE stream_closed(t)

\* h2_session::srequest: nghttp2_submit_request, whose HEADERS end the stream if there is no body
submit(s) == [s EXCEPT !.stream = IF BodyFrames = 0 THEN "half_local" ELSE "open"]
headers == IF BodyFrames = 0 THEN "HEADERS_END" ELSE "HEADERS"

\* ... and nghttp2_session_send
srequest_frames(s) == SetToSeq(s.ctl) \o <<headers>> \o sends([submit(s) EXCEPT !.ctl = {}])

\* nghttp2_session_mem_recv on one frame, with its callbacks; GOAWAY closes a stream the
\* server has not begun
on_frame(s, f) ==
  CASE f = "SETTINGS" -> [s EXCEPT !.ctl = @ \cup {"ACK"}]
    [] f = "CREDIT"   -> [s EXCEPT !.window = @ + 1]
    [] f = "data"     -> IF s.consumed + 1 < Window THEN [s EXCEPT !.consumed = @ + 1]
                         ELSE [s EXCEPT !.consumed = 0, !.ctl = @ \cup {"WU"}]
    [] f = "END"      -> IF s.stream = "open" THEN [s EXCEPT !.stream = "half_remote"]
                         ELSE IF s.stream = "half_local" THEN stream_closed(s)
                         ELSE s
    [] f = "RST"      -> IF s.stream = "none" THEN s ELSE stream_closed(s)
    [] f = "GOAWAY"   -> LET t == [s EXCEPT !.goaway = TRUE] IN
                         IF s.stream # "none" /\ seen <= m_num_reqs THEN stream_closed(t) ELSE t

-----------------------------------------------------------------------------
(* The kernel.  nconn_tcp registers IN, OUT and RDHUP before the connect   *)
(* and again after it, and nconn_tls never changes that.                   *)

\* the server has closed, or a reset is on its way, or has come
ended == link \in {"fin", "rst", "dead"}

reported ==
  IF ~ready THEN {}
  ELSE (IF rx # << >> \/ ended THEN {"IN"} ELSE {}) \cup
       (IF link # "syn" /\ ~full THEN {"OUT"} ELSE {}) \cup
       (IF ended THEN {"RDHUP"} ELSE {}) \cup
       (IF link = "dead" THEN {"HUP", "ERR"} ELSE {})

fault(k) == k \in FaultKinds /\ faults < MaxFaults /\ faults' = faults + 1

-----------------------------------------------------------------------------
(* t_run, conn_start and evr_loop::run.                                    *)

more == NumToRequest > m_resp

RunExit ==
  /\ pc = "loop" /\ ~more
  /\ pc' = "exited"
  /\ UNCHANGED <<mode, caller, batch, counters, connVars, sesVars, sockVars, rx, pend, srvVars,
                 faults>>

\* conn_start makes a connection, whose callback sets it up and begins to connect; t_run
\* goes on to evr_loop::run
StartConn ==
  /\ pc = "loop" /\ more
  /\ nc_state = "none"
  /\ nc_state' = "CONNECTING" /\ tls' = "tcp" /\ m_num_reqs' = 0
  /\ link' = "syn" /\ UNCHANGED <<ready, full>>
  /\ pc' = "wait"
  /\ UNCHANGED <<mode, caller, batch, counters, sesVars, rx, pend, srvVars, faults>>

StartNone ==
  /\ pc = "loop" /\ more
  /\ nc_state # "none"
  /\ pc' = "wait"
  /\ UNCHANGED <<mode, caller, batch, counters, connVars, sesVars, sockVars, rx, pend, srvVars,
                 faults>>

\* epoll_wait, and the callback of what it reports: the read callback unless the socket is
\* writeable only
EvrWait ==
  /\ pc = "wait" /\ reported # {}
  /\ batch' = reported
  /\ ready' = FALSE
  /\ pc' = "sm"
  /\ LET write == reported = {"OUT"} IN
     /\ mode' = IF write THEN "WRITE" ELSE "READ"
     /\ caller' = IF write THEN "write" ELSE "read"
  /\ UNCHANGED <<counters, connVars, sesVars, link, full, rx, pend, srvVars, faults>>

write_too_x == FALSE  \* leaves the rest to the next event
\* does a write callback follow the read callback
write_too == "OUT" \in batch /\ "HUP" \notin batch

EvrAfterRead ==
  /\ pc = "after_read"
  /\ IF write_too
     THEN pc' = "sm" /\ mode' = "WRITE" /\ caller' = "write" /\ UNCHANGED batch
     ELSE pc' = "loop" /\ batch' = {} /\ UNCHANGED <<mode, caller>>
  /\ UNCHANGED <<counters, connVars, sesVars, sockVars, rx, pend, srvVars, faults>>

-----------------------------------------------------------------------------
(* session::run_state_machine.  An action is a pass, up to goto state_top  *)
(* or return.                                                              *)

ReturnOk ==
  /\ pc' = IF caller = "read" THEN "after_read" ELSE "loop"
  /\ batch' = IF caller = "read" THEN batch ELSE {}
  /\ UNCHANGED <<mode, caller>>
ReturnNotOk == pc' = "loop" /\ batch' = {} /\ UNCHANGED <<mode, caller>>
GotoTop(m) == mode' = m /\ UNCHANGED <<pc, caller, batch>>

\* nconn_tls::ncconnect: TCP is connected, which registers the socket again; SSL_connect sends
\* its hello and waits
SmTlsConnect ==
  /\ pc = "sm" /\ nc_state = "CONNECTING" /\ tls = "tcp"
  /\ link = "up"
  /\ tls' = "hello" /\ srv' = "hello"
  /\ ready' = TRUE
  /\ ReturnOk
  /\ UNCHANGED <<counters, nc_state, m_num_reqs, sesVars, link, full, rx, pend, seen, got, owed,
                 sent, srv_window, leaving, whole, faults>>

\* SSL_connect still waits for the server
SmTlsAgain ==
  /\ pc = "sm" /\ nc_state = "CONNECTING" /\ tls = "hello"
  /\ link = "up" /\ rx = << >>
  /\ ReturnOk
  /\ UNCHANGED <<counters, connVars, sesVars, sockVars, rx, pend, srvVars, faults>>

\* SSL_connect fails: the nconn stays in the set, CONNECTING
SmTlsFails ==
  /\ pc = "sm" /\ nc_state = "CONNECTING"
  /\ rx = << >> /\ link = "fin"
  /\ tls' = "failed"
  /\ m_errors' = m_errors + 1
  /\ ReturnNotOk
  /\ UNCHANGED <<m_reqs, m_resp, m_num_in_progress, nc_state, m_num_reqs, sesVars, sockVars, rx,
                 pend, srvVars, faults>>

\* SSL_connect ends well: session_create, sconnected and the first srequest
SmConnected ==
  /\ pc = "sm" /\ nc_state = "CONNECTING" /\ tls = "hello"
  /\ rx # << >>
  /\ nc_state' = "CONNECTED" /\ tls' = "up"
  /\ rx' = Tail(rx)
  /\ m_reqs' = m_reqs + 1 /\ m_num_in_progress' = m_num_in_progress + 1
  /\ out_q' = srequest_frames(NewSession)
  /\ ses' = after_send(submit(NewSession))
  /\ GotoTop("WRITE")
  /\ UNCHANGED <<m_resp, m_errors, m_num_reqs, sockVars, pend, srvVars, faults>>

Reading == pc = "sm" /\ nc_state = "CONNECTED" /\ mode = "READ"
Writing == pc = "sm" /\ nc_state = "CONNECTED" /\ mode = "WRITE"

readable_x == rx # << >>  \* asks the socket

\* does SSL have anything to read
readable == pend # << >> \/ rx # << >>

\* SSL_read has nothing
SmReadAgain ==
  /\ Reading /\ ~readable /\ link = "up"
  /\ ReturnOk
  /\ UNCHANGED <<counters, connVars, sesVars, sockVars, rx, pend, srvVars, faults>>

\* the end of the stream: sread takes nothing, and whichever way the pass goes on, the
\* next finds the state DONE
SmReadEof ==
  /\ Reading /\ ~readable /\ link \in {"fin", "rst"}
  /\ nc_state' = "DONE"
  /\ ses' = [ses EXCEPT !.closed = 0]
  /\ GotoTop(IF out_q # << >> THEN "WRITE" ELSE "READ")
  /\ UNCHANGED <<counters, tls, m_num_reqs, out_q, sockVars, rx, pend, srvVars, faults>>

\* the record SSL_read takes from: the rest of the last one, or the next
record == IF pend # << >> THEN pend ELSE Head(rx)

\* nghttp2_session_mem_recv on its first k frames; a record has two at most
mem_recv(s, k) ==
  LET t == on_frame(s, record[1]) IN IF k = 1 THEN t ELSE on_frame(t, record[2])

received_x(k) == [mem_recv(ses, k) EXCEPT !.closed = 0]  \* resets m_streams_closed after the read

\* sread on the first k frames
received(k) == mem_recv([ses EXCEPT !.closed = 0], k)

in_progress_left_x(n) == m_num_in_progress  \* leaks what is answered
\* session::request_complete, for the n streams a call closed
in_progress_left(n) == IF m_num_in_progress > 0 THEN m_num_in_progress - n ELSE 0
request_complete(n) ==
  /\ m_num_reqs' = m_num_reqs + n
  /\ m_resp' = IF m_num_in_progress > 0 THEN m_resp + n ELSE m_resp

\* nc_read returns the first k frames of a record, the rest of which stays in SSL, where
\* epoll does not see it, and sread closes n streams
Receive(k, n) ==
  /\ Reading /\ readable
  /\ k \in 1..Len(record)
  /\ n = received(k).closed
  /\ pend' = SubSeq(record, k + 1, Len(record))
  /\ rx' = IF pend # << >> THEN rx ELSE Tail(rx)
  /\ request_complete(n)
  /\ UNCHANGED <<m_errors, tls, sockVars, srvVars, faults>>

\* frames are queued that go first: whatever was read, what follows is a write
SmReadFlip(k, n) ==
  /\ Receive(k, n)
  /\ out_q # << >>
  /\ ses' = received(k)
  /\ m_num_in_progress' = in_progress_left(n)
  /\ GotoTop("WRITE")
  /\ UNCHANGED <<m_reqs, nc_state, out_q>>

\* no stream was closed: read on
SmReadOn(k, n) ==
  /\ Receive(k, n)
  /\ out_q = << >> /\ n = 0
  /\ ses' = received(k)
  /\ GotoTop("READ")
  /\ UNCHANGED <<m_reqs, m_num_in_progress, nc_state, out_q>>

forget_body_x(s) == [s EXCEPT !.closed = 0]  \* leaves it to the next request
\* m_h2_body_q is deleted, m_streams_closed is reset
forget_body(s) == [s EXCEPT !.closed = 0, !.body_q = -1]

\* may the connection carry another request, after a read that left the session s
again(s, n) == ~s.goaway /\ can_reuse(m_num_reqs + n) /\ can_request(in_progress_left(n))

\* the request is complete and the connection is not used again
SmReadLast(k, n) ==
  /\ Receive(k, n)
  /\ out_q = << >> /\ n > 0
  /\ ~again(received(k), n)
  /\ ses' = forget_body(received(k))
  /\ nc_state' = "DONE"
  /\ m_num_in_progress' = in_progress_left(n)
  /\ GotoTop("READ")
  /\ UNCHANGED <<m_reqs, out_q>>

\* the request is complete and the next one follows, whatever is left to read
SmReadNext(k, n) ==
  LET s == forget_body(received(k)) IN
  /\ Receive(k, n)
  /\ out_q = << >> /\ n > 0
  /\ again(s, n)
  /\ m_reqs' = m_reqs + 1
  /\ m_num_in_progress' = in_progress_left(n) + 1
  /\ out_q' = srequest_frames(s)
  /\ ses' = [after_send(submit(s)) EXCEPT !.closed = 0]
  /\ GotoTop("WRITE")
  /\ UNCHANGED nc_state

\* h2_session::swrite closes the stream if it ends the last frame of a request that is answered
\* already; nobody looks at m_streams_closed then
swrite ==
  LET n == IF ses.stream # "none" /\ after_send(ses).stream = "none" THEN 1 ELSE 0 IN
  /\ ses' = after_send(ses)
  /\ request_complete(n)
  /\ m_num_in_progress' = in_progress_left(n)

\* m_out_q after swrite
queued == out_q \o sends(ses)

\* there is nothing to write
SmWriteNothing ==
  /\ Writing /\ queued = << >>
  /\ ReturnOk
  /\ UNCHANGED <<counters, connVars, sesVars, sockVars, rx, pend, srvVars, faults>>

\* SSL_write wants the socket to be writeable; the mask has OUT already
SmWriteAgain ==
  /\ Writing /\ queued # << >>
  /\ link = "up" /\ full
  /\ swrite
  /\ out_q' = queued
  /\ ReturnOk
  /\ UNCHANGED <<m_reqs, m_errors, nc_state, tls, sockVars, rx, pend, srvVars, faults>>

\* what the server does with frame f: it credits DATA later, and ignores a request it has
\* announced to refuse, and what is left of one it has reset
Deliver(f) ==
  CASE f \in {"HEADERS", "HEADERS_END"} ->
         IF leaving THEN srv' = "gone" /\ UNCHANGED <<seen, got, owed, sent, srv_window, whole>>
         ELSE /\ srv' = IF f = "HEADERS" THEN "recv" ELSE "owes"
              /\ seen' = seen + 1 /\ got' = 0 /\ sent' = 0
              /\ UNCHANGED <<owed, srv_window, whole>>
    [] f \in {"DATA", "DATA_END"} ->
         /\ got' = got + 1 /\ owed' = owed + 1
         /\ srv' = IF f = "DATA_END" /\ srv = "recv" THEN "owes" ELSE srv
         /\ whole' = (whole /\ (f = "DATA_END" => srv = "gone" \/ got' = BodyFrames))
         /\ UNCHANGED <<seen, sent, srv_window>>
    [] f = "WU"  -> srv_window' = srv_window + Window
                    /\ UNCHANGED <<srv, seen, got, owed, sent, whole>>
    [] f = "ACK" -> UNCHANGED <<srv, seen, got, owed, sent, srv_window, whole>>

\* SSL_write takes a frame; DATA may fill the send buffer, and a server that has closed answers
\* with a reset.  The next pass writes on.
SmWrite ==
  /\ Writing /\ queued # << >>
  /\ link # "dead" /\ ~(link = "up" /\ full)
  /\ swrite
  /\ out_q' = Tail(queued)
  /\ IF link = "up" THEN Deliver(Head(queued))
     ELSE UNCHANGED <<srv, seen, got, owed, sent, srv_window, whole>>
  /\ full' \in {FALSE, SendMayFill /\ link = "up" /\ Head(queued) \in {"DATA", "DATA_END"}}
  /\ link' = IF link = "up" THEN "up" ELSE "rst"
  /\ GotoTop("WRITE")
  /\ UNCHANGED <<m_reqs, m_errors, nc_state, tls, ready, rx, pend, leaving, faults>>

\* SSL_read or SSL_write fails
SmIoError ==
  /\ link = "dead"
  /\ \/ /\ Reading /\ ~readable
        /\ UNCHANGED <<ses, out_q, m_num_reqs, m_resp, m_num_in_progress>>
     \/ /\ Writing /\ queued # << >>
        /\ swrite /\ out_q' = queued
  /\ nc_state' = "DONE"
  /\ GotoTop(mode)
  /\ UNCHANGED <<m_reqs, m_errors, tls, sockVars, rx, pend, srvVars, faults>>

\* case NC_STATE_DONE: session_cleanup deletes the session and the nconn
SmDone ==
  /\ pc = "sm" /\ nc_state = "DONE"
  /\ nc_state' = "none" /\ tls' = "tcp" /\ m_num_reqs' = 0
  /\ out_q' = << >> /\ ses' = NewSession
  /\ link' = "none" /\ ready' = FALSE /\ full' = FALSE /\ rx' = << >> /\ pend' = << >>
  /\ srv' = "idle" /\ seen' = 0 /\ got' = 0 /\ owed' = 0 /\ sent' = 0 /\ srv_window' = Window
  /\ leaving' = FALSE /\ whole' = whole
  /\ ReturnNotOk
  /\ UNCHANGED <<counters, faults>>

Thread ==
  \/ RunExit \/ StartConn \/ StartNone \/ EvrWait \/ EvrAfterRead
  \/ SmTlsConnect \/ SmTlsAgain \/ SmTlsFails \/ SmConnected
  \/ SmReadAgain \/ SmReadEof
  \/ \E k \in 1..2, n \in 0..1 :
       SmReadFlip(k, n) \/ SmReadOn(k, n) \/ SmReadLast(k, n) \/ SmReadNext(k, n)
  \/ SmWriteNothing \/ SmWriteAgain \/ SmWrite \/ SmIoError \/ SmDone

-----------------------------------------------------------------------------
(* The kernel and the server.                                              *)

worldUnchanged == UNCHANGED <<threadVars, counters, connVars, sesVars, pend, whole>>

Establish ==
  /\ link = "syn"
  /\ link' = "up" /\ ready' = TRUE
  /\ worldUnchanged /\ UNCHANGED <<full, rx, srv, seen, got, owed, sent, srv_window, leaving, faults>>

Drain ==
  /\ full /\ link = "up"
  /\ full' = FALSE /\ ready' = TRUE
  /\ worldUnchanged /\ UNCHANGED <<link, rx, srv, seen, got, owed, sent, srv_window, leaving, faults>>

\* a record of its own, or one more frame in the record before
Records(f) ==
  {Append(rx, <<f>>)} \cup
  (IF rx # << >> /\ Len(Last(rx)) = 1 /\ Last(rx) # <<"hello">>
   THEN {Front(rx) \o <<Append(Last(rx), f)>>} ELSE {})

Send(f) ==
  /\ link = "up"
  /\ rx' \in Records(f) /\ ready' = TRUE
  /\ worldUnchanged /\ UNCHANGED <<link, full, seen, got>>

\* the server's part of the handshake, and its SETTINGS
Hello ==
  /\ link = "up" /\ srv = "hello"
  /\ srv' = "idle"
  /\ rx' = <<<<"hello">>, <<"SETTINGS">>>> /\ ready' = TRUE
  /\ worldUnchanged
  /\ UNCHANGED <<link, full, seen, got, owed, sent, srv_window, leaving, faults>>

\* WINDOW_UPDATE for a DATA frame it has received
Credit ==
  /\ owed > 0
  /\ owed' = owed - 1
  /\ Send("CREDIT")
  /\ UNCHANGED <<srv, sent, srv_window, leaving, faults>>

\* when it answers
ready_to_answer ==
  \/ EarlyAnswers /\ srv \in {"recv", "owes"}
  \/ srv = "owes" /\ out_q = << >> /\ ~full /\ owed = 0

AnswerData ==
  /\ ready_to_answer /\ sent < RespFrames /\ srv_window > 0
  /\ sent' = sent + 1 /\ srv_window' = srv_window - 1
  /\ Send("data")
  /\ UNCHANGED <<srv, owed, leaving, faults>>

AnswerEnd ==
  /\ ready_to_answer /\ sent = RespFrames
  /\ srv' = "idle"
  /\ Send("END")
  /\ UNCHANGED <<owed, sent, srv_window, leaving, faults>>

\* it resets the stream
Rst ==
  /\ ready_to_answer
  /\ fault("rst")
  /\ srv' = "idle"
  /\ Send("RST")
  /\ UNCHANGED <<owed, sent, srv_window, leaving>>

\* it will close the connection after the requests it has begun
GoAway ==
  /\ srv \in {"idle", "recv", "owes"} /\ tls = "up" /\ ~leaving
  /\ fault("goaway")
  /\ leaving' = TRUE
  /\ Send("GOAWAY")
  /\ UNCHANGED <<srv, owed, sent, srv_window>>

Close ==
  /\ link = "up"
  /\ link' = "fin" /\ ready' = TRUE
  /\ worldUnchanged /\ UNCHANGED <<full, rx, srv, seen, got, owed, sent, srv_window, leaving>>

\* a server that leaves does not wait for ever for a request it has begun
CloseLeaving == leaving /\ Close /\ UNCHANGED faults
CloseEarly == tls = "up" /\ ~leaving /\ Close /\ fault("close")
CloseHandshake == srv = "hello" /\ Close /\ fault("handshake")

\* the answer to what was written after the close
Reset ==
  /\ link = "rst"
  /\ link' = "dead" /\ ready' = TRUE
  /\ worldUnchanged
  /\ UNCHANGED <<full, rx, srv, seen, got, owed, sent, srv_window, leaving, faults>>

World == Establish \/ Drain \/ Hello \/ Credit \/ AnswerData \/ AnswerEnd \/ Rst \/ GoAway
         \/ CloseLeaving \/ CloseEarly \/ CloseHandshake \/ Reset

Exited == pc = "exited" /\ UNCHANGED vars

Next == Thread \/ World \/ Exited

Fairness ==
  /\ WF_vars(Thread)
  /\ WF_vars(Establish) /\ WF_vars(Drain) /\ WF_vars(Hello) /\ WF_vars(Credit)
  /\ WF_vars(AnswerData) /\ WF_vars(AnswerEnd) /\ WF_vars(CloseLeaving) /\ WF_vars(Reset)

Spec == Init /\ [][Next]_vars /\ Fairness

-----------------------------------------------------------------------------
(* Properties.                                                             *)

\* Requests issued are answered or in progress, however a stream ends: by the server's answer
\* or reset, by GOAWAY, or by our own last frame.
Conservation == m_reqs = m_resp + m_num_in_progress

\* A connection that is up and waits for an event has a request open, or a server that is
\* about to close it.  Streams are closed in callbacks that count them in m_streams_closed,
\* which only one path of the read pass looks at; if that count is lost, nothing asks for the
\* next request.
NoIdleConn ==
  pc = "wait" /\ nc_state = "CONNECTED" /\ ~leaving => ses.stream # "none"

\* The server gets the whole body with every request: m_h2_body_q is read up by one request
\* and must not be there when the next one is read.
BodyWhole == whole

\* The worker gets its responses and ends, though both windows run out within a request, the
\* rest of a record is out of epoll's sight, and GOAWAY, resets and closes come between.  A
\* failed handshake keeps its slot for ever, and is left out.
Completion == <>(pc = "exited" \/ tls = "failed")

\* What nghttp2 owes the server, the SETTINGS ACK and the WINDOW_UPDATE, does get sent,
\* though a read never sends it: only the write callback that follows it does.
NothingHeldBack == ses.ctl # {} ~> ses.ctl = {}

-----------------------------------------------------------------------------
(* The worker implements LoadGen.                                          *)

conn_state == CASE nc_state = "none"                   -> "closed"
                [] nc_state = "CONNECTING"             -> "opening"
                [] nc_state \in {"CONNECTED", "DONE"}  -> "used"

LG == INSTANCE LoadGen WITH
        Conns        <- {"conn"},
        ParallelMax  <- 1,
        conn         <- [c \in {"conn"} |-> conn_state],
        sent         <- [c \in {"conn"} |-> seen],
        asked        <- m_reqs,
        answered     <- m_resp,
        stopped      <- pc = "exited",
        ended        <- pc = "exited"

\* To what LoadGen says of a worker it makes no difference that nghttp2 is in between.
ImplementsLoadGen == LG!Spec
=============================================================================
