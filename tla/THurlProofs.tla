---------------------------- MODULE THurlProofs ----------------------------
(***************************************************************************)
(* Theorems about THurl, for every number of connections, every -p, -f and *)
(* -N, every size of a request and every number of faults.                 *)
(*                                                                         *)
(* Live is the inductive invariant the others rest on: the types, with     *)
(* what the raw pointers of the code need, namely that the connection a    *)
(* call works on and those of the event batch are in the connection set,   *)
(* and that nothing is left of a connection that is not.                   *)
(* Calls (of a server), Stopped (of the end) and Turns (of who sends next  *)
(* on a connection) add to it what some of the theorems need.              *)
(* The last section shows that THurl implements LoadGen.                   *)
(***************************************************************************)
EXTENDS THurl, SequenceTheorems, FiniteSetTheorems, TLAPS

InCall == pc \in {"top", "sm", "after_read"}

CurLive == InCall => cur \in Conns /\ nc_state[cur] # "none"

BatchLive == \A c \in Conns : batch[c] # {} => nc_state[c] # "none"

Closed ==
  \A c \in Conns : nc_state[c] = "none" => link[c] = "none" /\ rx[c] = << >>

Live == TypeOK /\ CurLive /\ BatchLive /\ Closed

USE DEF counters, threadVars, connVars, sockVars, serverVars, mainVars

-----------------------------------------------------------------------------
(* Live is inductive.                                                      *)

\* What poll reports are events.
LEMMA PollEvents ==
  ASSUME NEW l, NEW r, NEW f
  PROVE  poll(l, r, f) \subseteq Events
  BY DEF poll, Events

\* What epoll_wait reports are events.
LEMMA ReportedEvents == ASSUME NEW c PROVE reported(c) \in SUBSET Events
  BY PollEvents DEF reported

\* The masks that are registered are sets of events.
LEMMA MaskEvents ==
  /\ mask_setup \in SUBSET Events
  /\ mask_connect \in SUBSET Events
  /\ mask_again \in SUBSET Events
  BY DEF mask_setup, mask_connect, mask_again, Events

\* Emptying a receive buffer, reading from it and adding to it leave a receive buffer.
LEMMA BufferEmptied ==
  ASSUME rx \in [Conns -> Seq(Units)], NEW c
  PROVE  [rx EXCEPT ![c] = << >>] \in [Conns -> Seq(Units)]
<1>1. << >> \in Seq(Units)
  OBVIOUS
<1> QED
  BY <1>1

LEMMA BufferRead ==
  ASSUME rx \in [Conns -> Seq(Units)], NEW c \in Conns, rx[c] # << >>
  PROVE  /\ Head(rx[c]) \in Units
         /\ [rx EXCEPT ![c] = Tail(@)] \in [Conns -> Seq(Units)]
<1>1. rx[c] \in Seq(Units)
  OBVIOUS
<1>2. Head(rx[c]) \in Units /\ Tail(rx[c]) \in Seq(Units)
  BY <1>1
<1> QED
  BY <1>2

LEMMA BufferFilled ==
  ASSUME rx \in [Conns -> Seq(Units)], NEW c \in Conns, NEW u \in Units
  PROVE  [rx EXCEPT ![c] = Append(@, u)] \in [Conns -> Seq(Units)]
<1>1. Append(rx[c], u) \in Seq(Units)
  OBVIOUS
<1> QED
  BY <1>1

\* So does a read by the state machine that does not fail; the queue and the counters
\* stay in their types.
LEMMA ReceivedType ==
  ASSUME TypeOK, CurLive, NEW u, Received(u)
  PROVE  /\ rx' \in [Conns -> Seq(Units)]
         /\ \A c \in Conns : nc_state[c] = "none" => rx'[c] = rx[c]
         /\ u \in (Units \ {"bad"}) \cup {"EOF"}
         /\ cur \in Conns /\ nc_state[cur] = "CONNECTED"
<1>1. cur \in Conns /\ nc_state[cur] = "CONNECTED"
  BY DEF Received, Reading, SmPass, CurLive, InCall
<1>2. CASE rx[cur] = << >>
  <2>1. u = "EOF"
    BY <1>2 DEF Received, recv, Units
  <2> QED
    BY <1>1, <2>1 DEF Received, TypeOK
<1>3. CASE rx[cur] # << >>
  <2>1. u \in Units
    BY <1>1, <1>3, BufferRead DEF Received, recv, TypeOK
  <2>2. u # "EOF"
    BY <2>1 DEF Units
  <2>3. rx' = [rx EXCEPT ![cur] = Tail(@)]
    BY <2>2 DEF Received
  <2> QED
    BY <1>1, <1>3, <2>3, BufferRead DEF Received, TypeOK
<1> QED
  BY <1>2, <1>3

\* The parser's states are what parse makes them.
LEMMA ParseType ==
  ASSUME NEW r \in RespStates, NEW u \in (Units \ {"bad"}) \cup {"EOF"}
  PROVE  parse(r, u) \in RespStates
  BY DEF parse, RespStates, Units

\* Live holds when the worker starts.
LEMMA InitLive == Init => Live
<1> SUFFICES ASSUME Init PROVE Live
  OBVIOUS
<1>1. rx \in [Conns -> Seq(Units)]
  <2>1. << >> \in Seq(Units)
    OBVIOUS
  <2> QED
    BY <2>1 DEF Init
<1>2. faults \in 0..MaxFaults /\ out_q \in [Conns -> 0..ReqBlocks]
  BY OptionsAssumption, WorldAssumption DEF Init
<1>3. /\ nc_state \in [Conns -> ConnStates] /\ m_num_reqs \in [Conns -> Nat]
      /\ m_resp_state \in [Conns -> RespStates] /\ m_goaway \in [Conns -> BOOLEAN]
  BY DEF Init, ConnStates, RespStates
<1>4. /\ link \in [Conns -> Links] /\ mask \in [Conns -> SUBSET Events]
      /\ ready \in [Conns -> BOOLEAN] /\ full \in [Conns -> BOOLEAN]
      /\ server \in [Conns -> Servers] /\ seen \in [Conns -> Nat]
  BY DEF Init, Links, Servers
<1>5. TypeOK
  BY <1>1, <1>2, <1>3, <1>4 DEF Init, TypeOK, PC, Mains
<1> QED
  BY <1>5 DEF Init, Live, CurLive, BatchLive, Closed, InCall

\* The steps of t_run, conn_start and evr_loop::run preserve Live.
LEMMA LoopLive ==
  ASSUME Live,
         \/ RunContinue \/ RunExit \/ (\E c \in Conns : StartConn(c)) \/ StartNone
         \/ EvrWait \/ (\E c \in Conns : EvrRead(c) \/ EvrWrite(c)) \/ EvrAfterRead
         \/ EvrDone \/ EvrInterrupted
  PROVE  Live'
<1> USE DEF Live, TypeOK, CurLive, BatchLive, Closed, InCall, PC
<1>1. CASE RunContinue
  BY <1>1 DEF RunContinue
<1>2. CASE RunExit
  BY <1>2 DEF RunExit
<1>3. ASSUME NEW c \in Conns, StartConn(c) PROVE Live'
  BY <1>3 DEF StartConn, ConnStates
<1>4. CASE StartNone
  BY <1>4 DEF StartNone
<1>5. CASE EvrWait
  <2>1. \A c \in Conns : reported(c) # {} => nc_state[c] # "none"
    BY DEF reported, poll
  <2> QED
    BY <1>5, <2>1, ReportedEvents DEF EvrWait
<1>6. ASSUME NEW c \in Conns, EvrRead(c) PROVE Live'
  BY <1>6 DEF EvrRead
<1>7. ASSUME NEW c \in Conns, EvrWrite(c) PROVE Live'
  BY <1>7 DEF EvrWrite
<1>8. CASE EvrAfterRead
  BY <1>8 DEF EvrAfterRead
<1>9. CASE EvrDone
  BY <1>9 DEF EvrDone
<1>10. CASE EvrInterrupted
  BY <1>10 DEF EvrInterrupted
<1> QED
  BY <1>1, <1>2, <1>3, <1>4, <1>5, <1>6, <1>7, <1>8, <1>9, <1>10

\* Deleting the nconn a call works on preserves Live: the call returns at once, and
\* takes the events of the nconn out of the batch.
LEMMA CleanupLive ==
  ASSUME Live, InCall, session_cleanup(cur), ReturnNotOk, UNCHANGED <<counters, faults, mainVars>>
  PROVE  Live'
<1>1. cur \in Conns
  BY DEF Live, CurLive
<1>2. rx' \in [Conns -> Seq(Units)]
  BY BufferEmptied DEF Live, TypeOK, session_cleanup
<1>3. /\ nc_state' \in [Conns -> ConnStates] /\ m_num_reqs' \in [Conns -> Nat]
      /\ m_resp_state' \in [Conns -> RespStates] /\ m_goaway' \in [Conns -> BOOLEAN]
  BY DEF Live, TypeOK, session_cleanup, ConnStates, RespStates
<1>4. /\ link' \in [Conns -> Links] /\ mask' \in [Conns -> SUBSET Events]
      /\ ready' \in [Conns -> BOOLEAN] /\ full' \in [Conns -> BOOLEAN]
      /\ server' \in [Conns -> Servers] /\ seen' \in [Conns -> Nat]
  BY DEF Live, TypeOK, session_cleanup, Links, Servers
<1>5. out_q' \in [Conns -> 0..ReqBlocks]
  <2>1. 0 \in 0..ReqBlocks
    BY OptionsAssumption
  <2> QED
    BY <2>1 DEF Live, TypeOK, session_cleanup
<1>6. TypeOK'
  BY <1>1, <1>2, <1>3, <1>4, <1>5 DEF Live, TypeOK, ReturnNotOk, NoCall, PC
<1>7. BatchLive'
  BY <1>1 DEF Live, TypeOK, BatchLive, session_cleanup, ReturnNotOk
<1>8. Closed'
  BY <1>1 DEF Live, TypeOK, Closed, session_cleanup
<1> QED
  BY <1>6, <1>7, <1>8 DEF Live, CurLive, InCall, ReturnNotOk

\* The steps of the state machine up to the first request preserve Live.
LEMMA ConnectLive ==
  ASSUME Live,
         SmTop \/ SmFinished \/ SmFree \/ SmSetupFails \/ SmConnecting \/ SmConnectFails
         \/ SmConnected \/ SmDone
  PROVE  Live'
<1> USE DEF Live, TypeOK, CurLive, BatchLive, Closed, InCall, PC, SmPass
<1>1. CASE SmTop
  BY <1>1 DEF SmTop
<1>2. CASE SmFinished \/ SmDone
  BY <1>2, CleanupLive DEF SmFinished, SmDone
<1>3. CASE SmFree
  BY <1>3, MaskEvents DEF SmFree, evr_ctl, SetState, GotoTop, ConnStates, Links
<1>4. CASE SmSetupFails
  BY <1>4, WorldAssumption DEF SmSetupFails, fault, ReturnNotOk, NoCall
<1>5. CASE SmConnecting
  BY <1>5, MaskEvents DEF SmConnecting, evr_ctl, ReturnOk, NoCall, Links
<1>6. CASE SmConnectFails
  <2>1. faults' \in 0..MaxFaults
    <3>1. faults' = faults \/ (faults < MaxFaults /\ faults' = faults + 1)
      BY <1>6 DEF SmConnectFails, fault
    <3> QED
      BY <3>1, WorldAssumption
  <2>2. ready' \in [Conns -> BOOLEAN]
    <3>1. ready' = ready \/ ready' = [ready EXCEPT ![cur] = TRUE]
      BY <1>6 DEF SmConnectFails
    <3> QED
      BY <3>1
  <2>3. cur \in Conns /\ m_errors' \in Nat /\ link' = [link EXCEPT ![cur] = "new"]
    BY <1>6 DEF SmConnectFails
  <2>4. ReturnNotOk /\ UNCHANGED <<m_reqs, m_resp, m_num_in_progress, connVars, mask, full, rx,
                                   serverVars, mainVars>>
    BY <1>6 DEF SmConnectFails
  <2>5. TypeOK'
    BY <2>1, <2>2, <2>3, <2>4 DEF ReturnNotOk, NoCall, Links
  <2>6. nc_state[cur] = "CONNECTING"
    BY <1>6 DEF SmConnectFails
  <2>7. CurLive' /\ BatchLive' /\ Closed'
    BY <2>3, <2>4, <2>6 DEF ReturnNotOk
  <2> HIDE DEF TypeOK, CurLive, BatchLive, Closed
  <2> QED
    BY <2>5, <2>7
<1>7. CASE SmConnected
  BY <1>7, MaskEvents, OptionsAssumption
     DEF SmConnected, evr_ctl, SetState, GotoTop, ConnStates, Links
<1> QED
  BY <1>1, <1>2, <1>3, <1>4, <1>5, <1>6, <1>7

\* The steps of the state machine on a connected nconn preserve Live.
LEMMA ConnectedLive ==
  ASSUME Live,
         \/ SmReadAgain \/ SmReadError
         \/ \E u \in Units \cup {"EOF"} :
              SmReadPart(u) \/ SmReadEarly(u) \/ SmReadLast(u) \/ SmReadNext(u)
         \/ SmWriteNothing \/ SmWriteError \/ SmWriteAgain \/ SmWrite
  PROVE  Live'
<1> USE DEF Live, TypeOK, CurLive, BatchLive, Closed, InCall, PC, SmPass, Reading, Writing
<1>1. CASE SmReadAgain
  BY <1>1 DEF SmReadAgain, ReturnOk, NoCall
<1>2. CASE SmReadError
  <2>1. /\ rx' \in [Conns -> Seq(Units)]
        /\ \A c \in Conns : nc_state[c] = "none" => rx'[c] = rx[c]
    <3>1. CASE rx[cur] = << >>
      BY <1>2, <3>1 DEF SmReadError
    <3>2. CASE rx[cur] # << >>
      BY <1>2, <3>2, BufferRead DEF SmReadError
    <3> QED
      BY <3>1, <3>2
  <2> QED
    BY <1>2, <2>1 DEF SmReadError, set_state_done, SetState, GotoTop, ConnStates
<1>3. ASSUME NEW u \in Units \cup {"EOF"}, SmReadPart(u) PROVE Live'
  <2>1. /\ rx' \in [Conns -> Seq(Units)]
        /\ \A c \in Conns : nc_state[c] = "none" => rx'[c] = rx[c]
        /\ u \in (Units \ {"bad"}) \cup {"EOF"}
        /\ cur \in Conns /\ nc_state[cur] = "CONNECTED"
    BY <1>3, ReceivedType DEF SmReadPart
  <2> QED
    BY <1>3, <2>1, ParseType
       DEF SmReadPart, Received, StateAfter, SetState,
           GotoTop, ConnStates
<1>4. ASSUME NEW u \in Units \cup {"EOF"}, SmReadEarly(u) PROVE Live'
  <2>1. /\ rx' \in [Conns -> Seq(Units)]
        /\ \A c \in Conns : nc_state[c] = "none" => rx'[c] = rx[c]
        /\ u \in (Units \ {"bad"}) \cup {"EOF"}
        /\ cur \in Conns /\ nc_state[cur] = "CONNECTED"
    BY <1>4, ReceivedType DEF SmReadEarly
  <2>2. m_num_in_progress' \in Nat /\ m_resp' \in Nat
    BY <1>4 DEF SmReadEarly, request_complete, in_progress_left
  <2>3. m_resp_state' \in [Conns -> RespStates] /\ m_goaway' \in [Conns -> BOOLEAN]
    BY <1>4, <2>1, ParseType DEF SmReadEarly, goaway
  <2>4. m_num_reqs' \in [Conns -> Nat] /\ nc_state' \in [Conns -> ConnStates]
    BY <1>4, <2>1 DEF SmReadEarly, request_complete, StateAfter, SetState, ConnStates
  <2>5. TypeOK'
    BY <1>4, <2>1, <2>2, <2>3, <2>4 DEF SmReadEarly, Received, GotoTop
  <2>6. nc_state' = [nc_state EXCEPT ![cur] = StateAfter(u)] /\ StateAfter(u) # "none"
        /\ UNCHANGED <<batch, cur, link>> /\ pc' = "top"
    BY <1>4 DEF SmReadEarly, Received, StateAfter, SetState, GotoTop
  <2>7. CurLive' /\ BatchLive' /\ Closed'
    BY <2>1, <2>6
  <2> HIDE DEF TypeOK, CurLive, BatchLive, Closed
  <2> QED
    BY <2>5, <2>7
<1>5. ASSUME NEW u \in Units \cup {"EOF"}, SmReadLast(u) PROVE Live'
  <2>1. /\ rx' \in [Conns -> Seq(Units)]
        /\ \A c \in Conns : nc_state[c] = "none" => rx'[c] = rx[c]
        /\ u \in (Units \ {"bad"}) \cup {"EOF"}
        /\ cur \in Conns /\ nc_state[cur] = "CONNECTED"
    BY <1>5, ReceivedType DEF SmReadLast
  <2>2. m_num_in_progress' \in Nat /\ m_resp' \in Nat
    BY <1>5 DEF SmReadLast, request_complete, in_progress_left
  <2>3. m_resp_state' \in [Conns -> RespStates] /\ m_goaway' \in [Conns -> BOOLEAN]
    BY <1>5, <2>1, ParseType DEF SmReadLast, goaway
  <2> QED
    BY <1>5, <2>1, <2>2, <2>3
       DEF SmReadLast, Received, request_complete, set_state_done, SetState, GotoTop, ConnStates
<1>6. ASSUME NEW u \in Units \cup {"EOF"}, SmReadNext(u) PROVE Live'
  <2>1. /\ rx' \in [Conns -> Seq(Units)]
        /\ \A c \in Conns : nc_state[c] = "none" => rx'[c] = rx[c]
        /\ u \in (Units \ {"bad"}) \cup {"EOF"}
        /\ cur \in Conns /\ nc_state[cur] = "CONNECTED"
    BY <1>6, ReceivedType DEF SmReadNext
  <2> QED
    BY <1>6, <2>1, OptionsAssumption
       DEF SmReadNext, Received, StateAfter, request_complete,
           in_progress_left, SetState, GotoTop, ConnStates, RespStates
<1>7. CASE SmWriteNothing
  BY <1>7 DEF SmWriteNothing, ReturnOk, NoCall
<1>8. CASE SmWriteError
  BY <1>8 DEF SmWriteError, set_state_done, SetState, GotoTop, ConnStates
<1>9. CASE SmWriteAgain
  BY <1>9, MaskEvents DEF SmWriteAgain, evr_ctl, ReturnOk, NoCall
<1>10. CASE SmWrite
  <2>1. cur \in Conns /\ out_q' \in [Conns -> 0..ReqBlocks]
    BY <1>10, OptionsAssumption DEF SmWrite
  <2>2. full' \in [Conns -> BOOLEAN]
    BY <1>10, WorldAssumption DEF SmWrite
  <2>3. server' \in [Conns -> Servers]
    <3>1. server' = server \/ server' = [server EXCEPT ![cur] = "owes"]
      BY <1>10 DEF SmWrite
    <3> QED
      BY <3>1 DEF Servers
  <2>4. seen' \in [Conns -> Nat]
    <3>1. seen' = seen \/ seen' = [seen EXCEPT ![cur] = @ + 1]
      BY <1>10 DEF SmWrite
    <3>2. seen[cur] + 1 \in Nat
      BY <2>1
    <3>3. seen \in [Conns -> Nat]
      OBVIOUS
    <3> HIDE DEF TypeOK, Live
    <3> QED
      BY <3>1, <3>2, <3>3
  <2> QED
    BY <1>10, <2>1, <2>2, <2>3, <2>4 DEF SmWrite, GotoTop
<1> QED
  BY <1>1, <1>2, <1>3, <1>4, <1>5, <1>6, <1>7, <1>8, <1>9, <1>10

\* The steps of the kernel and the servers preserve Live.
LEMMA WorldLive ==
  ASSUME Live, NEW c \in Conns, World(c)
  PROVE  Live'
<1> USE WorldAssumption
    DEF Live, TypeOK, CurLive, BatchLive, Closed, InCall, Wake, fault
<1>1. CASE Establish(c)
  BY <1>1 DEF Establish, Links
<1>2. CASE Refuse(c)
  BY <1>2 DEF Refuse, Links
<1>3. CASE Drain(c)
  BY <1>3 DEF Drain
<1>4. CASE Answer(c)
  <2>1. PICK u \in Units, s \in Servers : Send(c, u, s) /\ UNCHANGED faults
    BY <1>4 DEF Answer, Units, Servers
  <2>2. rx' \in [Conns -> Seq(Units)]
    BY <2>1, BufferFilled DEF Send
  <2> QED
    BY <2>1, <2>2 DEF Send, Links
<1>5. CASE Garbage(c)
  <2>1. rx' \in [Conns -> Seq(Units)]
    BY <1>5, BufferFilled DEF Garbage, Send, Units
  <2>2. Send(c, "bad", "closing") /\ fault("garbage") /\ "closing" \in Servers
    BY <1>5 DEF Garbage, Servers
  <2> QED
    BY <2>1, <2>2 DEF Send
<1>6. CASE CloseAfterAnswer(c)
  <2>1. Close(c) /\ UNCHANGED faults
    BY <1>6 DEF CloseAfterAnswer
  <2> QED
    BY <2>1 DEF Close, Links
<1>7. CASE CloseEarly(c)
  BY <1>7 DEF CloseEarly, Close, Links
<1>8. CASE Reset(c)
  BY <1>8 DEF Reset, Links
<1> QED
  BY <1>1, <1>2, <1>3, <1>4, <1>5, <1>6, <1>7, <1>8 DEF World

\* The steps of the main thread preserve Live.
LEMMA MainLive ==
  ASSUME Live, Main \/ MainQuit
  PROVE  Live'
<1>1. UNCHANGED <<threadVars, counters, connVars, sockVars, serverVars, faults>>
  BY DEF Main, MainNotice, MainLeave, MainStop, MainSignal, MainJoin, MainQuit
<1>2. main' \in Mains /\ g_test_finished' \in BOOLEAN /\ m_stopped' \in BOOLEAN /\ ctl' \in BOOLEAN
  <2> USE DEF Live, TypeOK, Mains
  <2>1. CASE MainNotice \/ MainLeave \/ MainQuit
    BY <2>1 DEF MainNotice, MainLeave, MainQuit
  <2>2. CASE MainStop \/ MainSignal \/ MainJoin
    BY <2>2 DEF MainStop, MainSignal, signal, MainJoin
  <2> QED
    BY <2>1, <2>2 DEF Main
<1>3. TypeOK'
  BY <1>1, <1>2 DEF Live, TypeOK
<1> QED
  BY <1>1, <1>3 DEF Live, CurLive, BatchLive, Closed, InCall

\* Live is inductive.
LEMMA NextLive == Live /\ [Next]_vars => Live'
<1> SUFFICES ASSUME Live, [Next]_vars PROVE Live'
  OBVIOUS
<1>1. CASE UNCHANGED vars
  BY <1>1 DEF vars, Live, TypeOK, CurLive, BatchLive, Closed, InCall
<1> QED
  BY <1>1, LoopLive, ConnectLive, ConnectedLive, WorldLive, MainLive
     DEF Next, Thread, run_state_machine, Exited

\* Live holds in every reachable state.
LEMMA LiveHolds == Spec => []Live
  BY InitLive, NextLive, PTL DEF Spec

\* The variables keep their types: counters do not go negative, the out queue does not
\* exceed a request.
THEOREM TypeCorrect == Spec => []TypeOK
  BY LiveHolds, PTL DEF Live

\* Neither the event batch nor a call of the state machine refers to an nconn that was
\* deleted.
THEOREM PointersLive == Spec => []NoFreedConn
<1>1. Live => NoFreedConn
  BY DEF Live, CurLive, BatchLive, InCall, NoFreedConn
<1> QED
  BY <1>1, LiveHolds, PTL

-----------------------------------------------------------------------------
(* The counters.                                                           *)

\* Only the first request of a connection and a complete response move the counters of
\* requests, of responses and of requests in progress.
LEMMA CounterSteps ==
  ASSUME [Next]_vars
  PROVE  \/ UNCHANGED <<m_reqs, m_resp, m_num_in_progress>>
         \/ SmConnected
         \/ \E u \in Units \cup {"EOF"} : SmReadEarly(u) \/ SmReadLast(u) \/ SmReadNext(u)
<1>1. CASE UNCHANGED vars
  BY <1>1 DEF vars
<1>2. CASE \/ RunContinue \/ RunExit \/ (\E c \in Conns : StartConn(c)) \/ StartNone
           \/ EvrWait \/ (\E c \in Conns : EvrRead(c) \/ EvrWrite(c)) \/ EvrAfterRead
           \/ EvrDone \/ EvrInterrupted
  BY <1>2 DEF RunContinue, RunExit, StartConn, StartNone, EvrWait, EvrRead, EvrWrite,
              EvrAfterRead, EvrDone, EvrInterrupted
<1>3. CASE \/ SmTop \/ SmFinished \/ SmFree \/ SmSetupFails \/ SmConnecting \/ SmConnectFails
           \/ SmReadAgain \/ SmReadError \/ SmWriteNothing \/ SmWriteError \/ SmWriteAgain
           \/ SmWrite \/ SmDone
  BY <1>3 DEF SmTop, SmFinished, SmFree, SmSetupFails, SmConnecting, SmConnectFails,
              SmReadAgain, SmReadError, SmWriteNothing, SmWriteError, SmWriteAgain, SmWrite,
              SmDone
<1>4. CASE \E u \in Units \cup {"EOF"} : SmReadPart(u)
  BY <1>4 DEF SmReadPart
<1>5. CASE \E c \in Conns : World(c)
  BY <1>5 DEF World, Establish, Refuse, Drain, Answer, Garbage, Send, CloseAfterAnswer,
              CloseEarly, Close, Reset
<1>6. CASE Main \/ MainQuit
  BY <1>6 DEF Main, MainNotice, MainLeave, MainStop, MainSignal, MainJoin, MainQuit
<1> QED
  BY <1>1, <1>2, <1>3, <1>4, <1>5, <1>6 DEF Next, Thread, run_state_machine, Exited

\* Every request that was issued is answered or counted as in progress, whatever becomes
\* of its connection.
THEOREM ConservationHolds == Spec => []Conservation
<1>1. Init => Conservation
  BY DEF Init, Conservation
<1>2. Live /\ Conservation /\ [Next]_vars => Conservation'
  <2> SUFFICES ASSUME Live, Conservation, [Next]_vars PROVE Conservation'
    OBVIOUS
  <2>1. m_reqs \in Nat /\ m_resp \in Nat /\ m_num_in_progress \in Nat
    BY DEF Live, TypeOK
  <2>2. CASE UNCHANGED <<m_reqs, m_resp, m_num_in_progress>>
    BY <2>2 DEF Conservation
  <2>3. CASE SmConnected
    BY <2>1, <2>3 DEF SmConnected, Conservation
  <2>4. ASSUME NEW u, SmReadEarly(u) PROVE Conservation'
    BY <2>1, <2>4 DEF SmReadEarly, request_complete, in_progress_left, Conservation
  <2>5. ASSUME NEW u, SmReadLast(u) PROVE Conservation'
    BY <2>1, <2>5 DEF SmReadLast, request_complete, in_progress_left, Conservation
  <2>6. ASSUME NEW u, SmReadNext(u) PROVE Conservation'
    BY <2>1, <2>6 DEF SmReadNext, request_complete, in_progress_left, Conservation
  <2> QED
    BY <2>2, <2>3, <2>4, <2>5, <2>6, CounterSteps
<1> QED
  BY <1>1, <1>2, LiveHolds, PTL DEF Spec

-----------------------------------------------------------------------------
(* The connection set.                                                     *)

\* Where an nconn enters and leaves the set, and where it is set to DONE: a step leaves
\* nc_state alone, creates an nconn, deletes the current one, or moves the current one
\* on; it is DONE only where the call goes on to state_top.
LEMMA ConnSteps ==
  ASSUME Live, [Next]_vars
  PROVE  \/ /\ nc_state' = nc_state
            /\ InCall /\ nc_state[cur] = "DONE" =>
                 \/ pc' = pc /\ cur' = cur
                 \/ pc = "top" /\ pc' = "sm" /\ cur' = cur
                 \/ pc = "after_read"
         \/ \E c \in Conns : StartConn(c)
         \/ SmFinished \/ SmDone
         \/ /\ pc = "sm" /\ pc' = "top" /\ cur' = cur
            /\ nc_state[cur] \in {"FREE", "CONNECTING", "CONNECTED"}
            /\ \E s \in {"CONNECTING", "CONNECTED", "DONE"} :
                 /\ s = "CONNECTING" => nc_state[cur] = "FREE"
                 /\ nc_state' = [nc_state EXCEPT ![cur] = s]
<1>1. CASE UNCHANGED vars
  BY <1>1 DEF vars
<1>2. CASE RunContinue \/ RunExit \/ StartNone \/ EvrWait \/ EvrDone \/ EvrInterrupted
  BY <1>2 DEF RunContinue, RunExit, StartNone, EvrWait, EvrDone, EvrInterrupted, InCall
<1>3. CASE (\E c \in Conns : EvrRead(c) \/ EvrWrite(c)) \/ EvrAfterRead
  BY <1>3 DEF EvrRead, EvrWrite, EvrAfterRead, InCall
<1>4. CASE SmTop \/ SmSetupFails \/ SmConnecting \/ SmConnectFails \/ SmReadAgain
           \/ SmWriteNothing \/ SmWriteAgain
  BY <1>4 DEF SmTop, SmSetupFails, SmConnecting, SmConnectFails, SmReadAgain, SmWriteNothing,
              SmWriteAgain, SmPass, Reading, Writing, InCall
<1>5. CASE SmFree \/ SmConnected \/ SmReadError \/ SmWriteError
  BY <1>5 DEF SmFree, SmConnected, SmReadError, SmWriteError, set_state_done, SetState, GotoTop,
              SmPass, Reading, Writing
<1>6. CASE \E u \in Units \cup {"EOF"} : SmReadPart(u) \/ SmReadEarly(u) \/ SmReadNext(u)
  BY <1>6 DEF SmReadPart, SmReadEarly, SmReadNext, Received, StateAfter, SetState, GotoTop,
              SmPass, Reading
<1>7. CASE \E u \in Units \cup {"EOF"} : SmReadLast(u)
  BY <1>7 DEF SmReadLast, Received, set_state_done, SetState, GotoTop, SmPass, Reading
<1>8. CASE SmWrite
  BY <1>8 DEF SmWrite, SmPass, Writing
<1>9. CASE \E c \in Conns : World(c)
  BY <1>9 DEF World, Establish, Refuse, Drain, Answer, Garbage, Send, CloseAfterAnswer,
              CloseEarly, Close, Reset
<1>10. CASE Main \/ MainQuit
  BY <1>10 DEF Main, MainNotice, MainLeave, MainStop, MainSignal, MainJoin, MainQuit
<1> QED
  BY <1>1, <1>2, <1>3, <1>4, <1>5, <1>6, <1>7, <1>8, <1>9, <1>10
     DEF Next, Thread, run_state_machine, Exited

\* The set never holds more than -p connections: it grows in conn_start only, which has
\* looked for room.
THEOREM ParallelBoundHolds == Spec => []ParallelBound
<1>1. Init => ParallelBound
  <2> SUFFICES ASSUME Init PROVE ParallelBound
    OBVIOUS
  <2>1. m_nconn_set = {}
    BY DEF Init, m_nconn_set
  <2> QED
    BY <2>1, FS_EmptySet, OptionsAssumption DEF ParallelBound
<1>2. Live /\ ParallelBound /\ [Next]_vars => ParallelBound'
  <2> SUFFICES ASSUME Live, ParallelBound, [Next]_vars PROVE ParallelBound'
    OBVIOUS
  <2>1. IsFiniteSet(m_nconn_set)
    BY ConnsAssumption, FS_Subset DEF m_nconn_set
  <2>2. Cardinality(m_nconn_set) \in Nat /\ ParallelMax \in Nat
    BY <2>1, FS_CardinalityType, OptionsAssumption
  <2>3. ASSUME NEW c \in Conns, StartConn(c) PROVE ParallelBound'
    <3>1. m_nconn_set' = m_nconn_set \cup {c} /\ c \notin m_nconn_set
      BY <2>3 DEF StartConn, m_nconn_set, Live, TypeOK
    <3>2. Cardinality(m_nconn_set') = Cardinality(m_nconn_set) + 1
      BY <2>1, <3>1, FS_AddElement
    <3> QED
      BY <2>2, <2>3, <3>2 DEF StartConn, room, ParallelBound
  <2>4. ASSUME m_nconn_set' \subseteq m_nconn_set PROVE ParallelBound'
    <3>1. Cardinality(m_nconn_set') \in Nat /\ Cardinality(m_nconn_set') <= Cardinality(m_nconn_set)
      BY <2>1, <2>4, FS_Subset, FS_CardinalityType
    <3> QED
      BY <2>2, <3>1 DEF ParallelBound
  <2>5. ASSUME SmFinished \/ SmDone PROVE m_nconn_set' \subseteq m_nconn_set
    BY <2>5 DEF SmFinished, SmDone, session_cleanup, m_nconn_set, Live, TypeOK
  <2>6. ASSUME nc_state' = nc_state PROVE m_nconn_set' \subseteq m_nconn_set
    BY <2>6 DEF m_nconn_set
  <2>7. ASSUME nc_state[cur] # "none", NEW s, nc_state' = [nc_state EXCEPT ![cur] = s]
        PROVE  m_nconn_set' \subseteq m_nconn_set
    BY <2>7 DEF m_nconn_set, Live, TypeOK
  <2> QED
    BY <2>3, <2>4, <2>5, <2>6, <2>7, ConnSteps
<1> QED
  BY <1>1, <1>2, LiveHolds, PTL DEF Spec

\* No connection is left DONE: the call that sets it goes on to the pass that deletes it.
THEOREM NoneLeftDoneHolds == Spec => []NoneLeftDone
<1>1. Init => NoneLeftDone
  BY DEF Init, NoneLeftDone
<1>2. Live /\ NoneLeftDone /\ [Next]_vars => NoneLeftDone'
  <2> SUFFICES ASSUME Live, NoneLeftDone, [Next]_vars,
                      NEW c \in Conns, nc_state'[c] = "DONE"
               PROVE  pc' \in {"top", "sm"} /\ cur' = c
    BY DEF NoneLeftDone
  <2>1. ASSUME nc_state' = nc_state,
               InCall /\ nc_state[cur] = "DONE" =>
                 \/ pc' = pc /\ cur' = cur
                 \/ pc = "top" /\ pc' = "sm" /\ cur' = cur
                 \/ pc = "after_read"
        PROVE  pc' \in {"top", "sm"} /\ cur' = c
    BY <2>1 DEF NoneLeftDone, InCall
  <2>2. ASSUME NEW d \in Conns, StartConn(d) PROVE pc' \in {"top", "sm"} /\ cur' = c
    BY <2>2 DEF StartConn, NoneLeftDone, Live, TypeOK
  <2>3. ASSUME SmFinished \/ SmDone PROVE FALSE
    BY <2>3 DEF SmFinished, SmDone, SmPass, session_cleanup, NoneLeftDone, Live, TypeOK
  <2>4. ASSUME pc = "sm", pc' = "top", cur' = cur, nc_state[cur] # "DONE",
               NEW s, nc_state' = [nc_state EXCEPT ![cur] = s]
        PROVE  pc' \in {"top", "sm"} /\ cur' = c
    BY <2>4 DEF NoneLeftDone, Live, TypeOK
  <2> QED
    BY <2>1, <2>2, <2>3, <2>4, ConnSteps
<1> QED
  BY <1>1, <1>2, LiveHolds, PTL DEF Spec

-----------------------------------------------------------------------------
(* Requests on a connection.                                               *)

\* the current request of c, while its server has not seen any of it
unseen(c) == IF out_q[c] = ReqBlocks THEN 1 ELSE 0

\* An nconn that is not connected has no request; one that is has begun at most one more
\* than it completed, and at most -N with the one its out queue holds.
Calls ==
  \A c \in Conns :
    /\ nc_state[c] \in {"none", "FREE", "CONNECTING"} =>
         seen[c] = 0 /\ out_q[c] = 0 /\ m_num_reqs[c] = 0
    /\ seen[c] + unseen(c) <= m_num_reqs[c] + 1
    /\ ReqsPerConn # -1 => seen[c] + unseen(c) <= ReqsPerConn

\* Which steps touch what Calls counts.
LEMMA CallSteps ==
  ASSUME [Next]_vars
  PROVE  \/ UNCHANGED <<seen, out_q, m_num_reqs>>
         \/ SmFinished \/ SmDone \/ SmConnected \/ SmWrite
         \/ \E u \in Units \cup {"EOF"} : SmReadEarly(u) \/ SmReadLast(u) \/ SmReadNext(u)
<1>1. CASE UNCHANGED vars
  BY <1>1 DEF vars
<1>2. CASE \/ RunContinue \/ RunExit \/ (\E c \in Conns : StartConn(c)) \/ StartNone
           \/ EvrWait \/ (\E c \in Conns : EvrRead(c) \/ EvrWrite(c)) \/ EvrAfterRead
           \/ EvrDone \/ EvrInterrupted
  BY <1>2 DEF RunContinue, RunExit, StartConn, StartNone, EvrWait, EvrRead, EvrWrite,
              EvrAfterRead, EvrDone, EvrInterrupted
<1>3. CASE \/ SmTop \/ SmFree \/ SmSetupFails \/ SmConnecting \/ SmConnectFails
           \/ SmReadAgain \/ SmReadError \/ SmWriteNothing \/ SmWriteError \/ SmWriteAgain
  BY <1>3 DEF SmTop, SmFree, SmSetupFails, SmConnecting, SmConnectFails, SmReadAgain,
              SmReadError, SmWriteNothing, SmWriteError, SmWriteAgain
<1>4. CASE \E u \in Units \cup {"EOF"} : SmReadPart(u)
  BY <1>4 DEF SmReadPart, Received
<1>5. CASE \E c \in Conns : World(c)
  BY <1>5 DEF World, Establish, Refuse, Drain, Answer, Garbage, Send, CloseAfterAnswer,
              CloseEarly, Close, Reset
<1>6. CASE Main \/ MainQuit
  BY <1>6 DEF Main, MainNotice, MainLeave, MainStop, MainSignal, MainJoin, MainQuit
<1> QED
  BY <1>1, <1>2, <1>3, <1>4, <1>5, <1>6 DEF Next, Thread, run_state_machine, Exited

\* Calls is invariant: srequest follows a response that can_reuse let another follow.
LEMMA CallsHolds == Spec => []Calls
<1>1. Init => Calls
  BY OptionsAssumption DEF Init, Calls, unseen
<1>2. Live /\ Calls /\ [Next]_vars => Calls'
  <2> SUFFICES ASSUME Live, Calls, [Next]_vars, NEW c \in Conns
               PROVE  /\ nc_state'[c] \in {"none", "FREE", "CONNECTING"} =>
                           seen'[c] = 0 /\ out_q'[c] = 0 /\ m_num_reqs'[c] = 0
                      /\ seen'[c] + unseen(c)' <= m_num_reqs'[c] + 1
                      /\ ReqsPerConn # -1 => seen'[c] + unseen(c)' <= ReqsPerConn
    BY DEF Calls
  <2> DEFINE Goal == /\ nc_state'[c] \in {"none", "FREE", "CONNECTING"} =>
                           seen'[c] = 0 /\ out_q'[c] = 0 /\ m_num_reqs'[c] = 0
                     /\ seen'[c] + unseen(c)' <= m_num_reqs'[c] + 1
                     /\ ReqsPerConn # -1 => seen'[c] + unseen(c)' <= ReqsPerConn
  <2>1. /\ seen \in [Conns -> Nat] /\ m_num_reqs \in [Conns -> Nat]
        /\ out_q \in [Conns -> 0..ReqBlocks] /\ nc_state \in [Conns -> ConnStates]
        /\ ReqBlocks \in Nat /\ ReqBlocks > 0
        /\ ReqsPerConn # -1 => ReqsPerConn \in Nat /\ ReqsPerConn > 0
    BY OptionsAssumption DEF Live, TypeOK
  <2>2. CASE UNCHANGED <<seen, out_q, m_num_reqs>> /\ ~SmFinished /\ ~SmDone
    <3>1. nc_state'[c] \in {"none", "FREE", "CONNECTING"} =>
            nc_state[c] \in {"none", "FREE", "CONNECTING"}
      BY <2>1, <2>2, ConnSteps DEF StartConn, Live, CurLive, InCall
    <3> QED
      BY <2>2, <3>1 DEF Calls, unseen
  <2>3. CASE SmFinished \/ SmDone
    BY <2>1, <2>3 DEF SmFinished, SmDone, session_cleanup, Calls, unseen
  <2>4. CASE SmConnected
    BY <2>1, <2>4 DEF SmConnected, SmPass, SetState, Calls, unseen
  <2>5. CASE SmWrite
    BY <2>1, <2>5 DEF SmWrite, Writing, SmPass, Calls, unseen
  <2>6. ASSUME NEW u, SmReadEarly(u) \/ SmReadLast(u) PROVE Goal
    <3>1. /\ nc_state[cur] = "CONNECTED" /\ UNCHANGED <<out_q, seen>>
          /\ m_num_reqs' = [m_num_reqs EXCEPT ![cur] = @ + 1]
          /\ \E s \in {"CONNECTED", "DONE"} : nc_state' = [nc_state EXCEPT ![cur] = s]
      BY <2>6 DEF SmReadEarly, SmReadLast, Received, Reading, SmPass, request_complete,
                  StateAfter, set_state_done, SetState
    <3>2. nc_state'[c] \in {"none", "FREE", "CONNECTING"} => c # cur /\ nc_state'[c] = nc_state[c]
      BY <2>1, <3>1
    <3>3. m_num_reqs'[c] \in Nat /\ m_num_reqs'[c] >= m_num_reqs[c]
          /\ (c # cur => m_num_reqs'[c] = m_num_reqs[c])
      BY <2>1, <3>1
    <3>4. unseen(c)' = unseen(c) /\ unseen(c) \in Nat /\ seen'[c] = seen[c] /\ seen[c] \in Nat
      BY <2>1, <3>1 DEF unseen
    <3>5. m_num_reqs[c] \in Nat
      BY <2>1
    <3>6. seen[c] + unseen(c) <= m_num_reqs'[c] + 1
      BY <3>3, <3>4, <3>5 DEF Calls
    <3> QED
      BY <3>1, <3>2, <3>3, <3>4, <3>6 DEF Calls
  <2>7. ASSUME NEW u, SmReadNext(u) PROVE Goal
    <3>1. m_num_reqs[cur] + 1 < ReqsPerConn \/ ReqsPerConn = -1
      BY <2>7 DEF SmReadNext, goaway, can_reuse
    <3> QED
      BY <2>1, <2>7, <3>1 DEF SmReadNext, Received, Reading, SmPass, request_complete,
                              StateAfter, SetState, Calls, unseen
  <2> QED
    BY <2>2, <2>3, <2>4, <2>5, <2>6, <2>7, CallSteps
<1> QED
  BY <1>1, <1>2, LiveHolds, PTL DEF Spec

\* No connection carries more requests than -N, as its server sees them, even if answers
\* arrive before the request is sent, repeat themselves or end with the stream.
THEOREM CallsPerConnHolds == Spec => []CallsPerConn
<1>1. Live /\ Calls => CallsPerConn
  <2> SUFFICES ASSUME Live, Calls, ReqsPerConn # -1, NEW c \in Conns
               PROVE  seen[c] <= ReqsPerConn
    BY DEF CallsPerConn
  <2>1. seen[c] \in Nat /\ unseen(c) \in Nat /\ ReqsPerConn \in Nat
    BY OptionsAssumption DEF Live, TypeOK, unseen
  <2>2. seen[c] + unseen(c) <= ReqsPerConn
    BY DEF Calls
  <2> QED
    BY <2>1, <2>2
<1> QED
  BY <1>1, LiveHolds, CallsHolds, PTL

-----------------------------------------------------------------------------
(* The end.                                                                *)

\* m_stopped is set by the worker when it ends and by stop(), after which the main
\* thread only signals and joins.
Stopped == m_stopped => pc = "exited" \/ main \in {"signal", "join", "done"}

\* The worker does not end before it has its responses, unless it was told to.
THEOREM ExitJustifiedHolds == Spec => []ExitJustified
<1>1. Init => Stopped /\ ExitJustified
  BY DEF Init, Stopped, ExitJustified
<1>2. Live /\ Stopped /\ ExitJustified /\ [Next]_vars => Stopped' /\ ExitJustified'
  <2> SUFFICES ASSUME Live, Stopped, ExitJustified, [Next]_vars
               PROVE  Stopped' /\ ExitJustified'
    OBVIOUS
  <2>1. CASE RunExit
    BY <2>1, OptionsAssumption DEF RunExit, more, Stopped, ExitJustified, Live, TypeOK
  <2>2. CASE pc # "exited" /\ pc' # "exited" /\ UNCHANGED <<m_stopped, main>>
    BY <2>2 DEF Stopped, ExitJustified
  <2>3. CASE pc' = pc /\ m_resp' = m_resp /\ UNCHANGED <<m_stopped, main>>
    BY <2>3 DEF Stopped, ExitJustified
  <2>4. CASE Main \/ MainQuit
    BY <2>4 DEF Main, MainNotice, MainLeave, MainStop, MainSignal, MainJoin, MainQuit, Stopped,
                ExitJustified
  <2>5. CASE UNCHANGED vars
    BY <2>3, <2>5 DEF vars
  <2>6. CASE \/ RunContinue \/ (\E c \in Conns : StartConn(c)) \/ StartNone \/ EvrWait
             \/ (\E c \in Conns : EvrRead(c) \/ EvrWrite(c)) \/ EvrAfterRead \/ EvrDone
             \/ EvrInterrupted
    BY <2>2, <2>6 DEF RunContinue, StartConn, StartNone, EvrWait, EvrRead, EvrWrite,
                      EvrAfterRead, EvrDone, EvrInterrupted
  <2>7. CASE \/ SmTop \/ SmFinished \/ SmFree \/ SmSetupFails \/ SmConnecting
             \/ SmConnectFails \/ SmConnected \/ SmDone
    BY <2>2, <2>7 DEF SmTop, SmFinished, SmFree, SmSetupFails, SmConnecting, SmConnectFails,
                      SmConnected, SmDone, SmPass, ReturnOk, ReturnNotOk, GotoTop, Live, TypeOK
  <2>8. CASE SmReadAgain \/ SmReadError \/ SmWriteNothing \/ SmWriteError \/ SmWriteAgain \/ SmWrite
    BY <2>2, <2>8 DEF SmReadAgain, SmReadError, SmWriteNothing, SmWriteError, SmWriteAgain,
                      SmWrite, SmPass, Reading, Writing, ReturnOk, set_state_done, GotoTop, Live,
                      TypeOK
  <2>9. CASE \E u \in Units \cup {"EOF"} :
               SmReadPart(u) \/ SmReadEarly(u) \/ SmReadLast(u) \/ SmReadNext(u)
    BY <2>2, <2>9 DEF SmReadPart, SmReadEarly, SmReadLast, SmReadNext, Received, Reading, SmPass,
                      set_state_done, GotoTop
  <2>10. CASE \E c \in Conns : World(c)
    BY <2>3, <2>10 DEF World, Establish, Refuse, Drain, Answer, Garbage, Send, CloseAfterAnswer,
                       CloseEarly, Close, Reset
  <2> QED
    BY <2>1, <2>4, <2>5, <2>6, <2>7, <2>8, <2>9, <2>10 DEF Next, Thread, run_state_machine, Exited
<1> QED
  BY <1>1, <1>2, LiveHolds, PTL DEF Spec

\* A pass begins only while the test is not finished, and a pass issues at most one
\* request.
THEOREM QuietAfterFinishHolds == Spec => QuietAfterFinish
<1>1. Live /\ [Next]_vars =>
        (g_test_finished =>
           /\ m_reqs' <= m_reqs + 1
           /\ pc # "sm" \/ m_reqs' # m_reqs => pc' # "sm"
           /\ pc # "sm" => m_reqs' = m_reqs)
  <2> SUFFICES ASSUME Live, [Next]_vars, g_test_finished
               PROVE  /\ m_reqs' <= m_reqs + 1
                      /\ pc # "sm" \/ m_reqs' # m_reqs => pc' # "sm"
                      /\ pc # "sm" => m_reqs' = m_reqs
    OBVIOUS
  <2>1. m_reqs \in Nat
    BY DEF Live, TypeOK
  <2>2. /\ m_reqs' <= m_reqs + 1
        /\ m_reqs' # m_reqs => pc = "sm" /\ pc' = "top"
    <3>1. CASE UNCHANGED <<m_reqs, m_resp, m_num_in_progress>>
      BY <2>1, <3>1
    <3>2. CASE SmConnected
      BY <2>1, <3>2 DEF SmConnected, SmPass, GotoTop
    <3>3. ASSUME NEW u, SmReadEarly(u) \/ SmReadLast(u)
          PROVE  m_reqs' <= m_reqs + 1 /\ m_reqs' = m_reqs
      BY <2>1, <3>3 DEF SmReadEarly, SmReadLast
    <3>4. ASSUME NEW u, SmReadNext(u)
          PROVE  m_reqs' <= m_reqs + 1 /\ pc = "sm" /\ pc' = "top"
      BY <2>1, <3>4 DEF SmReadNext, Received, Reading, SmPass, GotoTop
    <3> QED
      BY <3>1, <3>2, <3>3, <3>4, CounterSteps
  <2>3. pc # "sm" => pc' # "sm"
    <3>1. CASE UNCHANGED vars
      BY <3>1 DEF vars
    <3>2. CASE \/ RunContinue \/ RunExit \/ (\E c \in Conns : StartConn(c)) \/ StartNone
               \/ EvrWait \/ (\E c \in Conns : EvrRead(c) \/ EvrWrite(c)) \/ EvrAfterRead
               \/ EvrDone \/ EvrInterrupted \/ SmTop \/ SmFinished
      BY <3>2 DEF RunContinue, RunExit, StartConn, StartNone, EvrWait, EvrRead, EvrWrite,
                  EvrAfterRead, EvrDone, EvrInterrupted, SmTop, SmFinished, ReturnNotOk
    <3>3. ASSUME NEW c \in Conns, World(c) PROVE UNCHANGED pc
      <4>1. CASE Establish(c) \/ Refuse(c) \/ Drain(c) \/ Reset(c)
        BY <4>1 DEF Establish, Refuse, Drain, Reset
      <4>2. CASE Answer(c) \/ Garbage(c)
        BY <4>2 DEF Answer, Garbage, Send
      <4>3. CASE CloseAfterAnswer(c) \/ CloseEarly(c)
        BY <4>3 DEF CloseAfterAnswer, CloseEarly, Close
      <4> QED
        BY <3>3, <4>1, <4>2, <4>3 DEF World
    <3>4. CASE Main \/ MainQuit
      BY <3>4 DEF Main, MainNotice, MainLeave, MainStop, MainSignal, MainJoin, MainQuit
    <3>5. run_state_machine => pc = "sm" \/ SmTop \/ SmFinished
      BY DEF run_state_machine, SmFree, SmSetupFails, SmConnecting, SmConnectFails, SmConnected,
             SmDone, SmReadAgain, SmReadError, SmReadPart, SmReadEarly, SmReadLast, SmReadNext,
             SmWriteNothing, SmWriteError, SmWriteAgain, SmWrite, Received, Reading, Writing,
             SmPass
    <3> QED
      BY <3>1, <3>2, <3>3, <3>4, <3>5 DEF Next, Thread, Exited
  <2> QED
    BY <2>2, <2>3
<1> QED
  BY <1>1, LiveHolds, PTL DEF Spec, QuietAfterFinish

-----------------------------------------------------------------------------
(* One request at a time.                                                  *)

\* the end of an answer is the last unit in buffer s, of a server in state srv, which owes no more
EndLast(s, srv) == \A i \in 1..Len(s) : s[i] = "end" => i = Len(s) /\ srv = "idle"

\* Whose turn it is on c, if no server answers early: until a request is connected nothing has
\* come, while one is sent nothing is there to be read, and the end of an answer is the last
\* that its server sends.
Turn(c) ==
  /\ nc_state[c] \in {"none", "FREE", "CONNECTING"} =>
       rx[c] = << >> /\ server[c] = "idle" /\ m_resp_state[c] = "start" /\ out_q[c] = 0
  /\ link[c] = "syn" => nc_state[c] = "CONNECTING"
  /\ out_q[c] # 0 => rx[c] = << >>
  /\ EndLast(rx[c], server[c])
  /\ nc_state[c] = "CONNECTED" => ~complete(m_resp_state[c])
  /\ link[c] = "up" /\ out_q[c] = ReqBlocks => server[c] = "idle"

Turns == \A c \in Conns : Turn(c)

\* what Turn says of c depends on this only
Apart(c) ==
  /\ nc_state'[c] = nc_state[c] /\ link'[c] = link[c] /\ rx'[c] = rx[c]
  /\ server'[c] = server[c] /\ m_resp_state'[c] = m_resp_state[c] /\ out_q'[c] = out_q[c]

LEMMA ApartTurn == ASSUME NEW c, Turn(c), Apart(c) PROVE Turn(c)'
  BY DEF Turn, Apart

LEMMA InitTurns == Init => Turns
  BY OptionsAssumption DEF Init, Turns, Turn, EndLast, complete

\* Reading a unit keeps the end of an answer the last there is.
LEMMA TailEnds ==
  ASSUME NEW s \in Seq(Units), s # << >>, NEW srv, EndLast(s, srv)
  PROVE  /\ EndLast(Tail(s), srv)
         /\ Head(s) = "end" => Tail(s) = << >> /\ srv = "idle"
<1>1. Len(s) \in Nat /\ Len(s) >= 1
  BY EmptySeq, LenProperties
<1>2. Tail(s) \in Seq(Units) /\ Len(Tail(s)) = Len(s) - 1
  OBVIOUS
<1>3. \A i \in 1..Len(Tail(s)) : Tail(s)[i] = s[i + 1]
  OBVIOUS
<1>4. \A i \in 1..Len(s) : s[i] = "end" => i = Len(s) /\ srv = "idle"
  BY DEF EndLast
<1>5. ASSUME Head(s) = "end" PROVE Len(s) = 1 /\ srv = "idle"
  <2>1. 1 \in 1..Len(s) /\ s[1] = "end"
    BY <1>1, <1>5
  <2> QED
    BY <1>4, <2>1
<1>6. ASSUME NEW i \in 1..Len(Tail(s)), Tail(s)[i] = "end"
      PROVE  i = Len(Tail(s)) /\ srv = "idle"
  <2> DEFINE n == Len(s)  t == Len(Tail(s))
  <2>1. n \in Nat /\ t = n - 1 /\ i \in 1..t
    BY <1>1, <1>2, <1>6
  <2>2. s[i + 1] = "end"
    BY <1>3, <1>6
  <2>3. \A j \in 1..n : s[j] = "end" => j = n /\ srv = "idle"
    BY <1>4
  <2> HIDE DEF n, t
  <2>4. i + 1 \in 1..n /\ i \in Nat
    BY <2>1
  <2>5. i + 1 = n /\ srv = "idle"
    BY <2>2, <2>3, <2>4
  <2>6. i = t /\ srv = "idle"
    BY <2>1, <2>4, <2>5
  <2> QED
    BY <2>6 DEF t
<1>7. ASSUME Len(s) = 1 PROVE Tail(s) = << >>
  <2>1. Len(Tail(s)) = 0
    BY <1>2, <1>7
  <2>2. Tail(s) # << >> => Len(Tail(s)) \in Nat \ {0}
    BY <1>2, EmptySeq
  <2> QED
    BY <2>1, <2>2
<1>8. EndLast(Tail(s), srv)
  BY <1>6 DEF EndLast
<1> QED
  BY <1>5, <1>7, <1>8

\* A server that has ended its answer adds nothing after it.
LEMMA AppendEnds ==
  ASSUME NEW s \in Seq(Units), NEW u \in Units, NEW srv, NEW srv2,
         EndLast(s, srv), srv # "idle", u = "end" => srv2 = "idle"
  PROVE  EndLast(Append(s, u), srv2)
<1>1. /\ Len(s) \in Nat /\ Len(Append(s, u)) = Len(s) + 1
      /\ \A i \in 1..Len(s) : Append(s, u)[i] = s[i]
      /\ Append(s, u)[Len(s) + 1] = u
  OBVIOUS
<1>2. \A i \in 1..Len(s) : s[i] # "end"
  BY DEF EndLast
<1> QED
  BY <1>1, <1>2 DEF EndLast

\* The types of what Turn speaks of.
LEMMA TurnTypes ==
  ASSUME Live
  PROVE  /\ nc_state \in [Conns -> ConnStates] /\ link \in [Conns -> Links]
         /\ rx \in [Conns -> Seq(Units)] /\ server \in [Conns -> Servers]
         /\ m_resp_state \in [Conns -> RespStates] /\ out_q \in [Conns -> 0..ReqBlocks]
         /\ ReqBlocks \in Nat /\ ReqBlocks > 0
         /\ InCall => cur \in Conns
  BY OptionsAssumption DEF Live, TypeOK, CurLive

\* The steps that are about nothing Turn speaks of.
LEMMA QuietSteps ==
  ASSUME Live, Turns, NEW c \in Conns,
         \/ RunContinue \/ RunExit \/ StartNone \/ EvrWait
         \/ (\E d \in Conns : EvrRead(d) \/ EvrWrite(d)) \/ EvrAfterRead \/ EvrDone
         \/ EvrInterrupted \/ SmTop \/ SmSetupFails \/ SmReadAgain \/ SmWriteNothing
         \/ SmWriteAgain \/ (\E d \in Conns : Drain(d)) \/ Main \/ MainQuit \/ UNCHANGED vars
  PROVE  Turn(c)'
<1>1. Apart(c)
  BY DEF RunContinue, RunExit, StartNone, EvrWait, EvrRead, EvrWrite, EvrAfterRead, EvrDone,
         EvrInterrupted, SmTop, SmSetupFails, SmReadAgain, SmWriteNothing, SmWriteAgain, Drain,
         Main, MainNotice, MainLeave, MainStop, MainSignal, MainJoin, MainQuit, vars, Apart
<1> QED
  BY <1>1, ApartTurn DEF Turns

\* From the making of a connection to its first request, and its deletion.
LEMMA ConnectTurn ==
  ASSUME Live, Turns, NEW c \in Conns,
         \/ (\E d \in Conns : StartConn(d)) \/ SmFree \/ SmConnecting \/ SmConnectFails
         \/ SmConnected \/ SmFinished \/ SmDone
  PROVE  Turn(c)'
<1> USE DEF Live, TypeOK, SmPass
<1>0. Turn(c) /\ ReqBlocks \in Nat /\ ReqBlocks > 0
  BY OptionsAssumption DEF Turns
<1>1. ASSUME NEW d \in Conns, StartConn(d) PROVE Turn(c)'
  BY <1>0, <1>1 DEF StartConn, Turn, Closed
<1>2. CASE SmFree
  BY <1>0, <1>2 DEF SmFree, SetState, Turn
<1>3. CASE SmConnecting
  BY <1>0, <1>3 DEF SmConnecting, Turn
<1>4. CASE SmConnectFails
  BY <1>0, <1>4 DEF SmConnectFails, Turn
<1>5. CASE SmConnected
  BY <1>0, <1>5 DEF SmConnected, SetState, Turn, complete
<1>6. CASE SmFinished \/ SmDone
  <2>1. session_cleanup(cur)
    BY <1>6 DEF SmFinished, SmDone
  <2>2. CASE c = cur
    <3>1. /\ nc_state'[c] = "none" /\ rx'[c] = << >> /\ server'[c] = "idle"
          /\ m_resp_state'[c] = "start" /\ out_q'[c] = 0 /\ link'[c] = "none"
      BY <2>1, <2>2 DEF session_cleanup
    <3> QED
      BY <1>0, <3>1 DEF Turn, EndLast
  <2>3. CASE c # cur
    <3>1. Apart(c)
      BY <2>1, <2>3 DEF session_cleanup, Apart
    <3> QED
      BY <1>0, <3>1, ApartTurn
  <2> QED
    BY <2>2, <2>3
<1> QED
  BY <1>1, <1>2, <1>3, <1>4, <1>5, <1>6

\* What a read takes, and what it leaves of the buffer.
LEMMA ReadTurn ==
  ASSUME Live, Turns, NEW c \in Conns,
         SmReadError \/ \E u \in Units \cup {"EOF"} :
           SmReadPart(u) \/ SmReadEarly(u) \/ SmReadLast(u) \/ SmReadNext(u)
  PROVE  Turn(c)'
<1> USE TurnTypes
<1>a. pc = "sm" /\ nc_state[cur] = "CONNECTED" /\ UNCHANGED <<link, server>>
  BY DEF SmReadError, SmReadPart, SmReadEarly, SmReadLast, SmReadNext, Received, Reading, SmPass
<1>0. Turn(c) /\ Turn(cur) /\ cur \in Conns /\ ReqBlocks \in Nat /\ ReqBlocks > 0
      /\ nc_state[cur] = "CONNECTED"
  BY <1>a DEF Turns, InCall
<1>1. CASE c # cur
  <2>1. UNCHANGED <<nc_state[c], rx[c], m_resp_state[c], out_q[c]>>
    <3>1. CASE SmReadError
      BY <1>0, <1>1, <3>1 DEF SmReadError, set_state_done, SetState
    <3>2. ASSUME NEW u, SmReadPart(u) \/ SmReadEarly(u)
          PROVE  UNCHANGED <<nc_state[c], rx[c], m_resp_state[c], out_q[c]>>
      BY <1>0, <1>1, <3>2 DEF SmReadPart, SmReadEarly, Received, SetState
    <3>3. ASSUME NEW u, SmReadLast(u) \/ SmReadNext(u)
          PROVE  UNCHANGED <<nc_state[c], rx[c], m_resp_state[c], out_q[c]>>
      BY <1>0, <1>1, <3>3 DEF SmReadLast, SmReadNext, Received, set_state_done, SetState
    <3> QED
      BY <3>1, <3>2, <3>3
  <2>2. Apart(c)
    BY <1>a, <2>1 DEF Apart
  <2> QED
    BY <1>0, <2>2, ApartTurn
<1>2. CASE c = cur
  <2> USE <1>2
  <2>1. UNCHANGED <<link, server>>
    BY <1>a
  <2>2. rx'[c] = rx[c] \/ (rx[c] # << >> /\ rx'[c] = Tail(rx[c]))
    <3>1. CASE SmReadError
      BY <1>0, <3>1 DEF SmReadError
    <3>2. ASSUME NEW u, Received(u) PROVE rx'[c] = rx[c] \/ (rx[c] # << >> /\ rx'[c] = Tail(rx[c]))
      BY <1>0, <3>2 DEF Received, recv, Units
    <3> QED
      BY <3>1, <3>2 DEF SmReadPart, SmReadEarly, SmReadLast, SmReadNext
  <2>3. rx[c] \in Seq(Units)
    BY <1>0
  <2>4. EndLast(rx'[c], server'[c])
    <3>1. EndLast(rx[c], server[c]) /\ server'[c] = server[c]
      BY <1>0, <2>1 DEF Turn
    <3> QED
      BY <2>2, <2>3, <3>1, TailEnds
  <2>5. CASE SmReadError
    <3>1. nc_state'[c] = "DONE" /\ UNCHANGED <<out_q, m_resp_state>>
      BY <1>0, <2>5 DEF SmReadError, set_state_done, SetState
    <3> QED
      BY <1>0, <2>1, <2>2, <2>4, <3>1 DEF Turn
  <2>6. ASSUME NEW u \in Units \cup {"EOF"}, SmReadPart(u) \/ SmReadEarly(u) \/ SmReadLast(u)
        PROVE  Turn(c)'
    <3>1. UNCHANGED out_q /\ nc_state'[c] \in {"CONNECTED", "DONE"}
          /\ m_resp_state'[c] = parse(m_resp_state[c], u)
      BY <1>0, <2>6 DEF SmReadPart, SmReadEarly, SmReadLast, StateAfter, SetState, set_state_done,
                        Received
    <3>2. nc_state'[c] = "CONNECTED" => ~complete(m_resp_state'[c])
      <4>1. CASE SmReadPart(u)
        BY <1>0, <3>1, <4>1 DEF SmReadPart
      <4>2. CASE SmReadEarly(u)
        <5>1. rx[c] = << >>
          BY <1>0, <4>2 DEF SmReadEarly, Turn
        <5>2. u = "EOF"
          BY <4>2, <5>1 DEF SmReadEarly, Received, recv, Units
        <5> QED
          BY <1>0, <4>2, <5>2 DEF SmReadEarly, SetState, StateAfter
      <4>3. CASE SmReadLast(u)
        BY <1>0, <4>3 DEF SmReadLast, set_state_done, SetState
      <4> QED
        BY <2>6, <4>1, <4>2, <4>3
    <3>3. out_q'[c] # 0 => rx'[c] = << >>
      BY <1>0, <2>2, <3>1 DEF Turn
    <3> QED
      BY <1>0, <2>1, <2>4, <3>1, <3>2, <3>3 DEF Turn
  <2>7. ASSUME NEW u \in Units \cup {"EOF"}, SmReadNext(u) PROVE Turn(c)'
    <3>1. /\ out_q'[c] = ReqBlocks /\ m_resp_state'[c] = "start"
          /\ nc_state'[c] = StateAfter(u) /\ recv(c) = u
          /\ complete(parse(m_resp_state[c], u)) /\ parse(m_resp_state[c], u) # "close"
          /\ u \in (Units \ {"bad"}) \cup {"EOF"}
          /\ rx' = [rx EXCEPT ![c] = IF u = "EOF" THEN @ ELSE Tail(@)]
      BY <1>0, <2>7 DEF SmReadNext, Received, SetState, goaway
    <3>2. ~complete(m_resp_state[c])
      BY <1>0 DEF Turn
    <3>3. u = "end"
      BY <3>1, <3>2 DEF parse, complete, Units
    <3>4. rx[c] # << >> /\ Head(rx[c]) = "end"
      BY <3>1, <3>3 DEF recv
    <3>5. rx'[c] = << >> /\ server[c] = "idle"
      <4>1. rx'[c] = Tail(rx[c])
        BY <1>0, <3>1, <3>3
      <4>2. Tail(rx[c]) = << >> /\ server[c] = "idle"
        BY <1>0, <2>3, <3>4, TailEnds DEF Turn
      <4> QED
        BY <4>1, <4>2
    <3>6. nc_state'[c] = "CONNECTED" /\ link[c] # "syn"
      BY <1>0, <3>1, <3>3 DEF StateAfter, Turn
    <3> QED
      BY <1>0, <2>1, <2>4, <3>1, <3>5, <3>6 DEF Turn, complete
  <2> QED
    BY <2>5, <2>6, <2>7
<1> QED
  BY <1>1, <1>2

LEMMA WriteTurn ==
  ASSUME Live, Turns, NEW c \in Conns, SmWrite \/ SmWriteError
  PROVE  Turn(c)'
<1> USE TurnTypes
<1>a. pc = "sm" /\ nc_state[cur] = "CONNECTED" /\ out_q[cur] # 0
  BY DEF SmWrite, SmWriteError, Writing, SmPass
<1>0. Turn(c) /\ cur \in Conns /\ ReqBlocks \in Nat /\ ReqBlocks > 0 /\ out_q[cur] \in 0..ReqBlocks
      /\ nc_state[cur] = "CONNECTED" /\ out_q[cur] # 0
  BY <1>a DEF Turns, InCall
<1>1. CASE c # cur
  <2>1. Apart(c)
    BY <1>0, <1>1 DEF SmWrite, SmWriteError, set_state_done, SetState, Apart
  <2> QED
    BY <1>0, <2>1, ApartTurn
<1>2. CASE c = cur /\ SmWriteError
  BY <1>0, <1>2 DEF SmWriteError, set_state_done, SetState, Turn
<1>3. CASE c = cur /\ SmWrite
  <2>1. /\ out_q'[c] = out_q[c] - 1 /\ UNCHANGED <<nc_state, link, rx, m_resp_state>>
        /\ server'[c] \in {server[c], "owes"}
    BY <1>0, <1>3 DEF SmWrite
  <2>2. rx[c] = << >>
    BY <1>0, <1>3 DEF Turn
  <2>3. EndLast(rx'[c], server'[c])
    BY <2>1, <2>2 DEF EndLast
  <2>4. out_q'[c] # ReqBlocks /\ link[c] # "syn"
    BY <1>0, <1>3, <2>1 DEF Turn
  <2> QED
    BY <1>0, <1>3, <2>1, <2>2, <2>3, <2>4 DEF Turn
<1> QED
  BY <1>1, <1>2, <1>3

LEMMA WorldTurn ==
  ASSUME Live, Turns, ~EarlyAnswers, NEW c \in Conns, NEW d \in Conns, World(d)
  PROVE  Turn(c)'
<1> USE DEF Live, TypeOK
<1>0. Turn(c) /\ ReqBlocks \in Nat /\ ReqBlocks > 0
  BY OptionsAssumption DEF Turns
<1>1. CASE Establish(d) \/ Refuse(d)
  <2>1. UNCHANGED <<nc_state, rx, server, m_resp_state, out_q>> /\ link[d] = "syn"
        /\ (link' = [link EXCEPT ![d] = "up"] \/ link' = [link EXCEPT ![d] = "dead"])
    BY <1>1 DEF Establish, Refuse
  <2>2. link'[c] # link[c] => nc_state[c] = "CONNECTING" /\ link'[c] # "syn"
    BY <1>0, <2>1 DEF Turn
  <2> QED
    BY <1>0, <2>1, <2>2 DEF Turn
<1>2. CASE Drain(d)
  BY <1>2, QuietSteps
<1>3. ASSUME NEW u \in Units, NEW s \in Servers, Send(d, u, s), server[d] \in {"owes", "mid"},
             u = "end" => s = "idle"
      PROVE  Turn(c)'
  <2>1. CASE c # d
    <3>1. Apart(c)
      BY <1>3, <2>1 DEF Send, Apart
    <3> QED
      BY <1>0, <3>1, ApartTurn
  <2>2. CASE c = d
    <3>1. /\ link[c] = "up" /\ out_q[c] = 0 /\ UNCHANGED <<nc_state, link, m_resp_state, out_q>>
          /\ rx'[c] = Append(rx[c], u) /\ server'[c] = s
      BY <1>3, <2>2 DEF Send
    <3>2. nc_state[c] \notin {"none", "FREE", "CONNECTING"}
      BY <1>0, <1>3, <2>2 DEF Turn
    <3>3. EndLast(rx'[c], server'[c])
      <4>1. rx[c] \in Seq(Units) /\ server[c] # "idle"
        BY <1>3, <2>2
      <4>2. EndLast(rx[c], server[c])
        BY <1>0 DEF Turn
      <4>3. EndLast(Append(rx[c], u), s)
        BY <1>3, <4>1, <4>2, AppendEnds
      <4> QED
        BY <3>1, <4>3
    <3> QED
      BY <1>0, <3>1, <3>2, <3>3 DEF Turn
  <2> QED
    BY <2>1, <2>2
<1>4. CASE Answer(d) \/ Garbage(d)
  BY <1>3, <1>4 DEF Answer, Garbage, Units, Servers
<1>5. CASE CloseAfterAnswer(d) \/ CloseEarly(d) \/ Reset(d)
  <2>1. UNCHANGED <<nc_state, rx, server, m_resp_state, out_q>>
        /\ (link' = [link EXCEPT ![d] = "fin"] \/ link' = [link EXCEPT ![d] = "dead"])
    BY <1>5 DEF CloseAfterAnswer, CloseEarly, Close, Reset
  <2>2. link'[c] = link[c] \/ link'[c] \in {"fin", "dead"}
    BY <2>1
  <2> QED
    BY <1>0, <2>1, <2>2 DEF Turn
<1> QED
  BY <1>1, <1>2, <1>4, <1>5 DEF World

LEMMA NextTurns == ~EarlyAnswers /\ Live /\ Turns /\ [Next]_vars => Turns'
<1> SUFFICES ASSUME ~EarlyAnswers, Live, Turns, [Next]_vars, NEW c \in Conns PROVE Turn(c)'
  BY DEF Turns
<1> QED
  BY QuietSteps, ConnectTurn, ReadTurn, WriteTurn, WorldTurn
     DEF Next, Thread, run_state_machine, Exited

LEMMA TurnsHold == ~EarlyAnswers => (Spec => []Turns)
<1>1. ~EarlyAnswers /\ Init => ~EarlyAnswers /\ Turns
  BY InitTurns
<1>2. Live /\ ~EarlyAnswers /\ Turns /\ [Next]_vars => (~EarlyAnswers /\ Turns)'
  BY NextTurns
<1> QED
  BY <1>1, <1>2, LiveHolds, PTL DEF Spec

\* If servers answer what they have received, no request begins while the server owes an
\* answer, so the response in the parser is that of the last request.
THEOREM OneAtATimeHolds == ~EarlyAnswers => (Spec => []OneAtATime)
<1>1. Turns => OneAtATime
  BY DEF Turns, Turn, OneAtATime
<1> QED
  BY <1>1, TurnsHold, PTL

\* A connection starts to wait with its first request; a read that completes a response finds
\* the connection waiting, and it goes on waiting only if it has issued another request.
LEMMA WaitingSteps ==
  ASSUME Live, Turns, ~EarlyAnswers, [Next]_vars, NEW c \in Conns, Waiting(c)'
  PROVE  Waiting(c) \/ (SmConnected /\ c = cur)
<1> USE DEF Live, TypeOK
<1>0. Turn(c)
  BY DEF Turns
<1>1. CASE nc_state'[c] = nc_state[c] /\ m_resp_state'[c] = m_resp_state[c]
  BY <1>1 DEF Waiting
<1>2. CASE SmConnected
  BY <1>2 DEF SmConnected, SetState, Waiting
<1>3. CASE SmFinished \/ SmDone
  BY <1>3, <1>1 DEF SmFinished, SmDone, session_cleanup, CurLive, InCall, SmPass, Waiting
<1>4. CASE SmFree \/ SmReadError \/ SmWriteError
  BY <1>4, <1>1 DEF SmFree, SmReadError, SmWriteError, set_state_done, SetState, Waiting
<1>5. CASE \E u \in Units \cup {"EOF"} :
             SmReadPart(u) \/ SmReadEarly(u) \/ SmReadLast(u) \/ SmReadNext(u)
  <2>1. nc_state[cur] = "CONNECTED" /\ UNCHANGED link
    BY <1>5 DEF SmReadPart, SmReadEarly, SmReadLast, SmReadNext, Received, Reading, SmPass
  <2>2. c # cur => nc_state'[c] = nc_state[c] /\ m_resp_state'[c] = m_resp_state[c]
    BY <1>5 DEF SmReadPart, SmReadEarly, SmReadLast, SmReadNext, set_state_done, SetState
  <2>3. c = cur => Waiting(c)
    BY <1>0, <2>1 DEF Turn, Waiting
  <2> QED
    BY <1>1, <2>2, <2>3
<1>6. CASE \E d \in Conns : StartConn(d)
  BY <1>6, <1>1 DEF StartConn, Waiting
<1>7. CASE \/ RunContinue \/ RunExit \/ StartNone \/ EvrWait
           \/ (\E d \in Conns : EvrRead(d) \/ EvrWrite(d)) \/ EvrAfterRead \/ EvrDone
           \/ EvrInterrupted \/ SmTop \/ SmSetupFails \/ SmReadAgain \/ SmWriteNothing
           \/ SmWriteAgain \/ SmConnecting \/ SmConnectFails \/ SmWrite
           \/ (\E d \in Conns : World(d)) \/ Main \/ MainQuit \/ UNCHANGED vars
  <2>1. UNCHANGED <<nc_state, m_resp_state>>
    BY <1>7 DEF RunContinue, RunExit, StartNone, EvrWait, EvrRead, EvrWrite, EvrAfterRead,
         EvrDone, EvrInterrupted, SmTop, SmSetupFails, SmReadAgain, SmWriteNothing, SmWriteAgain,
         SmConnecting, SmConnectFails, SmWrite, World, Establish, Refuse, Drain, Answer, Garbage,
         Send, CloseAfterAnswer, CloseEarly, Close, Reset,
         Main, MainNotice, MainLeave, MainStop, MainSignal, MainJoin, MainQuit, vars
  <2> HIDE DEF Live, TypeOK
  <2>2. nc_state'[c] = nc_state[c] /\ m_resp_state'[c] = m_resp_state[c]
    BY <2>1
  <2> QED
    BY <1>1, <2>2
<1> QED
  BY <1>2, <1>3, <1>4, <1>5, <1>6, <1>7 DEF Next, Thread, run_state_machine, Exited

\* If servers answer what they have received, the requests in progress cover the connections
\* that wait for an answer, so reuse never lets -p be exceeded.
THEOREM InFlightCountedHolds == ~EarlyAnswers => (Spec => []InFlightCounted)
<1> DEFINE W == {c \in Conns : Waiting(c)}
<1>1. ~EarlyAnswers /\ Init => ~EarlyAnswers /\ InFlightCounted
  <2>1. Init => W = {}
    BY DEF Init, Waiting
  <2>2. Init => Cardinality(W) = 0 /\ m_num_in_progress = 0
    BY <2>1, FS_EmptySet DEF Init
  <2> QED
    BY <2>2 DEF InFlightCounted
<1>2. ~EarlyAnswers /\ Live /\ Turns /\ InFlightCounted /\ [Next]_vars
        => (~EarlyAnswers /\ InFlightCounted)'
  <2> SUFFICES ASSUME Live, Turns, ~EarlyAnswers, InFlightCounted, [Next]_vars
               PROVE  InFlightCounted'
    OBVIOUS
  <2>1. IsFiniteSet(W) /\ Cardinality(W) \in Nat
    BY ConnsAssumption, FS_Subset, FS_CardinalityType
  <2>2. m_num_in_progress \in Nat /\ Cardinality(W) <= m_num_in_progress
    BY DEF Live, TypeOK, InFlightCounted
  <2>3. W' = {c \in Conns : Waiting(c)'}
    OBVIOUS
  <2>4. ~SmConnected => W' \subseteq W
    BY <2>3, WaitingSteps
  <2>5. IsFiniteSet(W') /\ Cardinality(W') \in Nat
    BY <2>3, ConnsAssumption, FS_Subset, FS_CardinalityType
  <2>6. CASE SmConnected
    <3>1. W' \subseteq W \cup {cur}
      BY <2>3, WaitingSteps
    <3>2. Cardinality(W \cup {cur}) <= Cardinality(W) + 1 /\ IsFiniteSet(W \cup {cur})
          /\ Cardinality(W \cup {cur}) \in Nat
      <4>1. CASE cur \in W
        <5>1. W \cup {cur} = W
          BY <4>1
        <5> QED
          BY <2>1, <5>1
      <4>2. CASE cur \notin W
        BY <2>1, <4>2, FS_AddElement
      <4> QED
        BY <4>1, <4>2
    <3>3. Cardinality(W') <= Cardinality(W \cup {cur})
      BY <3>1, <3>2, FS_Subset
    <3>4. m_num_in_progress' = m_num_in_progress + 1
      BY <2>6 DEF SmConnected
    <3> QED
      BY <2>1, <2>2, <2>5, <3>2, <3>3, <3>4 DEF InFlightCounted
  <2>7. CASE ~SmConnected /\ m_num_in_progress' = m_num_in_progress
    <3>1. Cardinality(W') <= Cardinality(W)
      BY <2>1, <2>4, <2>7, FS_Subset
    <3> QED
      BY <2>1, <2>2, <2>5, <2>7, <3>1 DEF InFlightCounted
  <2>8. ASSUME NEW u \in Units \cup {"EOF"}, ~SmConnected,
               SmReadEarly(u) \/ SmReadLast(u) \/ SmReadNext(u)
        PROVE  InFlightCounted'
    <3>1. cur \in W
      <4>1. nc_state[cur] = "CONNECTED" /\ pc = "sm"
        BY <2>8 DEF SmReadEarly, SmReadLast, SmReadNext, Received, Reading, SmPass
      <4>2. cur \in Conns
        BY <4>1 DEF Live, CurLive, InCall
      <4> QED
        BY <4>1, <4>2 DEF Turns, Turn, Waiting
    <3>2. Cardinality(W) > 0
      BY <2>1, <3>1, FS_EmptySet
    <3>3. in_progress_left = m_num_in_progress - 1
      BY <2>1, <2>2, <3>2 DEF in_progress_left
    <3>4. CASE SmReadNext(u)
      BY <2>2, <2>7, <2>8, <3>3, <3>4 DEF SmReadNext
    <3>5. CASE SmReadEarly(u) \/ SmReadLast(u)
      <4>1. m_num_in_progress' = m_num_in_progress - 1
        BY <3>3, <3>5 DEF SmReadEarly, SmReadLast
      <4>2. ~Waiting(cur)'
        <5>1. cur \in Conns /\ Turn(cur) /\ nc_state[cur] = "CONNECTED"
          BY <3>1 DEF Turns, Waiting
        <5>2. CASE SmReadLast(u)
          BY <5>1, <5>2 DEF SmReadLast, set_state_done, SetState, GotoTop, Waiting, Live, TypeOK
        <5>3. CASE SmReadEarly(u)
          <6>1. m_resp_state' = [m_resp_state EXCEPT ![cur] = parse(m_resp_state[cur], u)]
                /\ complete(parse(m_resp_state[cur], u)) /\ cur' = cur
            BY <5>3 DEF SmReadEarly, GotoTop
          <6> QED
            BY <5>1, <6>1 DEF Waiting, complete, Live, TypeOK
        <5> QED
          BY <3>5, <5>2, <5>3
      <4>3. W' \subseteq W \ {cur}
        <5>1. \A c \in W' : c # cur
          <6> SUFFICES ASSUME NEW c \in Conns, Waiting(c)', c = cur PROVE FALSE
            BY <2>3
          <6> QED
            BY <4>2, <3>5 DEF SmReadEarly, SmReadLast, set_state_done, GotoTop, Waiting
        <5> QED
          BY <2>4, <2>8, <5>1
      <4>4. Cardinality(W \ {cur}) = Cardinality(W) - 1 /\ IsFiniteSet(W \ {cur})
        BY <2>1, <3>1, FS_RemoveElement
      <4>5. Cardinality(W') <= Cardinality(W \ {cur})
        BY <4>3, <4>4, FS_Subset
      <4> QED
        BY <2>1, <2>2, <2>5, <4>1, <4>4, <4>5 DEF InFlightCounted
    <3> QED
      BY <2>8, <3>4, <3>5
  <2> QED
    BY <2>6, <2>7, <2>8, CounterSteps
<1> QED
  BY <1>1, <1>2, LiveHolds, TurnsHold, PTL DEF Spec

-----------------------------------------------------------------------------
(* THurl implements LoadGen: its initial states are LoadGen's, and each of *)
(* its steps is one of LoadGen's or leaves LoadGen's variables alone.      *)

\* conn, as the refinement mapping of THurl computes it.
conn == [c \in Conns |-> conn_state(nc_state[c])]

\* what a step of THurl leaves alone when it is no step of LoadGen
Invisible ==
  /\ conn' = conn /\ UNCHANGED <<seen, m_reqs, m_resp, m_stopped>>
  /\ (pc' = "exited") = (pc = "exited")

LEMMA InvisibleStutters == Invisible => UNCHANGED LG!vars
  BY DEF Invisible, conn, LG!vars

\* The mapping depends on an nconn's state only: moving the current nconn on from s to t
\* moves its image on.
LEMMA ConnMoves ==
  ASSUME nc_state \in [Conns -> ConnStates], cur \in Conns,
         NEW t, nc_state' = [nc_state EXCEPT ![cur] = t]
  PROVE  conn' = [conn EXCEPT ![cur] = conn_state(t)]
  BY DEF conn

\* The two modules count alike.
LEMMA SameCardinality == \A S : LG!Cardinality(S) = Cardinality(S)
  BY DEF LG!Cardinality, Cardinality

\* LoadGen's open connections are the connection set.
LEMMA OpenIsSet == nc_state \in [Conns -> ConnStates] => LG!open = m_nconn_set
  BY DEF LG!open, m_nconn_set, conn_state, ConnStates

\* What LoadGen calls pending is m_num_in_progress.
LEMMA PendingIsInProgress ==
  ASSUME TypeOK, Conservation
  PROVE  m_reqs - m_resp = m_num_in_progress
  BY DEF TypeOK, Conservation

-----------------------------------------------------------------------------
LEMMA InitRefines == Init => LG!Init
  BY DEF Init, LG!Init, conn_state

\* Creating a connection is LoadGen's Open.
LEMMA StartRefines ==
  ASSUME Live, NEW c \in Conns, StartConn(c)
  PROVE  LG!Open(c)
<1>1. conn' = [conn EXCEPT ![c] = "opening"] /\ conn[c] = "closed"
  BY DEF StartConn, conn, conn_state, Live, TypeOK, ConnStates
<1>2. LG!Cardinality(LG!open) < ParallelMax
  BY OpenIsSet, SameCardinality DEF StartConn, room, Live, TypeOK
<1> QED
  BY <1>1, <1>2 DEF StartConn, conn, LG!Open

\* Deleting one is its Drop.
LEMMA CleanupRefines ==
  ASSUME Live, SmFinished \/ SmDone
  PROVE  LG!Drop(cur)
<1>1. cur \in Conns /\ nc_state[cur] # "none" /\ pc # "exited" /\ pc' # "exited"
  BY DEF SmFinished, SmDone, SmPass, ReturnNotOk, Live, CurLive, InCall
<1>2. nc_state' = [nc_state EXCEPT ![cur] = "none"]
  BY DEF SmFinished, SmDone, session_cleanup
<1>3. conn' = [conn EXCEPT ![cur] = "closed"] /\ conn[cur] # "closed"
  BY <1>1, <1>2 DEF conn, conn_state, Live, TypeOK, ConnStates
<1> QED
  BY <1>1, <1>3 DEF SmFinished, SmDone, session_cleanup, conn, LG!Drop

\* The first request of a connection is First.
LEMMA ConnectedRefines ==
  ASSUME Live, SmConnected
  PROVE  LG!First(cur)
<1>1. cur \in Conns /\ pc # "exited" /\ pc' # "exited"
  BY DEF SmConnected, SmPass, GotoTop, Live, CurLive, InCall
<1>2. conn' = [conn EXCEPT ![cur] = "used"] /\ conn[cur] = "opening"
  BY <1>1, ConnMoves DEF SmConnected, SmPass, SetState, conn, conn_state, Live, TypeOK
<1> QED
  BY <1>1, <1>2 DEF SmConnected, conn, LG!First

\* The first block of a request that reaches the server is Transmit; the others change
\* nothing LoadGen sees.
LEMMA WriteRefines ==
  ASSUME Live, Calls, SmWrite
  PROVE  LG!Transmit(cur) \/ Invisible
<1>1. cur \in Conns /\ nc_state[cur] = "CONNECTED" /\ pc # "exited" /\ pc' # "exited"
  BY DEF SmWrite, Writing, SmPass, GotoTop, Live, CurLive, InCall
<1>2. conn' = conn /\ conn[cur] = "used"
  BY <1>1 DEF SmWrite, conn, conn_state
<1>3. CASE UNCHANGED serverVars
  BY <1>1, <1>2, <1>3 DEF SmWrite, Invisible
<1>4. CASE out_q[cur] = ReqBlocks /\ seen' = [seen EXCEPT ![cur] = @ + 1]
  <2>1. ReqsPerConn = -1 \/ seen[cur] < ReqsPerConn
    BY <1>1, <1>4, OptionsAssumption DEF Calls, unseen, Live, TypeOK
  <2> QED
    BY <1>1, <1>2, <1>4, <2>1 DEF SmWrite, conn, LG!Transmit
<1> QED
  BY <1>3, <1>4 DEF SmWrite

\* A response that is not the last of its connection's call, or is, is Answered; one
\* that nothing waited for changes nothing LoadGen sees.
LEMMA AnswerRefines ==
  ASSUME Live, Conservation, NEW u, SmReadEarly(u) \/ SmReadLast(u)
  PROVE  LG!Answered(cur) \/ Invisible
<1>1. cur \in Conns /\ nc_state[cur] = "CONNECTED" /\ pc # "exited" /\ pc' # "exited"
  BY DEF SmReadEarly, SmReadLast, Received, Reading, SmPass, set_state_done, GotoTop, Live,
         CurLive, InCall
<1>2. PICK t \in {"CONNECTED", "DONE"} : nc_state' = [nc_state EXCEPT ![cur] = t]
  BY DEF SmReadEarly, SmReadLast, StateAfter, set_state_done, SetState
<1>3. conn' = conn /\ conn[cur] = "used"
  <2>1. nc_state \in [Conns -> ConnStates]
    BY DEF Live, TypeOK
  <2>2. conn' = [conn EXCEPT ![cur] = conn_state(t)]
    BY <1>1, <1>2, <2>1, ConnMoves
  <2>3. conn_state(t) = "used" /\ conn[cur] = "used"
    BY <1>1 DEF conn, conn_state
  <2> QED
    BY <1>1, <2>2, <2>3 DEF conn
<1>4. UNCHANGED <<seen, m_reqs, m_stopped>>
  BY DEF SmReadEarly, SmReadLast, Received
<1>5. CASE m_num_in_progress > 0
  <2>1. m_resp' = m_resp + 1
    BY <1>5 DEF SmReadEarly, SmReadLast, request_complete
  <2>2. m_reqs - m_resp > 0
    BY <1>5, PendingIsInProgress DEF Live
  <2> QED
    BY <1>1, <1>3, <1>4, <2>1, <2>2 DEF conn, LG!Answered, LG!pending
<1>6. CASE ~(m_num_in_progress > 0)
  <2>1. m_resp' = m_resp
    BY <1>6 DEF SmReadEarly, SmReadLast, request_complete
  <2> QED
    BY <1>1, <1>3, <1>4, <2>1 DEF Invisible
<1> QED
  BY <1>5, <1>6

\* A response with the next request is Again.
LEMMA NextRequestRefines ==
  ASSUME Live, Conservation, NEW u, SmReadNext(u)
  PROVE  LG!Again(cur)
<1>1. cur \in Conns /\ nc_state[cur] = "CONNECTED" /\ pc # "exited" /\ pc' # "exited"
  BY DEF SmReadNext, Received, Reading, SmPass, GotoTop, Live, CurLive, InCall
<1>2. PICK t \in {"CONNECTED", "DONE"} : nc_state' = [nc_state EXCEPT ![cur] = t]
  BY DEF SmReadNext, StateAfter, SetState
<1>3. conn' = conn /\ conn[cur] = "used"
  <2>1. nc_state \in [Conns -> ConnStates]
    BY DEF Live, TypeOK
  <2>2. conn' = [conn EXCEPT ![cur] = conn_state(t)]
    BY <1>1, <1>2, <2>1, ConnMoves
  <2>3. conn_state(t) = "used" /\ conn[cur] = "used"
    BY <1>1 DEF conn, conn_state
  <2> QED
    BY <1>1, <2>2, <2>3 DEF conn
<1>4. UNCHANGED <<seen, m_stopped>> /\ m_reqs' = m_reqs + 1 /\ ~m_stopped
  BY DEF SmReadNext, Received, can_request
<1>5. m_reqs - m_resp = m_num_in_progress /\ m_reqs \in Nat /\ m_resp \in Nat
      /\ m_num_in_progress \in Nat
  BY PendingIsInProgress DEF Live, TypeOK
<1>6. /\ m_resp' = (IF m_reqs - m_resp > 0 THEN m_resp + 1 ELSE m_resp)
      /\ m_reqs - m_resp' = in_progress_left
  BY <1>5 DEF SmReadNext, request_complete, in_progress_left
<1>7. /\ in_progress_left < ParallelMax
      /\ NumToRequest < 0 \/ m_reqs + in_progress_left < NumToRequest
  <2>1. in_progress_left \in Nat
    BY <1>5 DEF in_progress_left
  <2> QED
    BY <1>5, <2>1, OptionsAssumption DEF SmReadNext, can_request
<1> QED
  BY <1>1, <1>3, <1>4, <1>6, <1>7 DEF conn, LG!Again, LG!pending

\* The end of t_run is End.
LEMMA ExitRefines ==
  ASSUME Live, RunExit
  PROVE  LG!End
<1>1. m_stopped \/ (NumToRequest >= 0 /\ m_resp >= NumToRequest)
  BY OptionsAssumption DEF RunExit, more, Live, TypeOK
<1> QED
  BY <1>1 DEF RunExit, LG!End

\* Every other step of the worker, of the kernel and of the servers is invisible.
LEMMA OthersInvisible ==
  ASSUME Live,
         \/ UNCHANGED vars
         \/ RunContinue \/ StartNone
         \/ EvrWait \/ (\E c \in Conns : EvrRead(c) \/ EvrWrite(c)) \/ EvrAfterRead
         \/ EvrDone \/ EvrInterrupted
         \/ SmTop \/ SmFree \/ SmSetupFails \/ SmConnecting \/ SmConnectFails
         \/ SmReadAgain \/ SmReadError \/ SmWriteNothing \/ SmWriteError \/ SmWriteAgain
         \/ (\E u \in Units \cup {"EOF"} : SmReadPart(u))
         \/ (\E c \in Conns : World(c))
  PROVE  Invisible
<1>1. CASE UNCHANGED vars
  BY <1>1 DEF vars, Invisible, conn
<1>2. CASE \/ RunContinue \/ StartNone \/ EvrWait
           \/ (\E c \in Conns : EvrRead(c) \/ EvrWrite(c)) \/ EvrAfterRead \/ EvrDone
           \/ EvrInterrupted
  BY <1>2 DEF RunContinue, StartNone, EvrWait, EvrRead, EvrWrite, EvrAfterRead, EvrDone,
              EvrInterrupted, Invisible, conn
<1>3. CASE SmTop \/ SmSetupFails \/ SmConnecting \/ SmConnectFails
  BY <1>3 DEF SmTop, SmSetupFails, SmConnecting, SmConnectFails, SmPass, ReturnOk, ReturnNotOk,
              Invisible, conn, Live, TypeOK
<1>4. CASE SmReadAgain \/ SmWriteNothing \/ SmWriteAgain
  BY <1>4 DEF SmReadAgain, SmWriteNothing, SmWriteAgain, Reading, Writing, SmPass, ReturnOk,
              Invisible, conn, Live, TypeOK
<1>5. ASSUME cur \in Conns, nc_state \in [Conns -> ConnStates],
             NEW t, nc_state' = [nc_state EXCEPT ![cur] = t],
             conn_state(t) = conn_state(nc_state[cur])
      PROVE  conn' = conn
  BY <1>5, ConnMoves DEF conn
<1>6. CASE SmFree
  <2>1. conn' = conn
    BY <1>5, <1>6 DEF SmFree, SmPass, SetState, conn_state, Live, TypeOK, CurLive, InCall
  <2> QED
    BY <1>6, <2>1 DEF SmFree, SmPass, GotoTop, Invisible
<1>7. CASE SmReadError \/ SmWriteError
  <2>1. conn' = conn
    BY <1>5, <1>7 DEF SmReadError, SmWriteError, Reading, Writing, SmPass, set_state_done, SetState,
                      conn_state, Live, TypeOK, CurLive, InCall
  <2> QED
    BY <1>7, <2>1 DEF SmReadError, SmWriteError, Reading, Writing, SmPass, set_state_done, GotoTop,
                      Invisible
<1>8. ASSUME NEW u \in Units \cup {"EOF"}, SmReadPart(u) PROVE Invisible
  <2>1. conn' = conn
    BY <1>5, <1>8 DEF SmReadPart, Received, Reading, SmPass, StateAfter, SetState, conn_state, Live,
                      TypeOK, CurLive, InCall
  <2> QED
    BY <1>8, <2>1 DEF SmReadPart, Received, Reading, SmPass, GotoTop, Invisible
<1>9. CASE \E c \in Conns : World(c)
  BY <1>9 DEF World, Establish, Refuse, Drain, Answer, Garbage, Send, CloseAfterAnswer, CloseEarly,
              Close, Reset, Invisible, conn
<1> QED
  BY <1>1, <1>2, <1>3, <1>4, <1>6, <1>7, <1>8, <1>9

\* stop() is Stop; the rest of the main thread is invisible.
LEMMA MainRefines == Main \/ MainQuit => LG!Stop \/ Invisible
<1>1. MainStop => LG!Stop
  BY DEF MainStop, LG!Stop, conn
<1>2. MainNotice \/ MainLeave \/ MainSignal \/ MainJoin \/ MainQuit => Invisible
  BY DEF MainNotice, MainLeave, MainSignal, MainJoin, MainQuit, Invisible, conn
<1> QED
  BY <1>1, <1>2 DEF Main

\* Every behaviour of the worker is one of LoadGen's: the state machine, its callbacks
\* and the event loop never hold, send, ask for or count more than LoadGen does.
THEOREM Refines == Spec => ImplementsLoadGen
<1>1. Live /\ Calls /\ Conservation /\ [Next]_vars => [LG!Next]_(LG!vars)
  <2> SUFFICES ASSUME Live, Calls, Conservation, [Next]_vars
               PROVE  LG!Next \/ UNCHANGED LG!vars
    OBVIOUS
  <2>1. cur \in Conns \/ ~InCall
    BY DEF Live, CurLive
  <2>2. Invisible \/ (\E c \in Conns : StartConn(c)) \/ SmFinished \/ SmDone \/ SmConnected
        \/ SmWrite \/ (\E u : SmReadEarly(u) \/ SmReadLast(u) \/ SmReadNext(u)) \/ RunExit
        \/ Main \/ MainQuit
    BY OthersInvisible DEF Next, Thread, run_state_machine, Exited
  <2>3. SmFinished \/ SmDone \/ SmConnected \/ SmWrite
        \/ (\E u : SmReadEarly(u) \/ SmReadLast(u) \/ SmReadNext(u)) => cur \in Conns
    BY <2>1 DEF SmFinished, SmDone, SmConnected, SmWrite, SmReadEarly, SmReadLast, SmReadNext,
                Received, Reading, Writing, SmPass, InCall
  <2> QED
    BY <2>2, <2>3, InvisibleStutters, StartRefines, CleanupRefines, ConnectedRefines,
       WriteRefines, AnswerRefines, NextRequestRefines, ExitRefines, MainRefines DEF LG!Next
<1> QED
  BY <1>1, InitRefines, LiveHolds, CallsHolds, ConservationHolds, PTL
     DEF Spec, ImplementsLoadGen, LG!Spec
=============================================================================
