------------------------------ MODULE LoadGen ------------------------------
(***************************************************************************)
(* What a worker of hurl promises, whatever its sockets, its event loop    *)
(* and its callbacks do: how many connections it holds, how many requests  *)
(* it sends on each, when it asks for more, and when it may end.  THurl    *)
(* implements it.                                                          *)
(***************************************************************************)
EXTENDS Integers, FiniteSets

CONSTANTS Conns, ParallelMax, NumToRequest, ReqsPerConn

VARIABLES
  conn,      \* "closed", "opening" (no request yet) or "used"
  sent,      \* requests sent on the connection since it was opened
  asked,     \* requests issued
  answered,  \* responses counted
  stopped,   \* the worker was told to stop, or ended
  ended

vars == <<conn, sent, asked, answered, stopped, ended>>

open == {c \in Conns : conn[c] # "closed"}
pending(n_answered) == asked - n_answered

Init ==
  /\ conn = [c \in Conns |-> "closed"] /\ sent = [c \in Conns |-> 0]
  /\ asked = 0 /\ answered = 0
  /\ stopped = FALSE /\ ended = FALSE

Open(c) ==
  /\ ~ended
  /\ conn[c] = "closed" /\ Cardinality(open) < ParallelMax
  /\ conn' = [conn EXCEPT ![c] = "opening"]
  /\ UNCHANGED <<sent, asked, answered, stopped, ended>>

\* the first request of a connection is issued whatever -f says
First(c) ==
  /\ ~ended
  /\ conn[c] = "opening"
  /\ conn' = [conn EXCEPT ![c] = "used"]
  /\ asked' = asked + 1
  /\ UNCHANGED <<sent, answered, stopped, ended>>

Transmit(c) ==
  /\ ~ended
  /\ conn[c] = "used"
  /\ ReqsPerConn = -1 \/ sent[c] < ReqsPerConn
  /\ sent' = [sent EXCEPT ![c] = @ + 1]
  /\ UNCHANGED <<conn, asked, answered, stopped, ended>>

Answered(c) ==
  /\ ~ended
  /\ conn[c] = "used" /\ pending(answered) > 0
  /\ answered' = answered + 1
  /\ UNCHANGED <<conn, sent, asked, stopped, ended>>

\* a response is counted, unless none was pending, and the connection is used again
Again(c) ==
  /\ ~ended /\ ~stopped
  /\ conn[c] = "used"
  /\ answered' = IF pending(answered) > 0 THEN answered + 1 ELSE answered
  /\ pending(answered') < ParallelMax
  /\ NumToRequest < 0 \/ asked + pending(answered') < NumToRequest
  /\ asked' = asked + 1
  /\ UNCHANGED <<conn, sent, stopped, ended>>

\* closed, or lost: what was pending on it stays pending
Drop(c) ==
  /\ ~ended
  /\ conn[c] # "closed"
  /\ conn' = [conn EXCEPT ![c] = "closed"]
  /\ sent' = [sent EXCEPT ![c] = 0]
  /\ UNCHANGED <<asked, answered, stopped, ended>>

Stop ==
  /\ stopped' = TRUE
  /\ UNCHANGED <<conn, sent, asked, answered, ended>>

End ==
  /\ ~ended
  /\ stopped \/ (NumToRequest >= 0 /\ answered >= NumToRequest)
  /\ ended' = TRUE /\ stopped' = TRUE
  /\ UNCHANGED <<conn, sent, asked, answered>>

Next ==
  \/ \E c \in Conns :
       Open(c) \/ First(c) \/ Transmit(c) \/ Answered(c) \/ Again(c) \/ Drop(c)
  \/ Stop \/ End

Spec == Init /\ [][Next]_vars
=============================================================================
