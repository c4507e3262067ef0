----------------------------- MODULE EvrTimers ------------------------------
(***************************************************************************)
(* The timers of evr_loop: a priority queue of events that run services    *)
(* before it waits and when the wait times out, and that callbacks of      *)
(* sockets and of timers add to and cancel in.  One thread does it all.    *)
(* The clock does not move between its reading and the wait.               *)
(***************************************************************************)
EXTENDS Integers, FiniteSets

CONSTANTS
  Events,    \* events that may be added, each once
  Delays,    \* a_time_ms
  MaxClock   \* bound on the clock

TimeAssumption == MaxClock \in Nat /\ Delays \subseteq Nat

Never == -1      \* EVR_DEFAULT_TIME_WAIT_MS

VARIABLES
  clock,
  m_event_pq,   \* events in the queue
  time,         \* m_time_ms of every event added
  cancelled,    \* events whose m_state is EVR_EVENT_CANCELLED
  fired,        \* events whose callback was called
  loop_pc,      \* "idle", "dequeue", "cb", "wait" or "handlers"
  after_dequeue,  \* where dequeue_events returns to
  deadline      \* when the wait times out

timer_vars == <<clock, m_event_pq, time, cancelled, fired, loop_pc, after_dequeue, deadline>>

TimersInit ==
  /\ clock = 0 /\ m_event_pq = {} /\ time = [e \in Events |-> Never]
  /\ cancelled = {} /\ fired = {}
  /\ loop_pc = "handlers" /\ after_dequeue = "wait" /\ deadline = Never

\* slip: not ordered by time
top_x(e) == e \in m_event_pq
top(e) == e \in m_event_pq /\ \A f \in m_event_pq : time[e] <= time[f]

Run ==
  /\ loop_pc = "idle"
  /\ loop_pc' = "dequeue" /\ after_dequeue' = "wait"
  /\ UNCHANGED <<clock, m_event_pq, time, cancelled, fired, deadline>>

PopCancelled(e) ==
  /\ loop_pc = "dequeue" /\ top(e) /\ e \in cancelled
  /\ m_event_pq' = m_event_pq \ {e}
  /\ UNCHANGED <<clock, time, cancelled, fired, loop_pc, after_dequeue, deadline>>

Fire(e) ==
  /\ loop_pc = "dequeue" /\ top(e) /\ e \notin cancelled /\ clock >= time[e]
  /\ m_event_pq' = m_event_pq \ {e} /\ fired' = fired \cup {e}
  /\ loop_pc' = "cb"
  /\ UNCHANGED <<clock, time, cancelled, after_dequeue, deadline>>

\* wait is told how long, which is for ever when no event is left
dequeued(n_diff) ==
  /\ loop_pc' = after_dequeue
  /\ deadline' = IF n_diff = Never THEN Never ELSE clock + n_diff
  /\ UNCHANGED <<clock, m_event_pq, time, cancelled, fired, after_dequeue>>

\* slip: the default is returned whatever is left
diff_x(e) == Never
diff(e) == time[e] - clock

NotYet(e) ==
  /\ loop_pc = "dequeue" /\ top(e) /\ e \notin cancelled /\ clock < time[e]
  /\ dequeued(diff(e))

NoneLeft == loop_pc = "dequeue" /\ m_event_pq = {} /\ dequeued(Never)

Return ==
  \/ loop_pc = "cb" /\ loop_pc' = "dequeue" /\ UNCHANGED after_dequeue
  \/ loop_pc = "handlers" /\ loop_pc' = "idle" /\ UNCHANGED after_dequeue
  \/ loop_pc = "wait" /\ deadline # Never /\ clock >= deadline
     /\ loop_pc' = "dequeue" /\ after_dequeue' = "idle"

Loop ==
  \/ Run \/ NoneLeft
  \/ \E e \in Events : PopCancelled(e) \/ Fire(e) \/ NotYet(e)
  \/ Return /\ UNCHANGED <<clock, m_event_pq, time, cancelled, fired, deadline>>

\* add_event
AddEvent(e, n_ms) ==
  /\ loop_pc \in {"cb", "handlers"} /\ time[e] = Never /\ clock + n_ms <= MaxClock
  /\ time' = [time EXCEPT ![e] = clock + n_ms]
  /\ m_event_pq' = m_event_pq \cup {e}
  /\ UNCHANGED <<clock, cancelled, fired, loop_pc, after_dequeue, deadline>>

\* cancel_event, of an event the queue has: the pointer to one that fired is not to be used
Cancel(e) ==
  /\ loop_pc \in {"cb", "handlers"} /\ e \in m_event_pq
  /\ cancelled' = cancelled \cup {e}
  /\ UNCHANGED <<clock, m_event_pq, time, fired, loop_pc, after_dequeue, deadline>>

SocketEvents ==
  /\ loop_pc = "wait" /\ loop_pc' = "handlers"
  /\ UNCHANGED <<clock, m_event_pq, time, cancelled, fired, after_dequeue, deadline>>

\* a signal ends the wait: run gives up, and its caller calls it again
Interrupted ==
  /\ loop_pc = "wait" /\ loop_pc' = "idle"
  /\ UNCHANGED <<clock, m_event_pq, time, cancelled, fired, after_dequeue, deadline>>

ClockTick ==
  /\ clock < MaxClock /\ clock' = clock + 1
  /\ UNCHANGED <<m_event_pq, time, cancelled, fired, loop_pc, after_dequeue, deadline>>

TimersNext ==
  \/ Loop \/ SocketEvents \/ Interrupted \/ ClockTick
  \/ \E e \in Events : Cancel(e) \/ \E n_ms \in Delays : AddEvent(e, n_ms)

Fairness == WF_timer_vars(Loop) /\ WF_timer_vars(ClockTick)

TimersSpec == TimersInit /\ [][TimersNext]_timer_vars /\ Fairness

-----------------------------------------------------------------------------
(* Properties                                                              *)

\* The wait ends before any event that is not cancelled is due: nothing the callbacks did with
\* the queue, before run or from within dequeue_events, lets the loop sleep through a timer,
\* and an event fires neither early nor after it was cancelled in time.
NoneSleptThrough ==
  /\ loop_pc = "wait" =>
       \A e \in m_event_pq \ cancelled : deadline # Never /\ deadline <= time[e]
  /\ \A e \in fired : time[e] <= clock /\ e \notin m_event_pq \cup cancelled

\* Every event that comes due fires, unless it is cancelled, be the sockets busy or silent.
DueIsServiced ==
  \A e \in Events : (e \in m_event_pq /\ clock >= time[e]) ~> (e \in fired \cup cancelled)
=============================================================================
