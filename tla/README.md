# A TLA+ model of hurl

hurl is an HTTP load generator: it makes many connections in parallel from a few
worker threads, sends requests on them, and counts and times the responses. This
directory holds a model of its core, the runs that check it with TLC, and theorems
about it checked with TLAPS. Paths such as `hurl.cc:2073` are under `src/src/`; `hurl.cc` is
`hurl/hurl.cc`, `evr*.cc` are in `core/evr/`, `nconn*.cc` in `core/nconn/`.

## 1. The system

| Part | State | Operations | Talks to |
|---|---|---|---|
| main thread (`main`, hurl.cc:3409) | options, `g_test_finished`, the list of workers | parse options, split -p and -f over the workers, start them, poll keys and time every 500 ms, `stop()` and join, print | workers through `m_stopped`, `stop()`, the statistics it copies; SIGINT through `sig_handler` |
| worker (`t_hurl`, hurl.cc:908) | `m_nconn_set`, `m_stat`, `m_num_in_progress`, `m_stopped` | `t_run`, `conn_start`, `create_conn`, `session_create`, `session_cleanup`, `can_request` | event loop; session callbacks |
| session state machine (`session::run_state_machine`, hurl.cc:2073) | none of its own: the nconn's state, the session's queues | setup, connect, read, write, cleanup; one call per event | nconn, `http_session` or `h2_session`, worker's counters |
| `http_session` (hurl.cc:1118) | out queue, response parser, `m_goaway` | `srequest`, `sread`, `swrite`, `request_complete` | nbq, http_parser |
| `h2_session` (hurl.cc:1466) | nghttp2 session, streams | the same, through nghttp2 callbacks | nghttp2 |
| `nconn`, `nconn_tcp`, `nconn_tls` | `m_nc_state`, fd, completed requests | `ncsetup`, `ncconnect`, `ncread`, `ncwrite`, `nccleanup`, `can_reuse` | kernel, OpenSSL, evr_loop |
| `evr_loop`, `evr_epoll` (evr.cc) | registered fds, timer queue, control eventfd | `run`, `add_fd`, `mod_fd`, `add_event`, `cancel_event`, `signal` | kernel; the two callbacks of each fd |
| `nbq` (core/support) | a list of blocks, a read and a write position | `write`, `read`, `split`, `join_ref`, `reset` | sessions |
| `nlru`, `obj_pool`, `circular_vector` | containers | insert, evict, reuse slots | resolver, sessions |
| `nresolver`, `nlookup`, `ai_cache` (core/dns) | address cache, its file and its mutex | `lookup_tryfast`, `lookup_inline`, load and store | main thread |
| `path_exploder`, `get_path` (hurl.cc:2985) | the request paths of a range or list | expand, choose | sessions |
| statistics (`get_stat`, hurl.cc:3188) | previous totals | sum over the workers, rates | main thread, workers |

How they interact: a worker alternates between `conn_start`, which fills its connection
set up to `-p` and calls the writeable callback of each new connection itself, and
`evr_loop::run`, which blocks in `epoll_wait` and makes at most one read and one write
callback per reported fd. Every callback is `run_state_machine`, which moves one
connection as far as it goes without blocking. Nothing but `g_test_finished`, `m_stopped`
and the control eventfd is shared with other threads, without locks.

What is hard in it:

- a connection may be deleted inside a callback, while the event loop holds raw pointers
  to it and its caller is in the middle of the same fd's events;
- epoll is edge triggered, and its mask is replaced in several places: an event that is
  consumed or masked once is lost for good;
- the counters are updated on many paths, and a lost connection leaves its request in
  progress for ever;
- responses may come before the request is sent, be cut short, repeat or not parse;
- `g_test_finished` and `stop()` may come between any two steps, and the worker may be
  inside `epoll_wait`, in a callback, or on its way out;
- there are no timeouts: whatever fails to wake the worker is never noticed;
- over HTTP/2 what the session learns, it learns in callbacks of nghttp2 that run inside a read or a
  write, and it acts on it on one path only; what nghttp2 wants to send waits for a write callback;
- under TLS part of a record may be in the library, where epoll does not see it;
- `nbq` keeps two iterators into a list of blocks that reads, writes, rewinds, splits and joins all move.

What makes each part correct:

- worker: no request is lost from the count; `-p`, `-N` and `-f` are limits; it ends when it
  has its responses or was told to, and then it does end;
- state machine: a connection given up is cleaned up, no request is begun before the last
  answer is complete, nothing is issued once the test is finished;
- HTTP/2 session: no stream's end is forgotten, every request has its body, what is owed to the peer is sent;
- event loop and nconn: no event that needs service is lost, no deleted fd is serviced, no timer is slept through;
- nbq: a FIFO of bytes; containers: indexes that agree, objects lent once, the last entries kept;
- resolver: every cached object has one owner, and an answer is of the host asked for and not expired;
- paths: every combination of the ranges once, and the workers together go round the list;
- statistics: totals are sums, and the final report has all of them.

`PROJECT.json` lists the hazards of this code at their lines, with the properties aimed at them.

## 2. The modules

| Module | What it is |
|---|---|
| `LoadGen.tla` | abstract: what a worker promises about connections, requests and its end |
| `THurl.tla` | one worker, its event loop, connections and HTTP/1.x sessions, with the kernel, the servers and the end of the main thread |
| `MCTHurl.tla` | `THurl` for TLC (symmetry of the connections) |
| `THurlProofs.tla` | theorems about `THurl`, the last that it implements `LoadGen` |
| `HurlMain.tla`, `HurlMainProofs.tla` | the main thread with all its workers: start, display, end, final report; theorems about it |
| `H2Session.tla`, `H2SessionProofs.tla` | a worker with an HTTP/2 session over TLS, composed with the kernel and a server; theorems about it, one that it implements `LoadGen` |
| `ByteQueue.tla`, `Nbq.tla`, `NbqProofs.tla` | abstract: a queue of bytes; the block list that implements it; theorems about it, one that it does |
| `Maps.tla` | the maps of `Nlru` and `Resolver`: an entry put, an entry erased |
| `Nlru.tla` | the LRU list and its three indexes |
| `ObjPool.tla`, `CircularVector.tla` | the object pool, and the circular vector |
| `EvrTimers.tla` | the timer queue of the event loop |
| `LibraryProofs.tla` | theorems about these four |
| `Resolver.tla`, `ResolverProofs.tla` | the resolver, its cache and the cache's file, and theorems about them |
| `Paths.tla`, `PathsProofs.tla` | the expansion of a path's ranges, and the turns the workers take with the paths; theorems about both |
| `SequenceLemmas.tla` | what several proofs need of induction, `\o`, `SubSeq` and `FlattenSeq` |
| `MCLibrary.tla` | the seven small objects (`Nbq` to `Paths`) in one run, one of them in a behaviour; it extends them all, so each has names of its own for its initial states and steps (`PoolInit`, `PoolNext`, `PoolSpec`); what the run checks of an object is what the theorems state of its own specification |

How they compose: `HurlMain` has `-t` workers, each what `THurl` shows of one; `THurl` and `H2Session`
have the same event loop and kernel, for the two kinds of session, and both implement `LoadGen`. The small objects are
separate: the sessions see a queue as a number of blocks or frames, which is what `Nbq` justifies.

### THurl

State. `nc_state`, `m_num_reqs`, `m_reqs`, `m_resp`, `m_errors`, `m_num_in_progress`, `m_goaway`,
`m_stopped` and `g_test_finished` are the variables of the code. `out_q` counts the unsent
blocks of `m_out_q`; `m_resp_state` is how far the response parser has got. The call stack
of the worker is `pc`, `cur` (the nconn `run_state_machine` works on), `mode` (`a_conn_mode`) and
`caller` (`conn_start`, or the read or write callback of the loop). `batch` is the array `epoll_wait`
filled, per connection. The addresses in `Conns` are reused: an nconn that is deleted leaves
its address to a later one, as malloc does, so that a stale pointer would be to somebody.

Grain. A call of `run_state_machine` is a sequence of passes; a pass is two steps, the test of
`g_test_finished` at `state_top` (`SmTop`, `SmFinished`) and the switch, up to the next
`goto state_top` or `return` (the other `Sm` actions, one for each outcome of the system call
in it). Between the two the other threads, the kernel and the servers move. Within the
switch a pass makes one system call and reads nothing else others write but
`g_test_finished` and `m_stopped` in `can_request`. `t_run`, `conn_start` and the body of
`evr_loop::run` are cut the same way, at the calls.

The read pass. `sread` counts the response when the parser says it is complete and, if
nothing is left to send, either ends the connection (`SmReadLast`) or issues the next
request at once (`SmReadNext`); if the request is still being sent it goes on sending
(`SmReadEarly`). The parser keeps saying complete for what follows, the end of the stream
included, so the same response may be counted twice: `request_complete` then finds nothing
in progress, and that is why it tests `m_num_in_progress > 0`. The model keeps all of this.

The kernel. A socket has a state (`link`), a registered mask, a receive buffer, a send
buffer that is full or not, and a place on epoll's ready list. `poll` says what a socket has to
report: one that is not connected reports HUP and OUT (which is why `ncsetup`'s registration alone
gets a connection that could not start its connect serviced again); end of stream and error report IN and
RDHUP. `epoll_ctl` puts a socket on the list if it has something to report for the new mask;
an event does if the mask wants it; `epoll_wait` takes everything off the list. The masks
are those of `ncsetup` (nconn_tcp.cc:443), `ncconnect` (:569, :630) and `ncwrite` on EAGAIN (:340). A
connection that is refused reports an error; a connect with no route fails and wakes
nobody.

The servers see the first block of a request, may answer in one or several units, with a
length, a stream end or `Connection: close`, and may answer before they have the whole
request if `EarlyAnswers`. The faults are in `FaultKinds`: a failing `ncsetup`, a refused or
unroutable connect, a reset, an early close, and an answer that does not parse.

The main thread starts here once the worker runs: it leaves its loop when the test is finished
(q, SIGINT and -l are `MainQuit`; `EvrInterrupted` is a SIGINT taken by the worker in
`epoll_wait`; `MainNotice` is its own test that no worker is running) and then calls `stop()` (two steps: the
flag, then the eventfd) and joins.

Left out: h2 and TLS (`H2Session`), headers, the times of the statistics, timers (the worker
never queues one), the TIMEOUT branch (compiled out), verbose output.

Definitions whose names end in `_x`, `_y` or `_z` are faulty forms of what follows them, with the slip said in
a comment. No action uses them. Put in the place of the real definition, each breaks the
property PROJECT.json lists it for, which shows that the property can fail.

### LoadGen

One worker seen from outside: connections that are closed, opening or used; how many
requests went out on each; how many were asked for and answered. A connection's first request is
issued whatever `-f` says; every other one needs room for it under `-f` and `-p`, as
`can_request` counts them. `THurl` defines the refinement mapping (`LG`): `conn` from `nc_state`, `sent` is `seen`,
`ended` is `pc = "exited"`; a connection that is `DONE` is still `used`. `pending` of LoadGen is
`m_num_in_progress` of the code, because of `Conservation`.

### HurlMain

THurl has one worker and starts when it runs; HurlMain has `-t` of them, and the main thread from
its creation of the workers to its final report. `main` is where main is and `i_t` the worker its current
loop has come to: `init` (hurl.cc:4107) splits `-f`, `run` creates the threads, `loop`, `sleep`, `check`,
`stat_reqs` and `stat_resp` are a turn of the display loop (:4173 to :4339), `stop`, `signal` and `join` what comes after it
(:4345, :4354), and then `stat_reqs` and `stat_resp` again, with `joined`, for the final report (:4381). Every read
of a worker's `m_stopped` and of a counter of its `m_stat` is a step, with the workers moving between
them; `l_total` is the sum so far and `s_last` the one get_stat keeps in its static.

A worker is what `THurl` shows of it, with the connections reduced to how many there are. `WorkerStart`
is `conn_start`; `WorkerReported` is what `epoll_wait` reports of a connection, which `WorkerResponse`, `WorkerConnected` or
`WorkerLost` ends. The number of requests in progress is `m_reqs - m_resp`, by `Conservation`. `Finish` is
every end of the test that is not main's own: q, SIGINT, -l, and a worker whose ncsetup failed.

`PromptStart` is TRUE when every thread gets to run before main first looks at the workers or
stops them. It holds in nearly every run, since main sleeps 500 ms first, and nothing in the
code makes sure of it: `early_start` is about the runs where it does not. Shared words are
read and written at once, and in program order, as on the machines hurl is built for.

### H2Session

One worker with `-p 1` whose connection is `nconn_tls` over `nconn_tcp` and carries an `h2_session`. The event loop and
the passes are those of `THurl`, without an early end of the test, which `THurl` has. `tls` is the handshake: it
begins once TCP is connected, `SSL_connect` waits for the server (`SmTlsAgain`) and relies on the mask that
`ncconnect` left. `rx` holds records of one or two frames; `SSL_read` hands out part of a record, and the
rest is in `pend`, where epoll does not see it.

`ses` is the session and what nghttp2 keeps for it: the one stream's state, `m_goaway`, `m_streams_closed`, what is
left of `m_h2_body_q`, the frames nghttp2 owes (`ctl`), and the two windows. `recv`-side frames are taken one by
one with their callbacks; `sends` is `nghttp2_session_send`: control frames first, then as much of the
body as the window lets out. `m_out_q` is a sequence of frames. A stream closes in `stream_close_cb`, called in a read (the
answer ends, RST_STREAM, GOAWAY of a server that never began it) or in a write, when our last
DATA frame ends a stream the server has ended already.

A request that is refused, reset or closed by GOAWAY counts as a response, as the code counts it. `NoIdleConn` exempts a server
that has sent GOAWAY (`leaving`): with a full send buffer in the middle of an upload nothing is left to wake the
worker then but the server's own close, which is why `CloseLeaving` is fair. A failed TLS handshake leaves the
connection `CONNECTING` and its slot taken for ever; `Completion` says so.

### Nbq and ByteQueue

A block has its bytes, its capacity, how many were read, and whether it refers to another queue's block. `rb`
and `wb` are the iterators, `avail` and `off` the counters the code keeps beside them. Every operation that
changes a queue is an action; a call that loops over the blocks is one action, and a pass of its loop an operator
(`write_block`, `read_block`) that a recursive function takes as often as there are bytes at most.
The refinement maps the blocks to their bytes in order and the iterators to one position. A step of `ByteQueue` is bounded
by what it has, so that TLC can enumerate its steps from any state of `Nbq`; `MaxBytes` bounds the numbers of the bytes. The callers'
discipline is in the guards: a body is joined once, to a new or emptied queue (`fresh`, `own`); a queue
with joined blocks is not written until it is emptied (`writable`, since `join_ref` leaves the write block
at end()); a queue is split only when it has bytes past the offset. A body was written once and never reset
(hurl.cc:3593, :3604), so its blocks have bytes but for the last ones (`write_fd` may add a block for a read that brings
nothing): `BodiesAssumption`. `SplitAnywhere` is FALSE when splits at the end of a
block are excluded, which is what finding 5 is about; `hmsg.cc:136` is the only caller of `split`. After a
split of a block that was cut, the write offset is not reduced by what was cut off; no caller writes on.

### Nlru, ObjPool, CircularVector

`Nlru` keeps the list and its three indexes apart, as the code does, and follows `remove` through its
early returns. `ObjPool` has its users in `holds`, which is what an object was lent for; a user that
releases an object it was not lent is excluded. In `CircularVector` objects are numbered in order, so that what a walk should
meet is known. hurl itself only mentions `obj_pool` as a type; these are a library's parts, and hurl does not use the other two.

### EvrTimers

`m_event_pq` with `time`, what was `cancelled` and what `fired`; `Loop` is `run` step by step: the due events one
by one, their callbacks, which may add and cancel, then the computation of the wait. `Cancel` is for an event that has
not fired: the queue frees it when it does, and nothing tells the holder of the pointer. The
clock does not move between the computation and the wait, which the code starts a little later. A signal ends a wait (`Interrupted`), and the caller runs the
loop again. hurl queues no timer, so `THurl` waits without one.

### Resolver

`heap` has the `host_info` objects by address, `m_ai_cache` the cache, `file` what a destructor wrote, or part of
it if a crash cut it short. A lookup is up to four steps: the cache, `getaddrinfo` (an answer or an error), the insertion, and the copy of
the answer to the caller. A call of `ai_cache` is one step though `lookup_inline` makes it without
the mutex; hurl resolves once, before it starts its workers, and calls `nlookup` directly (hurl.cc:4044).
`LateCopy` lets a second thread look up between another's lookup and its copy, and thus expire and free what the other has;
that is excluded in the run and in `AnswersHold`.

### Paths

A path is the sequence of the numbers in it. `path_exploder` is the code's recursion, written as the function `exploded` of the path so
far and the ranges left, with `steps` for the loop over one range. `get_path` is the five
steps of the mutex, the rollover test, the index, the increment and the unlock. A number has `Width` values. A range up
to the largest would never end (`ends` excludes it), and numbers of its upper half print as negative (`printed`).

## 3. The runs

| Run | Question | Bounds |
|---|---|---|
| `safety` | Do the counters, the batch and the order of requests stay consistent under faults and an early end? | 2 connections, -f 2, -N 2, every kind of fault, up to two of them, symmetric; 4.5 million states |
| `reuse` | Do the counters, -p and -N hold when answers come early or twice, requests take two blocks and the buffer fills, and does the worker implement LoadGen? | -p 1 at one of 2 addresses, -f 4, -N 2, 2 blocks, one fault |
| `completion` | Does the worker get its responses, and read what is sent? | 2 connections, -f 2, servers answer, one refusal, early close or bad answer |
| `shutdown` | Does the process always end after the test is finished, and does the worker go quiet? | 2 connections, servers that may be silent, stuck connects |
| `report` | Does main end the test only when all are over and done, never show less than before, report everything, and always end? | 2 workers, -f 3, -p 1, anybody may end the test, at most 2 requests of a worker, prompt start; 0.8 million states |
| `h2` | Are HTTP/2 bodies whole, streams never forgotten, frames never held back, and does the worker get its responses and implement LoadGen? | -f 3, -N 2, bodies of 3 frames, answers of 2, windows of 2, two faults; 0.3 million states |
| `library` | Does each of the small objects keep its promise? | below; 0.1 million states |
| `stall` | finding 1 | 1 connection, 2 blocks |
| `restart` | finding 2 | 1 connection, one reset |
| `early_start` | finding 3 | 2 workers, -f 2, -p 1, without prompt start |
| `h2_early` | finding 4 | -f 3, bodies of 2 frames, window of 1, no fault |
| `split` | finding 5 | blocks of 2 bytes, 5 bytes |

Why these bounds are enough. Connections share only the counters, the set and the batch,
so two are enough for one connection's events to follow another's in a batch, for one to be deleted
while the other waits, and for `-p` to be reached; an address is used again within every run,
so stale pointers show with few addresses. `-f` above `-N` makes connections end
and be replaced. Two blocks are the least that let an answer, a full buffer or the
end of the test come between two sends of one request. One fault is enough to reach each
error path with everything else in each of its states, two to have one in the wake of another (`safety`);
the theorems hold for any number. `reuse` has more addresses than `-p`, so that the limit is
what stops `conn_start`, and not the lack of an address.

Two workers are the least at which the order of main's reads matters, and `-f 3` the least that
gives them different shares. `MaxReqs` bounds the counters at the larger share.

In `h2` the windows are smaller than both the body and the answer, so that either side stops in the middle of one and
needs the other's WINDOW_UPDATE; -N 2 below -f 3 makes a connection end and another follow.

In `library` a behaviour is about one of the small objects: blocks of 2 bytes, 5 bytes and three bodies: of no block, of two, and of one and an empty last one (every iterator can be
within, at the end of and past a block); two labels, a list of 2 and 5 ids (evictions and removals in the middle); 2 users and 3
objects; vectors without a bound and of size 1, 2, 3 and 5, and 8 additions (each bounded one wraps); 3 timers; 2 threads, 2 hosts and 4 objects, the least that `ObjsAssumption` allows; 2 workers, up to 3 ranges and 5
calls, more than the paths of most lists, so that the index rolls over.

`early_start`, `stall`, `restart` and `h2_early` switch the deadlock check off: there the worker
really blocks for ever in `epoll_wait`, which is what the run is about. So does `h2`, for the failed handshake, and
`library` and `split`, where a bound ends a behaviour (no byte, id or addition is left).

`completion` leaves out two faults on purpose. A reset may hit while `conn_start` writes
the first request, and an unroutable connect leaves its slot of `-p` taken; with these the worker
may wait for ever (`restart`), though `stop()` still ends it (`shutdown`).

Fairness. `WF(Thread)`: the operating system runs the worker when it can take a step.
`WF(Main)`: the display loop polls every 500 ms, and its other steps are straight-line code; `MainQuit`, `Finish` and SIGINT have none, a user
need not quit. `WF` of `Establish`, `Drain` and `CloseAfterAnswer`: TCP finishes a handshake it
does not refuse, a server reads what is sent, and closes after an answer that says so. `Answer` is fair only with
`ServerAnswers`, which `shutdown` leaves out. No fairness is put on a fault.
In `HurlMain`, `WF(Main)` and `WF(Worker(t))` are the scheduling of each thread; nothing makes a server answer,
so `WorkerReported` has no fairness. In `H2Session` the server's handshake, its WINDOW_UPDATEs and its answers are
fair, as `completion` has them, and so is its close after GOAWAY; RST_STREAM, GOAWAY and an early close are not. In `EvrTimers` the loop runs and the
clock moves on. The other small objects have safety properties only.

## 4. Findings

1. `stall`. When `send()` returns EAGAIN, `ncwrite` (nconn_tcp.cc:340) calls `mod_fd` with WRITE and without READ. MOD
   replaces the mask, and nothing registers READ again, so the
   response to a request that filled the send buffer is never read, unless the server
   closes. (Under TLS `nconn_tls` does not touch the mask, and an upload that fills the buffer goes on.)
2. `restart`. If the callback that `conn_start` makes fails, `conn_start` gives up for this turn (hurl.cc:2716), and `t_run`
   goes on to `evr_loop::run` with what is left in the set. With `-p 1`, or if every
   connection fails so, nothing is left, and with no timer queued the wait has no end.
3. `early_start`. The constructor makes `m_stopped` true and `t_run` clears it (hurl.cc:2660). If a thread first runs
   after main has called `stop()`, the stop is undone: the worker goes on, cannot make connections since the test is
   finished, and blocks in `epoll_wait` while main joins it. The window is also open the other way: main
   takes a worker that has not started for one that is over (:4214) and ends the test.
4. `h2_early`. A read pass that leaves frames queued flips to WRITE (hurl.cc:2479) before it looks at
   `m_streams_closed`, and the next read resets that (hurl.cc:2461). If the same read closed the stream, which a server that answers
   before it has the whole request can bring about, nothing asks for the next request, and the connection waits with none. A stream
   that closes with our own last frame, in the write pass, is missed in the same way.
5. `split`. `split` (nbq.cc:505) steps over the block the offset falls in, whether it cut it or the offset was the end of
   the block before; in that case the head keeps a block too many. nbq.h:54 says the tail begins "at offset"; the test
   (wb_nbq.cc:266) splits within a block.

Observed when reading, and not the subject of a run:

- `conn_start` (hurl.cc:2694) fills the set up to `-p` and issues a request on each connection whatever `-f` says, so up to `-p - 1`
  more than asked for; `THurl` and `LoadGen` have it so.
- `-T` (README.md:92, "Timeout (seconds).") is stored (hurl.cc:3782) and never read.
- `get_stat` assigns (hurl.cc:3215-3218) the counts per class of response where it adds everything else: with several workers
  they are those of the last. `HurlMain` has it so.
- The rate under "Rsp/s" is computed from the requests (hurl.cc:3242).
- `get_status_codes` (hurl.cc:3262) copies the map of a running worker.
- The random choice of a path draws from one generator in all workers without a lock (hurl.cc:3174); without tinymt,
  `random()*size/RAND_MAX` is `size` itself when `random()` is RAND_MAX (:3178).
- A range of paths up to 0xFFFFFFFF never ends (hurl.cc:3006), and numbers from 2^31 print as negative.
- HTTP/2: frames nghttp2 queues in a read are sent only because a write callback follows; server push is not
  disabled; after 2^30 requests a connection has no stream number left, and nobody looks at srequest's error.

## 5. The proofs

Every proof is checked to its last leaf, and holds for every value of the constants that
satisfies the named assumptions. What is proved of `THurl` holds for any finite set of connections, any `-p`, `-f`, `-N`, request
size, set and number of faults, from the assumptions `ConnsAssumption`, `OptionsAssumption` and
`WorldAssumption` of `THurl` only.

`THurlProofs` rests on one inductive invariant, `Live`: `TypeOK`; the current connection of a
call is in the set (`CurLive`); the batch names only connections in the set (`BatchLive`); nothing
is left of a connection that is not in the set (`Closed`). `TypeOK` is not inductive alone:
the state machine indexes everything by `cur`, so its types need `CurLive`, which needs that every return
resets `cur` and every cleanup returns; `BatchLive` is kept by `EvrWait` because a socket that does
not exist reports nothing (`Closed`).

| Theorem | Statement | Argument |
|---|---|---|
| `TypeCorrect` | `Spec => []TypeOK` | part of `Live` |
| `PointersLive` | `Spec => []NoFreedConn` | follows from `Live` |
| `ConservationHolds` | `Spec => []Conservation` | only the steps of `CounterSteps` move the counters, and each moves them together |
| `ParallelBoundHolds` | `Spec => []ParallelBound` | the set grows only in `StartConn`, which has room (`ConnSteps`, cardinalities) |
| `NoneLeftDoneHolds` | `Spec => []NoneLeftDone` | DONE is set only on the way to `state_top`, where the pass deletes the nconn |
| `CallsPerConnHolds` | `Spec => []CallsPerConn` | by `Calls`, below |
| `ExitJustifiedHolds` | `Spec => []ExitJustified` | with `Stopped`: `m_stopped` is set by the end of the worker or after `stop()` |
| `QuietAfterFinishHolds` | `Spec => QuietAfterFinish` | `SmTop` alone begins a pass; a pass adds at most one request |
| `Refines` | `Spec => ImplementsLoadGen` | step by step, from `Live`, `Calls` and `Conservation` |
| `OneAtATimeHolds` | `~EarlyAnswers => (Spec => []OneAtATime)` | by `Turns`, below |
| `InFlightCountedHolds` | `~EarlyAnswers => (Spec => []InFlightCounted)` | by `Turns`: a read that ends a response finds its connection waiting (`WaitingSteps`), and takes one from both sides |
| `HurlMainProofs!TypeCorrect` | `Spec => []TypeOK` of `HurlMain` | with `EventHasConn`: a worker with an event holds a connection, so none is taken off an empty set |
| `NoticeJustifiedHolds` | `PromptStart => (Spec => NoticeJustified)` | by `Watch`, below |
| `FinalReportHolds` | `Spec => []FinalReport` | by `Report`, below |
| `DisplayGrowsHolds` | `Spec => DisplayGrows` | by `Report` |
| `NothingCutShortHolds` | `PromptStart => (Spec => NothingCutShort)` | by `Watch`, `Report` and `Due`, below |
| `TypesHold` | `Spec => []TypeOK` of `H2Session` | by `Types`, below |
| `BodyWholeHolds` | `Spec => []BodyWhole` | by `Whole`, below |
| `Refinement` | `Spec => ImplementsLoadGen` of `H2Session` | step by step, from `Types`, `Turns`, `Sent` and `Counts` |
| `NoIdleConnHolds` | `~EarlyAnswers => (Spec => []NoIdleConn)` | by `Busy`, below |
| `H2SessionProofs!ConservationHolds` | `Spec => []Conservation` of `H2Session` | by `Counts`, which adds the types of the counters |
| `LentOnceHolds` | `PoolSpec => []LentOnce` of `ObjPool` | with the types: the two index sets part the pool |
| `LastOnesHolds` | `VectorAssumption => (VectorSpec => []LastOnes)` of `CircularVector` | with where the two indexes are (`Place`) and what every slot holds (`Contents`) |
| `NextAtHandHolds` | `SizesAssumption /\ BodiesAssumption => (NbqSpec => []NextAtHand)` of `Nbq` | part of `NbqInv`, below |
| `ByteQueueHolds` | `SizesAssumption /\ BodiesAssumption /\ ~SplitAnywhere => (NbqSpec => ImplementsByteQueue)` | step by step, from `NbqInv` |
| `IndexesAgreeHolds` | `LruAssumption => (NlruSpec => []IndexesAgree)` of `Nlru` | by `Kept`, below |
| `KeepsNewestHolds` | `LruAssumption => (NlruSpec => []KeepsNewest)` | by `Kept` |
| `AllPathsHolds` | `PathsAssumption /\ Fits => (PathsSpec => []AllPaths)` of `Paths` | by `Explosion`, below |
| `InTurnHolds` | `PathsAssumption => (PathsSpec => []InTurn)` | by `Turns` of that module, below |
| `NoneSleptThroughHolds` | `TimeAssumption => (TimersSpec => []NoneSleptThrough)` of `EvrTimers` | with `Queued`: the types, and that an event that was ever queued has a time |
| `OneOwnerHolds` | `ObjsAssumption => (ResolverSpec => []OneOwner)` of `Resolver` | with the types and `Calls`, what each thread holds at its step |
| `AnswersHold` | `ResolverAssumption /\ ObjsAssumption /\ ~LateCopy => (ResolverSpec => []AnswerHolds)` | with `Answers`: every object is of its key, what a thread found is on the heap until its copy, and the clock has not passed it |

`CallsPerConn` is not inductive: whether a connection may take another request is decided on
completed requests, and what its server sees follows later. `Calls` relates the two: what a server
has seen, plus the request the out queue holds and no server has seen, is at most the completed requests plus
one, and at most `-N`; a connection that has not connected has none of either.

`OneAtATime` and `InFlightCounted` need to know what is under way between a server and the parser. `Turns` says it
of each connection: nothing has come before the first request; while one is being sent nothing is there to be
read; the end of an answer is the last unit in the receive buffer, and the server owes nothing by then; a connection
that is up has no complete response in its parser. `~EarlyAnswers` is a hypothesis because with servers that answer
early a response may be complete before its request is sent, and all of this is false.

`OneOwner` is proved for any threads and hosts, provided that `Objs`, the addresses malloc may return, are more than are ever in use
(`ObjsAssumption`); without it `Ask` would have none to take. The assumption on the constants of each small object is an operator of its module, which `MCLibrary`
asserts of its values (`ParametersAssumption`).

`HurlMainProofs` holds for any number of threads, any `-f` and `-p`. Main's decision to end the test rests on reads that are
old when it acts. `Watch` says why they are still true: until main calls `stop()`, a flag that
is up belongs to a worker that has not started or is over (`FlagIsTrue`), with `PromptStart` all have started
before the first read (`Started`), and a worker that is over stays so; hence while nobody was seen running, all
the workers before `i_t` are over (`SeenIsOver`). `PromptStart` is a hypothesis of the theorem because without it
the statement is false.

The display adds up counters that move while it reads them. `Partial` says of a sum under way that there are two functions on the
workers: what main had of each when it read it, which makes up the sum, and what the last display had of
each, which is no more; both are at most what the counters are now, and once every worker is joined the first is
what they are. `Report` has this of the requests and of the responses (`Seen`), with what it needs: a worker that has not started has
counted nothing, since its start sets its counters to zero (`Fresh`), and the final report begins after the last join
(`Joined`). `Due` has the shares of `-f` as they were given (`Shared`), and that a worker that is over
before `stop()` has had its own (`Earned`). That the shares add up to `-f`, that a sum grows when a term does, and that equal
terms make equal sums are lemmas on `SumFunction` (`Unfold`, `SumGrows`, `SumSame`), by induction on the set of workers that are
summed.

`H2SessionProofs` holds for any `-f` and `-N`, any body, windows and faults. `TypeOK` needs to know what there is
before the handshake is over: no session, no request, and a record of the server's hello in flight (`Handshake`). `Whole` ties the body
together: while the stream lets us send, the DATA the server has, the DATA queued and what is left to read make
up the body; HEADERS are queued behind control frames only, and as long as they are there the server has none of it; no DATA follows the
last (`Queue`, `Bodies`). `Turns` says that while the server has a request, or its answer flies, no HEADERS are queued, and that one frame at
most ends the stream; `Sent`, that what the server has seen is no more than what was completed, and the request that is open.
`LoadGen` counts a request when its server sees it, and these two make its guards true. `Busy` is for `NoIdleConn`: when the
answer flies, our side of the stream is closed and no DATA is queued, so that the read that closes the stream has nothing to flip to WRITE for
and looks at `m_streams_closed`. With early answers that is false, and so is `NoIdleConn` (finding 4): hence `~EarlyAnswers`.

`NbqInv` of `NbqProofs` says of the queue between two calls (`Shape`): the blocks with bytes come before those without, those before
the write block have some and those after it none, and every block of the queue's own has room (`Filled`); the blocks
before the read block were read, those after it were not, what is before the next byte and `m_total_read_avail` make up all
that was written, and if any is left the read block has a byte of it (`AtRead`); the read block is not past the write block.
`NextAtHand` is not inductive without it: whether the block a read goes on to has a byte depends on where the empty blocks are, and
`b_read_avail` answers with the total on the write block, which is right because nothing is written after it. A call is a series of a few changes
of blocks, each of which keeps `Shape`: bytes read (`ReadShape`), written (`WriteShape`), a block added (`AddShape`), all read
again (`StartShape`), blocks dropped (`ShrinkShape`). A pass of a loop leaves less to do (`WriteBlock`, `ReadBlock`), so that after as many as there are bytes
nothing is left, and what was written or read so far with what is left is what was asked for (`Writing`, `Reading`). The refinement
adds where the bytes are: those of a block follow those of the blocks before it (`Around`, `PieceAt`), so what is copied out of blocks is
one piece of what was written, from the read position on. `~SplitAnywhere` is a hypothesis of `ByteQueueHolds` because a split at the end
of a block is finding 5; a split anywhere keeps `NbqInv`, so `NextAtHandHolds` needs no such hypothesis. `BodiesAssumption` is needed for
both: `join_ref` of a body with an empty block in its middle would leave the read block on it.

`Kept` of `LibraryProofs`: the list is newest first, so that no id is in it twice, its last is the oldest and its length counts it; the
indexes by id have the entries of the list, and the ids of a label are those whose label it is (`Listed`,
`Labelled`); what was deleted is older than all that is left, and ids are given out in order (`Aged`). `AddAgrees` and `RemoveAgrees`
say that `inserted` and `remove` keep agreement, of any cache that has it.

`Explosion` of `PathsProofs`: of any path so far and any whole ranges, `path_exploder` returns at least one path; what it
returns are the paths under that part, each of which takes a number of every range; and it returns them in the order
of their numbers. It is proved by induction on the ranges left, from what `FlattenSeq` makes of sequences in order (`Flattened`). `Fits` says that every number is below
half of `Width`, without which the numbers print as negative and are neither those of the ranges nor in order. `InTurn`
goes by who is in `get_path`: one worker at most (`Locked`), and where the index is relative to the last one given for each of its five steps
(`Round`); an empty list would make the rollover useless, and `Explosion` says that there is none.

Induction over data is done without the library's induction theorems, which the provers cannot instantiate: a nonempty set of
naturals has a least element (`Least`, from `WFMin`), so a set that has 0 and the successor of each of its members has them all (`NatSteps`).
What a function defined by recursion computes follows from its equation, once a function that satisfies it
is shown to exist (`SumsExists`, `FlattensExists`, `WritesExists`, `UpToExists`).

Every invariant and every safety property the passing runs check is thus stated by a theorem. Only model-checked: the liveness
properties (`Completion`, `ResponseIsRead`, `Shutdown`, `NothingHeldBack`, `DueIsServiced`), since the prover does not reason about
fairness, and what the runs of section 4 refute.

## 6. Not modelled

- Option parsing and the display's text; with `-v` main skips `get_stat`. `get_status_codes`, the rates, and the random order of
  paths (section 4): data races and arithmetic on what the model already has.
- HTTP/2 with several streams: hurl opens one at a time on a connection. Server push and running out of
  stream numbers: nghttp2's own behaviour. An early end of the test in an h2 session: the check is the one at
  `state_top`, before any code of the session, and `THurl` has it.
- `nconn_tls`: options, certificates and the accepting side; `nconn_tcp`: listening and accepting. hurl is a client.
- `evr_select`, `evr_kqueue`: not used on Linux. `del_fd`: nobody calls it, close() takes a socket off epoll.
- `EvrTimers`: the clock is monotonic and has no width; the code takes differences in 32 bits of CLOCK_REALTIME.
- `Resolver`: steps within a call of `ai_cache` made without the mutex; the outcome of that race is undefined, and no caller in
  hurl has two threads there.
- hmsg, resp, rqst, cb: offsets and headers, data no property looks at. tls_util, trace, ndebug and the string, file, time and uri
  utilities print or wrap a library call.
- `ext/`: third-party code (nghttp2, http_parser, rapidjson, catch and others), more than three quarters of the lines of this
  repository. What hurl sees of nghttp2 and http_parser is in `H2Session` and `THurl`.

What would add most next: the early end of a test in `H2Session`, with the main thread's `stop()` as `THurl` has it.
