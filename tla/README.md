# TLA+ models of libarc

libarc is a C++20 coroutine library: event loops over epoll, asynchronous
sockets (plain and TLS), coroutine locks and conditions, cancellation, a
dispatcher that moves coroutines between loops, a thread pool, an HTTP server and
a MySQL client. This directory holds TLA+ models of its concurrent core, of the
lock-free queue under its dispatcher, of its HTTP parser and TLS sockets, the TLC
configurations that check them and TLAPS proofs about them. `PROJECT.json` maps
every definition to the source lines it stands for.

## The system

| Component | State | Operations | Interacts with |
|---|---|---|---|
| `Poller` (`coro/poller/epoll.*`) | io queues per descriptor, remembered and kernel interest sets, time heap, user events (pending, triggered, by id), bound events (pending, triggered), eventfd | `AddIOEvent`, `AddTimeEvent`, `AddUserEvent`, `AddBoundEvent`, `WaitEvents`, three trims, `TriggerUserEvent`, `TriggerBoundEvent`, `RemoveAllIOEvents`, `Register` | called by its loop's thread; the two triggers and the eventfd write come from any thread |
| `EventLoop` (`coro/eventloop.*`, `task.cc`) | roles, coroutines to dispatch, frames to clean up | `InitDo`, `Do`, `Trim`, `IsDone`, dispatching and (de)registering | one per thread, owns a `Poller` |
| Awaiters, events | the event of one wait, its abort handle, its `is_interrupted_` | `await_ready/suspend/resume` | add events to the poller, read the interruption flag |
| `CancellationToken` | registered bound events, a mutex | `SetEventAndLoop`, `Cancel` | `TriggerBoundEvent` of any loop, through `EventLoopGroup` |
| `Lock`, `Condition` | `is_locked_`, queue of waiting events; queue and pairs of condition waits | `Acquire`, `Release`, `Wait`, `WaitFor`, `NotifyOne`, `NotifyAll` | `TriggerUserEvent` of other loops |
| `EventLoopGroup` | id to loop | register, deregister, lookup | everything that reaches another loop |
| `CoroutineDispatcher` | consumer ids and iterator, one queue and counter per consumer, a mutex | `Register`, `DeRegister`, the enqueues | eventfds of the consumers' pollers |
| `ThreadPool`, `Executor` | tasks, task events, `stop_` | `Enqueue`, worker loop, destructor | `TriggerUserEvent` |
| `Task`, promises | continuation, result, `need_clean` | start, final suspend, `EnsureFuture` | frames cleaned up by the loop |
| `ConcurrentQueue` (`concurrentqueue.h`) | producers with block indices, blocks, free list, hash of producers, consumer tokens | enqueue and dequeue, single and bulk | the dispatcher's queues, from any thread |
| sockets, `Acceptor` | descriptor, accepted sockets | `Recv`, `Send`, `Accept`, `Connect` | `IOAwaiter`, `RemoveAllIOEvents` |
| `TLSSocket`, `TLSAcceptor` | SSL object | `Connect`, `Accept`, `Recv`, `Send`, `Shutdown` | OpenSSL, `IOAwaiter` |
| `HttpServer`, `HttpClient` | handlers, per-connection request and parser | `HandleNewConn`, `StartAccept`, `Request` | sockets, loops, parser |
| `HttpParser` (`http_parser.cc`) | state, marks, counts and flags of the message being read | `http_parser_execute`, `http_parser_parse_url`, the callbacks, `ParseOnce`, `ParseResponse` | fills `HttpRequest`, `HttpResponse` |
| MySQL, logging, net, exceptions | | | |

What is hard to test here: wakeups that cross threads through one eventfd; four
ways for one wait to end (readiness or notification, timeout, cancellation, close)
that may all happen in one turn of the loop; batches limited by
`kMaxEventsSizePerWait`; coroutines resumed from inside a socket's destructor; a
lock handed to a coroutine that is still suspended on another loop; a
notification that meets interrupted waits; consumers that leave while producers
enqueue; blocks that lock-free threads take, free and take again; messages cut into
reads at any byte; TLS calls that read in order to write. `PROJECT.json` lists each of these hazards at its line.

What makes the parts correct:

* Poller: every wait is resumed exactly once; an interruption is reported only if
  it happened and no notification was accepted; the kernel watches what is waited
  for; no accepted wakeup is lost; the loop ends exactly when nothing is left.
* Lock and Condition: one owner; the queue is exact; hand-over always succeeds; no
  lost notification; whoever waits goes on.
* Dispatcher: a coroutine is neither lost nor run twice; a consumer is woken; what is
  dispatched runs.
* ConcurrentQueue: one FIFO per producer, every item taken once; no block lost or used
  twice; every call returns.
* Tasks and thread pool: every frame has one destroyer, every suspended coroutine one
  party that resumes it; an executed coroutine finds its result; shutdown drains.
* HTTP server: every connection is served; each complete request gets its own answer;
  a connection whose peer is gone is closed.
* HTTP parser: what it reports does not depend on how the bytes came; what was written
  is what is read; broken framing is refused; no assertion fails.
* TLS sockets: the streams are exact, an end of stream hides no loss, every call returns.

## Modules

`Poller.tla` models one event loop: `Poller`, the turn around it and what reaches it.
The loop's thread is the program counter `pc`; the mutex `poller_lock_` is held
exactly while `pc = "bound"`, everything else under it is one step. Coroutine code
is free: whenever a coroutine runs it may start any wait, close a socket, or
suspend. Waits are named, and a wait's name is its event id (ids come from a
counter and are not reused); the bound event of a wait has the wait's name.

| `pc` | Code |
|---|---|
| `run` | a coroutine runs (`Do`'s resume, or the first ones before `InitDo`) |
| `closing`, `nested` | inside `RemoveAllIOEvents`; a coroutine resumed by it runs |
| `trim` | `Trim`; then `IsDone` decides for `done` or `wait` |
| `wait` | blocked in `epoll_wait` |
| `io`, `timers`, `lock`, `bound` | the parts of `WaitEvents` |
| `resume` | `Do` takes the next event of the batch |
| `done`, `failed` | `RunUntilComplete` returned; an exception left the loop |

`epoll_wait` is external: it reports any part of the interest list, the eventfd if
it is readable and watched, or nothing at the timeout. The use of an iterator after
`erase` in `PopBoundEvent` is a choice among the elements a deque may have moved
there. An exception that nobody catches ends the loop (`failed`).

`CoroLock.tla` models `LockCore`, `ConditionCore` and their awaiters for coroutines
of several loops. What a mutex protects is one step; coroutines of one loop
exclude each other except where they suspend (`Free`). Of a loop's poller it
keeps what `Poller.tla` establishes: an event is pending, then triggered or
interrupted, then its coroutine resumes. `ConditionCore::DeRegister` takes no
lock (condition_awaiter.h:63), a data race when waits of two loops are interrupted
together; the model makes it one step all the same, so what is said of several
loops with timeouts or tokens assumes that the race does no damage to the maps.
`AbstractMonitor.tla` is the specification: a monitor with at most one owner, a line of
those who wait for it in the order they came, and a condition whose `Wait` gives the
monitor up and starts to wait in one step. `IsMonitor` maps the detailed state to it. The code's
wait registers the event first and unlocks afterwards (condition_awaiter.h:169), and between the two a
notification may already choose the event; the mapping therefore hands the lock on when a wait
with a lock registers (`GivingUp`), which nobody can see, since the coroutine does nothing between the
two but unlock. `Owners`, `Untaken`, `Line` and `Back` are who owns the lock, whether it is
free, who is in line and who has woken and must still acquire it. `WaitFor(lock, timeout)` is the
abstract step `Lose` (see `CoroLockTimedWait`).

`Dispatcher.tla` models `CoroutineDispatcher` and the loop's producing and consuming
half. The mutex `global_addition_lock_` is the variable `lock`. An enqueue is three
steps (put, count, notify), because consumers take without the mutex.
`moodycamel::ConcurrentQueue` is a bounded set here: what `AbstractQueue` promises of
it (an enqueue takes effect at once, every item comes out once) and `TakesWhatIsThere`
adds is what the dispatcher relies on. The main coroutine of a loop is the flag `alive`, and its own events end a wait at any time.

`Tasks.tla` models coroutine frames: `Task`, its promise, the clean-up list of the loop,
and the thread pool behind `Executor`. `stack` is the loop thread's native stack of
coroutines: `EnsureFuture` resumes on top of its caller, `co_await` and the end of an
awaited coroutine replace the running one. `owner` says among whose locals a `Task` object
is; a coroutine ends only when its locals are gone. `tasks_` and `task_events_` are one
queue because they are pushed and popped together under `queue_mutex_`. The loop's turn
is reduced to what frames see of it (`Trim`, `WaitEvents`, `Resume`). Awaiting a Task
that was started and is suspended would resume it in place of its event; code
that does this is not considered, nor is `Task`'s move assignment, which nothing uses.

`HttpServer.tla` models one working thread: `Acceptor`, `StartAccept`, `HandleNewConn` and
the peers. Code between two `co_await`s is one step. Data are units, of which
`read_buffer_size` fit into the buffer; a request arrives in any segments. The
parser is reduced to `ParseOnce`'s outcomes (it refuses, completes or wants more, and an
error stays until a new parser is made); `HttpParser` has the rest. Peers do not pipeline (two requests in one read would be
parsed into one `HttpRequest`, see the hazards), and a malformed request is one unit.
Which handler answers is left out: the maps are filled before `Start`.

`ConcurrentQueue.tla` models the queue as `CoroutineQueue` uses it (enqueues without a
token, dequeues with a consumer token), one step per shared access, on top of `BlockPool.tla`
(the initial pool, `FreeList` with its reference counts) and `ProducerHash.tla` (the
implicit producers' list and hash, which grows under its readers). A thread's registers
and its place are the record `me[t]`. Stores that no other thread can tell apart are one
step. Memory is sequentially consistent: the weak orders of the header are not modelled.
An assertion of the header that fails stops its thread, which `CallsReturn` and the
deadlock check would show. Allocation of a block or a hash may fail; that of a block index does not.
`AbstractQueue.tla` is the specification: a FIFO per thread, an enqueue that happens
entirely or not at all, a dequeue that takes a prefix. `Implements` maps the detailed state
to it: a thread's queue is what lies between `headIndex` and `tailIndex` of its producer,
looked up through the block index; what a consumer has claimed counts as taken, and is
read through the blocks until it has been moved out, so a block freed too early shows.

`HttpUrl.tla` and `HttpParser.tla` model the node.js http-parser in `http_parser.cc` and the
wrapper that fills requests and responses. A value of `x.state` is a state of
`http_parser_execute`, the operators are its cases and macros, folded over the text of
one read (no recursion). Text is a sequence of symbols: one for each class of
characters the code tells apart, one for a run it only tells apart as a whole. Lengths
and limits count symbols. `GetReturnStringFromHttpRequest` and `...Response`, which write
messages, are modelled too: `MessagesExact` compares what one side wrote with what the
other is handed. Built with `HTTP_PARSER_STRICT` and assertions.

`TlsSocket.tla` models a `TLSSocket` that connects and the one `TLSAcceptor::Accept` returns.
What the library decides is translated: which `SSL_*` function a call drives, what
it waits for at `WANT_READ` and `WANT_WRITE`, when it calls again, and what it makes of
each other result. OpenSSL is external: four flights, a record in two parts that
the socket buffer may take one by one, a begun write that must be continued with the same
data, `close_notify`; so are the applications, which are those of
`tests/test_coro_socket.h` and `examples/coro_socket_example.cc` (echo, and `Shutdown` or
not). The client may also be synchronous. The synchronous `Accept` cannot be instantiated (it calls
`InternalAccept`, which does not exist).

`MCPoller`, `MCCoroLock`, `MCDispatcher`, `MCTasks`, `MCHttpServer`, `MCConcurrentQueue`,
`MCHttpParser`, `MCTlsSocket` instantiate them for TLC (symmetry sets, the assignment of
coroutines to loops, workloads, streams, plans). The modules whose names end in `Proofs` hold
the theorems and proofs. Operators
whose comment begins with "Mutant" are altered copies of the operator that follows
them; `PROJECT.json` says which property each of them breaks.

## Runs

Passing runs:

| Run | Instance | Shows |
|---|---|---|
| `MCPollerMixed` | 2 socket waits on a low descriptor that may hang up and a high one, 1 user wait, all guarded by a token or a timeout, closes, dispatcher registration, one event per wait | `OneHome`, `NoLostWakeup`, `InterruptTruthful`, `TimeoutsArmed`, `EpollInSync` |
| `MCPollerLive` | 1 socket wait, 1 user wait, 1 sleep, all guards, delays 0 and 1, room for all | notified, cancelled and expired waits resume (`WokenResumes`, `ExpiredResumes`); `LoopEnds` |
| `MCCoroLock` | 3 coroutines on 3 loops that may end, one wait each, with a token, with the lock or without | `IsMonitor` (refinement of `AbstractMonitor`), `HandOverValid`, `WaitersReachable`, `NotifyOneWakesOne`, `LockGranted`, `WaitReturns` |
| `MCDispatcher` | 1 producer, 2 consumers one of which leaves, 2 coroutines, queues of 1 | `TaskKept`, `CountedArePresent`, `ConsumerWoken`, `DispatchedRuns` |
| `MCTasks` | 3 frames, 2 workers | `OneDestroyer`, `ResumedOnce`, `FutureReady`, `ExecutedResumes`, `PoolDrains` |
| `MCHttpServer` | 2 connections, one with 2 requests, of 1 and 3 units, buffer of 2 | `AnswersRight`, `ConnServed`, `RequestAnswered`, `GoneClosed` |
| `MCHttpParser` | messages as the library writes them, chunked, pipelined, odd and broken ones, all URLs of up to 3 symbols after 4 beginnings, in every division into reads | `SplitInvariant`, `AssertsHold`, `MessagesExact`, `RejectsMalformed`, `UrlFieldsExact` |
| `MCConcurrentQueue` | 6 workloads of 2 or 3 threads, blocks of 2 items, 2 or 3 blocks, tables of at most 8 slots (3 threads need no more) | `Implements` (refinement of `AbstractQueue`), `BlocksAccounted`, `TakesWhatIsThere`, `OwnProducer`, `CallsReturn` |
| `MCTlsSocket` | client and server, 4 plans, socket buffers of one unit, one aborted wait each | `StreamExact`, `EndMeansAll`, `ConnectionEnds` |

Runs that TLC refutes, each a disagreement between the code and its own comments,
assertions or tests:

| Run | Shows |
|---|---|
| `PollerCancelIO` | `TrimUserEvents` (epoll.cc:320) does not count bound events. In a loop that waits only on sockets the eventfd is not watched, and a cancelled socket wait sleeps on. |
| `CoroLockTimedWait` | `WaitFor(lock, timeout)` (condition.h:61) drops its awaiter and acquires the lock its caller holds. |
| `HttpParserSplit` | `OnUrl`, `OnHeaderField` and `OnHeaderValue` (http_parser.cc:2670, 2698) take each piece of a string for all of it, though http_parser.h:85 says that a string comes in any number of pieces: a path or a header that two reads divide arrives in part. `SplitInvariant` shows that `http_parser_execute` itself reports all of it, and `MessagesExact` that this is the only way a written message is changed. |

More of this kind was met and is listed under the hazards: `vec.erase(itr); return *itr;`
(epoll.cc:452) resumes a neighbour when three coroutines wait on one descriptor and the
middle one is cancelled (`OneHome` fails with three socket waits); a full batch
leaves a triggered bound event behind an unwatched eventfd (epoll.cc:168);
`extra_io_prev_events_.erase(0)` (255) and a missing decrement (463) for descriptors
at or above `kMaxFdInArray_`; two events for one descriptor in a batch limited by
descriptors (77); a `DispatchTo` coroutine diverted by a full queue (eventloop.cc:212); a
destination that is gone when the producer enqueues to it (dispatcher.h:299, the action
`PutNowhere`). `RequestAnswered` has an exception, `AtBoundary`: when the last read of a
request fills the buffer exactly, `HandleNewConn` reads on (http_server.cc:140) and
answers only when the peer sends more or closes. `M-SEARCH` is written by the library as
"M - SEARCH" (http_parser.h:190) and refused by its own parser, so `MCHttpParser` leaves it out
of what is written.
The passing runs avoid exactly these: at most two coroutines wait on one descriptor,
`MCPollerLive` has low descriptors and room for all events, and in `MCPollerMixed`, where one
descriptor is high, `EpollInSync` speaks of the interest set of the low one and lets
interrupted waits stay counted. `LoopEnds` shows that on a low descriptor they do not.

Bounds. Two waits of one kind and one of another are enough for each pair of
ends of a wait to race, for a batch limit of one to split them and for a queue to have
a head and a tail. The clock needs the values before, at and after a deadline, which delays 0 and 1 with
`MaxTime` 1 give. Three coroutines make an owner, a hand-over and a queue behind
it, and for the condition an interrupted wait, a wait behind it and a notifier.
Two tasks and queues of one make a batch that fits and one that does not.
Three frames make a parent, an awaited child and a detached one, two workers can both
sleep or both be busy. A request of 3 with a buffer of 2 ends behind a full read, in one,
or between two; a second request on the connection meets what the first one left.
Parser: `ULLONG_MAX` 99, 45 symbols of headers and ports up to 20 put every limit within
reach of the streams; reads of one symbol, of two, and up to the end of a message or of the
stream reach every division of a string in two or more, since the state after a
read does not depend on the sizes before it (which `SplitInvariant` shows). Queue: blocks of
two items, a block index of two entries, a quota of two and a first hash of two slots make
every structure fill, wrap and grow with two to six items; each workload aims at one of the
races of the hazards, and its phases keep the setting up sequential. Two consumers
on a queue are the header's contract; libarc has one. TLS: buffers of one unit
block every flight of two units and every record in the middle; one aborted wait per
side meets each of them. A stream is read once and TLC ends there, so the parser's
runs do not check deadlock. Conditions and locks may block for ever when nobody notifies, so
the CoroLock runs do not check deadlock; all others do, and `Terminated` is the only
step of a system that has ended.

Fairness. Poller: the loop's own steps, the return of `epoll_wait` when the eventfd
is readable and watched or the timeout is over, the clock, and the rest of a `Cancel`
that has begun (one thread walking a list); nothing is assumed of peers. CoroLock:
weak fairness of what a loop owes its coroutines; strong fairness of `Release`, the
application's duty, since other coroutines of the loop may briefly hold its thread.
Dispatcher: strong fairness of a loop's turn, because `global_addition_lock_` is
repeatedly free and taken and a mutex is granted in the end; weak fairness of
a wait that is due. Tasks: weak fairness of the loop's thread, of `WaitEvents` once the
pool has triggered an event, of each worker and of the destructor at the end of the
program; no other event is promised. HttpServer: weak fairness of `StartAccept` and of each
`HandleNewConn`, which the loop resumes when they are ready and whose handlers return or
throw; peers may stop at any point. ConcurrentQueue: weak fairness of each thread, which
the scheduler gives; no thread dies in a call. TlsSocket: weak fairness of each side, whose
loop runs what is ready; neither `Connect` nor `Shutdown` has a timeout, so against a peer
that keeps the connection and falls silent they would not return.

## Proofs

Each theorem holds for every value of the constants that satisfies the module's named
assumption: any number of coroutines, loops, descriptors, frames, workers, connections
and any capacity, batch size or duration, any plans of calls and values. What TLC checks on a small instance and is
proved in general:

| Module | Proved of the runs' properties | Proved besides |
|---|---|---|
| `CoroLockProofs` | `IsMonitor`, `HandOverValid`, `WaitersReachable`, `NotifyOneWakesOne` | types, `LockIsExclusive`, `LockQueueIsExact`, `PairsAreExact`, `NotifyAllWakes` |
| `PollerProofs` | `NoLostWakeup`, `TimeoutsArmed`; for queues of at most two `OneHome`, `InterruptTruthful`, `EpollInSync` | types, `EpollWatches`, `BoundEventsAnnounced`, `TimersAtDeadlines`; `OneHome` and `InterruptTruthful` without condition for all waits but those on sockets; `WaitsAreCounted`, `ReturnsWhenDone`, `ReturnsWhenAllRan` |
| `DispatcherProofs` | `TaskKept`, `CountedArePresent`, `ConsumerWoken` | types |
| `TasksProofs` | `OneDestroyer`, `ResumedOnce`, `FutureReady` | types, `RunBeforeJoined` (the safety half of `PoolDrains`) |
| `HttpServerProofs` | `AnswersRight` | types, `AcceptedOnce` |
| `TlsSocketProofs` | `StreamExact`, `EndMeansAll` | types |
| `ConcurrentQueueProofs` | `OwnProducer`, `TakesWhatIsThere` | `SingleWriter`, `ProducersListed`, `ClaimsPublished` |
| `BlockProofs` | `BlocksAccounted` | `ItemsHaveBlocks` (every item that is left has a block of its own in its producer's index) |

Every inductive invariant was checked with TLC on the runs' instances before it was proved.

*The lock.* Mutual exclusion is not inductive. `LockInv` adds that an owner shows in
`is_locked_` (so a free lock may be taken) and that the queue holds each
suspended coroutine that was not served, once (so the head may be served). Two
lemmas carry the argument: `UnlockStep` (after the owner's `Unlock` nobody owns the
lock, or the head of the queue does) and `LockAwaitStep` (who finds the lock free is
the only owner, everybody else goes to the end of the queue). Every action is one of these or leaves `LockInv`
alone (`LockInvFrame`).

*The condition.* That a waiter is always reachable needs that a notification skips only
ids that cannot be triggered, hence that a waiting coroutine's loop is in the group
(`LoopsAlive`) and that events exist only during their waits (`EventsInWait`). With
`PairsExact` these make `CondInv`. `HandOverIsValid` combines both with `LockEvents`.

*The monitor.* `ImplementsMonitor` shows, one action after the other, that a step of `CoroLock` is a
step of `AbstractMonitor` under the mapping or changes nothing there. It rests on the two
invariants above: that the queue of the lock is the abstract line and its head the abstract successor is
`LockQueueExact`; that only the owner unlocks (`OneOwner`) makes the hand-over a step of the owner. The
steps come in groups with a lemma each: `LockMaps` and `UnlockMaps` (what the two operations of
the lock do to the mapped state), `RegisterMaps` (a wait is abstractly over with the lock when it
registers), `SuspendMaps` (the unlock that follows is a stutter), `AwakeMaps` and `GrantedMaps` (the way back).

*The poller's turn.* A loop may block only if whatever could wake it has been seen or will
be. The steps of a turn share that duty, so the invariants say for each point of the turn
who has it: `Control` (what the program counter implies), `Watched` (which interest sets
are in step with their queues, which descriptors `TrimIOEvents` has still to look at),
`Woken` (who writes to the eventfd or takes the lists), `Timers` and `Agree` (a wait with a
timeout has a timer in the heap, at its deadline, exactly as long as its bound event is pending).

*Where a wait is.* `OneHome` counts places. `HomeInv` and `IOHomeInv` replace the count by a
case for each kind of wait: which places exclude each other, and that `resumes` is 1 exactly
when the wait is in none of them. For waits on sockets both `OneHome` and
`InterruptTruthful` are stated under `[]ShortQueues` (at most two coroutines wait on a direction of a
descriptor), because without it they are false: `PopBoundEvent` reads through an
iterator that `erase` invalidated (epoll.cc:453) and hands out a neighbour when it took an
event from the middle. The runs have two such waits, so they satisfy the condition.

*The count of the waits.* `total_io_events_` decides whether a loop may end, and no
queue is looked at then. `WaitsAreCounted` says that it is never less than the waits in the queues
of all descriptors, and equal if no descriptor is high; the queues may be as long as
they like. `QueueInv` keeps the queues disjoint and without repetition, so that the number of
waits is that of a set, `CountInv` is the count itself, with the finiteness of that set as a part
of it (so nothing is assumed of the number of waits). `UncountedInv` is the stronger claim for high
descriptors that `EpollInSync` makes (what is counted too much are waits interrupted there), and
needs `ShortQueues` because it speaks of single waits.

*The end of the loop.* `RunUntilComplete` returns when its counters are zero. `ReturnsWhenDone` says
that then no socket wait is queued and every other wait has resumed its coroutine once. What
`IsPollerDone` has seen stays so (`Drained`); that the queues are empty is
`WaitsAreCounted`, and that a wait which is nowhere has resumed is `HomeInv`. With `ShortQueues` it
holds for socket waits too (`ReturnsWhenAllRan`).

*The dispatcher.* An enqueue is three steps of a producer (put, count, notify), and the
consumer may take items between them. `Locked` gives the three steps to the holder of
`global_addition_lock_`; `Ids` keeps a queue that an enqueue has found until the lock is
released; `Counted` says that a queue holds what was counted and what the one
unfinished enqueue will count; `Homes` says in which places a coroutine can be at once (the
producer's list still names what the enqueue has put); `Awake` is `ConsumerWoken`
from the end of `ConsumeCoroutine` on.

*Frames.* `OneDestroyer` and `ResumedOnce` need each other. `~Task` of a coroutine that is awaited
never runs before it is done (it would tell the promise not to clean up), because its owner is
the coroutine that awaits, which is suspended until then (`Kept`). That the loop
returns only when no frame is left needs that a chain of `co_await`s ends: `Chained`
says that a rank grows along it, and a frame of the highest rank, which nothing but an event
or the pool can resume (`Resumed`, `Pooled`), contradicts `IsDone`. The highest rank exists by
the well-foundedness of the natural numbers (`Least`).

*The HTTP server.* That a parsed request is all of it needs an account of its units (on their
way, arrived, received, parsed), and that a well-formed one is never refused needs that
`HandleNewConn` never waits with a parser in error, hence runs once per connection.

*TLS.* `StreamExact` compares the two ends and says nothing of the units between them. `Matches`
numbers these: going through them, the count of values goes on by one at each end of a
record, from what `Recv` has returned to what the kernel was handed, each record's value is the
one of its number, and `close_notify`, an end of file or a reset stands where the count is
complete. Four lemmas say what appending a unit, appending the end of a record, taking the first
unit and lengthening the stream do to it. That a number is not given twice needs `Doing`: a write that was
begun belongs to the `Send` its side is still making, or its side makes no more calls. Without the
check OpenSSL makes of a repeated write (`FetchSSL` sets no
`ACCEPT_MOVING_WRITE_BUFFER`) that is false, and `StreamExact` with it.

*The queue's producers.* `OwnProducer` is about the tables, but what could break it is between
them: a thread that has searched one table inserts into it while another becomes the newest. `OwnInv`
counts the producer a thread is about to enter as its own (`Claimed`), says that a thread which
still registers has none in any table (`Fresh`), and that every key is reached by its thread's
probes before an empty slot (`Reached`), so that a search that finds nothing is right
(`FindFails`). Only the ten steps of `get_or_add_implicit_producer` can disturb it; all others
are `Quiet`. `Settled` adds that an enqueue works on the producer it found, also across its
calls of the block pool, which gives `SingleWriter`.

*The queue's walk.* A dequeue with a token starts at the producer the token names, goes round the
list and stops where it began, while other threads put producers in front of the list.
`QueueInv` holds with any number of consumers: the list has each thread's
producer once (`ListInv`, which is `ProducersListed`), tokens and calls in progress point at it (`CallInv`,
`RingInv`), counters and amounts are numbers with the bounds the steps need (`CounterInv`,
`AmountInv`). `TakesWhatIsThere` is about a queue with one consumer, which is how the dispatcher
uses it. Then the optimistic count is the head and nothing is overcommitted
(`Exact`), and `TakeInv` says that what the call must give is at most what it has given
and what is present with the producers still before it (`Ahead`, a stretch of the ring, which only grows
when the list does). The walk ends when `Ahead` is empty. The theorem is for threads in a finite
set and any workloads that are sequences of calls, which `QueueAssumption` and
`PoolAssumption` say.

*The queue's claims.* With several consumers none of `Exact` is true: they claim items with
`dequeueOptimisticCount` before they know that there are any, and give back through
`dequeueOvercommit`. `ClaimInv` says for each producer that the count is at least the head, the
overcommit and the claims under way; that an overcommit a thread has loaded
was reached; that the claims are disjoint intervals of the count; and that for some index all that is
owed to the claims before it is published, while each claim after it counts from at least what is
owed to those before it. Sums over threads are cardinalities of sets of pairs, whose finiteness
is part of the invariant. `ClaimsPublished` follows: nobody advances the head beyond the tail.

*The queue's blocks.* `BlocksAccounted` counts places, and the free list is one of them: a chain of
pointers whose nodes are also counted, held, and wanted back by several threads at once. `BlocksInv` has
two halves. `FreeInv` says of each block that at most one place has it (`OnePlace`), that the list from
its head is some sequence without repetition (`ChainIs`), and what the reference count then is
(`CountIs`): as many as the threads that hold a reference in `try_get`, one more for a block on the
list, the flag more for one that waits for its last reference, and in that case there is one. Since whoever
holds a reference keeps the count from zero, the `next` it has read stays right until its CAS (`ReadOK`), which is
why there is no ABA problem. `IndexInv` is about the circular block index of a producer: which keys it has up to
its tail (`TailOK`), that a block with items left is in it with the count of those that were emptied
(`LiveOK`), what an enqueue has put in and not published (`WriterOK`), where a consumer is in its claim
(`TakerOK`), that claims do not overlap (`DebtsOK`), and that the one that empties a block's last item
is alone in freeing it (`DetachersApart`). Each half needs the other: a block is freed once because
its entry is emptied once, and an entry's count is its own because its block is in no other place. They rest on
`QueueInv`, `ClaimsPublished` and `SingleWriter`. The steps are proved one by one: for the pool each
is a change of one block (`FreeTouch`) or of none (`FreeStay`), for the other steps a move of one
block between a thread and an entry (`FreeMove`) or nothing (`FreeQuiet`); for the index a lemma for each
step gives the frame `IndexFrame` what it keeps. `WalkIs` shows that the recursive walk `OnList` gives the sequence
of `ChainIs`, by its least counterexample.

Only model-checked: all liveness properties (`LockGranted`, `DispatchedRuns`, `CallsReturn`
and the like), which need fairness and ENABLED, out of the prover's reach; the parser, whose folds
over text would need induction over data; of `ConcurrentQueue` its refinement of `AbstractQueue`
(that an item's block is still the item's is proved, `EveryItemHasItsBlock`; what is stored in its slots is not).
`TypeOK`, `MutualExclusion`, `LockQueueExact`, `PairsExact` and `NotifyAllWakesAll` of `CoroLock` are proved and
no longer model-checked.

## Not modelled

`HttpClient` is a sequential loop around `Recv` and `ParseResponse`; its defect at the end
of the stream (http_client.h:77) is under the hazards. MySQL forwards single blocking
calls to the thread pool, which `Tasks` models. UDP, addresses, socket options and the
synchronous calls of plain sockets are system calls. Of `concurrentqueue.h` the parts
libarc does not use are left out: explicit producers and producer tokens, dequeues
without a token, size estimates, moves, destruction, thread exit (`THREAD_LOCAL` support is not
defined), exceptions of constructors; so are weak memory orders. Of the HTTP parser: pausing, raw
data after an upgrade, callbacks that fail. Of TLS: moves (the SSL object is carried
over), certificates, contexts, a destructor that meets another coroutine's wait, and time. `nameof.hpp`, logging, exceptions and concepts
have no protocol. Integer widths matter only at `next_wait_timeout_` (epoll.cc:352),
far beyond the model's clock, and in the parser's lengths, which are modelled.

## Plan

Done: `Poller`, `CoroLock`, `Dispatcher`, `Tasks`, `HttpServer`, `TlsSocket` and `ConcurrentQueue`
with their proofs, `HttpParser`. Left, in order:

1. Proofs: the refinement of `AbstractQueue`, on top of `BlocksInv`: what the slots of an item's
   block hold between the enqueue that writes them and the dequeue that moves them.
2. An abstract specification of a wait (created, then one of resumed and interrupted,
   once) that `Poller` implements.
3. `EventLoopGroup`'s ids and their reuse; the data race of `ConditionCore::DeRegister`;
   `HttpClient`.
