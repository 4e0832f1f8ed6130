------------------------------- MODULE Poller -------------------------------
(***************************************************************************)
(* One event loop of libarc: the epoll Poller, the EventLoop turn around   *)
(* it (InitDo, Do, Trim, IsDone), the awaiters that put events into it and *)
(* the cancellation token and the notifiers that reach it from other       *)
(* threads.                                                                *)
(*                                                                         *)
(* The loop thread is a small program counter, pc.  Other threads only     *)
(* ever enter through TriggerUserEvent, TriggerBoundEvent and the eventfd  *)
(* write of the dispatcher, each a critical section of poller_lock_; the   *)
(* loop thread holds that lock exactly while pc = "bound" (the second half *)
(* of WaitEvents), and otherwise takes it for one action at a time.        *)
(*                                                                         *)
(* An event is named by the wait it stands for.  EventIDs come from a      *)
(* counter and are never reused, so a wait is created at most once and its *)
(* name is its id; the bound event (timeout or cancellation) that guards a *)
(* wait is named by that same id, which is its bound_event_id_.            *)
(***************************************************************************)
EXTENDS Integers, Sequences, FiniteSets, Functions

CONSTANTS
  Fds,          \* socket descriptors
  NoFd,         \* none of them
  HighFds,      \* those at or above kMaxFdInArray_, kept in extra_io_events_
  HupFds,       \* those the kernel may report with neither EPOLLIN nor EPOLLOUT
  IOWaits, UserWaits, Sleeps,     \* the waits a run may create, by kind
  Aborts,       \* how a wait may be guarded
  Delays,       \* sleep and timeout durations
  Closing,      \* TRUE: coroutines may destroy sockets
  Dispatching,  \* TRUE: the loop may register as a dispatcher consumer
  MaxPerWait,   \* kMaxEventsSizePerWait
  MaxTime       \* bound on the clock

Waits  == IOWaits \cup UserWaits \cup Sleeps
IOType == {"READ", "WRITE"}
Never  == -1

ASSUME PollerAssumption ==
  /\ NoFd \notin Fds /\ HighFds \subseteq Fds /\ HupFds \subseteq Fds
  /\ IOWaits \cap UserWaits = {} /\ IOWaits \cap Sleeps = {}
  /\ UserWaits \cap Sleeps = {}
  /\ Aborts \subseteq {"none", "token", "timeout"}
  /\ Delays \subseteq Nat
  /\ Closing \in BOOLEAN /\ Dispatching \in BOOLEAN
  /\ MaxPerWait \in Nat \ {0} /\ MaxTime \in Nat

VARIABLES
  pc,                  \* where the loop thread is
  now,                 \* steady clock, milliseconds
  \* io events
  io_events, io_prev_events, interesting_fds, total_io_events,
  epoll_set,           \* the kernel's interest list for the sockets
  \* time events
  time_events, next_wait,
  \* user events; user_event_fd = TRUE: the eventfd's counter is positive
  user_event_fd, is_event_fd_added,
  pending_user_events, triggered_user_events, user_events,
  \* bound events; pending_bound_events is the list and its token map
  pending_bound_events, triggered_bound_events,
  is_dispatcher_registered,
  \* WaitEvents' locals, the loop's todo array, the events with is_interrupted_
  hits, is_user_event_triggered, need_to_write_again, todo_events, interrupted,
  \* await_suspend and RemoveAllIOEvents in progress
  arming, closing, need_epoll_ctl,
  \* the cancellation token: registered_events_pairs_, and its lock held by Cancel
  registered, cancelling,
  \* history: the waits created, those TriggerUserEvent was called for and those
  \* it moved, those Cancel reached, the resumptions, and each wait's deadline
  created, notified, fired, cancelled, resumes, deadline

ioVars    == <<io_events, io_prev_events, interesting_fds, total_io_events, epoll_set>>
timeVars  == <<time_events, next_wait>>
userVars  == <<user_event_fd, is_event_fd_added, pending_user_events,
               triggered_user_events, user_events>>
boundVars == <<pending_bound_events, triggered_bound_events>>
waitVars  == <<hits, is_user_event_triggered, need_to_write_again>>
todoVars  == <<todo_events, interrupted>>
coVars    == <<arming, closing, need_epoll_ctl>>
tokenVars == <<registered, cancelling>>
histVars  == <<created, notified, fired, cancelled, resumes, deadline>>
vars == <<pc, now, ioVars, timeVars, userVars, boundVars, is_dispatcher_registered,
          waitVars, todoVars, coVars, tokenVars, histVars>>

NoHits   == [f \in Fds |-> {}]

Init ==
  /\ pc = "run" /\ now = 0
  /\ io_events = [f \in Fds |-> [t \in IOType |-> <<>>]]
  /\ io_prev_events = NoHits /\ epoll_set = NoHits
  /\ interesting_fds = {} /\ total_io_events = 0
  /\ time_events = {} /\ next_wait = -1
  /\ user_event_fd = FALSE /\ is_event_fd_added = FALSE
  /\ pending_user_events = {} /\ triggered_user_events = <<>> /\ user_events = {}
  /\ pending_bound_events = {} /\ triggered_bound_events = <<>>
  /\ is_dispatcher_registered = FALSE
  /\ hits = NoHits /\ is_user_event_triggered = FALSE /\ need_to_write_again = FALSE
  /\ todo_events = <<>> /\ interrupted = {}
  /\ arming = {} /\ closing = NoFd /\ need_epoll_ctl = FALSE
  /\ registered = <<>> /\ cancelling = FALSE
  /\ created = {} /\ notified = {} /\ fired = {} /\ cancelled = {}
  /\ resumes = [e \in Waits |-> 0] /\ deadline = [e \in Waits |-> Never]

-----------------------------------------------------------------------------
(* Coroutine code: what a running coroutine does to its loop.  pc is "run" *)
(* while the turn's own coroutines run and "nested" while RemoveAllIOEvents *)
(* resumes one from inside a socket's destructor.                          *)

Running == pc \in {"run", "nested"} /\ arming = {}

\* An awaiter's abort_handle_; a deadline is computed by its constructor.
AbortHandles ==
  {h \in [kind : Aborts, at : {Never} \cup 0 .. MaxTime] :
     IF h.kind = "timeout" THEN \E d \in Delays : h.at = now + d ELSE h.at = Never}

\* AddBoundEvent as the awaiters reach it: with a deadline in time_events_, or
\* from SetEventAndLoop under the token's lock, which Cancel holds on its walk.
AddBoundEvent(e, abort) ==
  /\ deadline' = [deadline EXCEPT ![e] = abort.at]
  /\ \/ /\ abort.kind = "none"
        /\ UNCHANGED <<pending_bound_events, time_events, registered>>
     \/ /\ abort.kind = "token" /\ ~cancelling
        /\ registered' = Append(registered, e)
        /\ pending_bound_events' = pending_bound_events \cup {e}
        /\ UNCHANGED time_events
     \/ /\ abort.kind = "timeout"
        /\ pending_bound_events' = pending_bound_events \cup {e}
        /\ time_events' = time_events \cup
             {[id |-> e, wake |-> abort.at, trigger |-> TRUE, valid |-> TRUE]}
        /\ UNCHANGED registered

\* IOAwaiter::await_suspend with Poller::AddIOEvent
AddIOEvent(e, f, t, abort) ==
  /\ Running /\ f # closing
  /\ e \in IOWaits \ created
  /\ created' = created \cup {e}
  /\ total_io_events' = total_io_events + 1
  /\ interesting_fds' = interesting_fds \cup {f}
  /\ io_events' = [io_events EXCEPT ![f][t] = Append(@, e)]
  /\ AddBoundEvent(e, abort)
  /\ UNCHANGED <<pc, now, io_prev_events, epoll_set, next_wait, userVars,
                 triggered_bound_events, is_dispatcher_registered, waitVars,
                 todoVars, coVars, cancelling, notified, fired, cancelled,
                 resumes>>

\* TimeAwaiter::await_suspend with Poller::AddTimeEvent
AddTimeEvent(e, d) ==
  /\ Running
  /\ e \in Sleeps \ created /\ now + d <= MaxTime
  /\ created' = created \cup {e}
  /\ deadline' = [deadline EXCEPT ![e] = now + d]
  /\ time_events' = time_events \cup
       {[id |-> e, wake |-> now + d, trigger |-> FALSE, valid |-> TRUE]}
  /\ UNCHANGED <<pc, now, ioVars, next_wait, userVars, boundVars,
                 is_dispatcher_registered, waitVars, todoVars, coVars,
                 tokenVars, notified, fired, cancelled, resumes>>

\* ConditionAwaiter, LockAwaiter and ExecutorAwaiter::await_suspend with
\* Poller::AddUserEvent.  Other threads can reach the event from here on, before
\* its bound event is added: arming holds what is still to be added.
AddUserEvent(e, abort) ==
  /\ Running
  /\ e \in UserWaits \ created
  /\ created' = created \cup {e}
  /\ pending_user_events' = pending_user_events \cup {e}
  /\ user_events' = user_events \cup {e}
  /\ arming' = IF abort.kind = "none" THEN {} ELSE {<<e, abort>>}
  /\ UNCHANGED <<pc, now, ioVars, timeVars, user_event_fd, is_event_fd_added,
                 triggered_user_events, boundVars, is_dispatcher_registered,
                 waitVars, todoVars, closing, need_epoll_ctl, tokenVars,
                 notified, fired, cancelled, resumes, deadline>>

ArmUserEvent ==
  \E a \in arming :
    /\ AddBoundEvent(a[1], a[2])
    /\ arming' = {}
    /\ UNCHANGED <<pc, now, ioVars, next_wait, userVars, triggered_bound_events,
                   is_dispatcher_registered, waitVars, todoVars, closing,
                   need_epoll_ctl, cancelling, created, notified, fired,
                   cancelled, resumes>>

\* Poller::Register and DeRegister, from ResigerConsumer and DeResigerConsumer
Register(b) ==
  /\ Dispatching /\ pc = "run" /\ arming = {}
  /\ is_dispatcher_registered # b
  /\ is_dispatcher_registered' = b
  /\ UNCHANGED <<pc, now, ioVars, timeVars, userVars, boundVars, waitVars,
                 todoVars, coVars, tokenVars, histVars>>

\* The coroutine suspends or returns; Do resumes the next event or trims.
Suspend ==
  /\ pc = "run" /\ arming = {}
  /\ pc' = IF todo_events = <<>> THEN "trim" ELSE "resume"
  /\ UNCHANGED <<now, ioVars, timeVars, userVars, boundVars,
                 is_dispatcher_registered, waitVars, todoVars, coVars,
                 tokenVars, histVars>>

-----------------------------------------------------------------------------
(* Socket's destructor: RemoveAllIOEvents and then close.  The queues are  *)
(* walked front to back, READ before WRITE, and each waiting coroutine is  *)
(* resumed from inside the walk, its event still at the front.  The        *)
(* coroutine so resumed does not wait on the descriptor being closed.      *)

\* GetExistingIOEvent
Existing(f) == {t \in IOType : io_events[f][t] # <<>>}

\* The queue the walk is in, and the event it is at.
ClosingType  == IF "READ" \in Existing(closing) THEN "READ" ELSE "WRITE"
ClosingEvent == Head(io_events[closing][ClosingType])

\* Mutant: io_prev_events_ is not reset for any descriptor.
RemoveAllIOEventsKeepsPrev(f) ==
  /\ Closing /\ pc = "run" /\ arming = {}
  /\ closing' = f /\ pc' = "closing"
  /\ UNCHANGED <<now, ioVars, timeVars, userVars, boundVars,
                 is_dispatcher_registered, waitVars, todoVars, arming,
                 need_epoll_ctl, tokenVars, histVars>>

\* A high descriptor keeps its entry in extra_io_prev_events_: erase(0).
RemoveAllIOEvents(f) ==
  /\ Closing /\ pc = "run" /\ arming = {}
  /\ closing' = f /\ pc' = "closing"
  /\ io_prev_events' = IF f \in HighFds THEN io_prev_events
                                        ELSE [io_prev_events EXCEPT ![f] = {}]
  /\ UNCHANGED <<now, io_events, interesting_fds, total_io_events, epoll_set,
                 timeVars, userVars, boundVars, is_dispatcher_registered,
                 waitVars, todoVars, arming, need_epoll_ctl, tokenVars, histVars>>

\* (*itr)->Resume() inside the walk
CloseResume ==
  /\ pc = "closing" /\ Existing(closing) # {}
  /\ pc' = "nested" /\ need_epoll_ctl' = TRUE
  /\ resumes' = [resumes EXCEPT ![ClosingEvent] = @ + 1]
  /\ UNCHANGED <<now, ioVars, timeVars, userVars, boundVars,
                 is_dispatcher_registered, waitVars, todoVars, arming, closing,
                 tokenVars, created, notified, fired, cancelled, deadline>>

\* The coroutine suspended or returned: its event leaves the queue.  A bound
\* event that guards it stays behind.
CloseErase ==
  /\ pc = "nested" /\ arming = {}
  /\ pc' = "closing"
  /\ io_events' = [io_events EXCEPT ![closing][ClosingType] = Tail(@)]
  /\ total_io_events' = total_io_events - 1
  /\ UNCHANGED <<now, io_prev_events, interesting_fds, epoll_set, timeVars,
                 userVars, boundVars, is_dispatcher_registered, waitVars,
                 todoVars, coVars, tokenVars, histVars>>

\* EPOLL_CTL_DEL fails when the descriptor is not in the interest list, and
\* the exception leaves a destructor.  close takes it out of the list anyway.
CloseEnd ==
  /\ pc = "closing" /\ Existing(closing) = {}
  /\ pc' = IF need_epoll_ctl /\ epoll_set[closing] = {} THEN "failed" ELSE "run"
  /\ interesting_fds' = interesting_fds \ {closing}
  /\ epoll_set' = [epoll_set EXCEPT ![closing] = {}]
  /\ closing' = NoFd /\ need_epoll_ctl' = FALSE
  /\ UNCHANGED <<now, io_events, io_prev_events, total_io_events, timeVars,
                 userVars, boundVars, is_dispatcher_registered, waitVars,
                 todoVars, arming, tokenVars, histVars>>

-----------------------------------------------------------------------------
(* EventLoop::Do and Trim.                                                 *)

\* todo_events_[i]->Resume()
Resume ==
  /\ pc = "resume"
  /\ resumes' = [resumes EXCEPT ![Head(todo_events)] = @ + 1]
  /\ todo_events' = Tail(todo_events)
  /\ pc' = "run"
  /\ UNCHANGED <<now, ioVars, timeVars, userVars, boundVars,
                 is_dispatcher_registered, waitVars, interrupted, coVars,
                 tokenVars, created, notified, fired, cancelled, deadline>>

\* The descriptors whose interest set TrimIOEvents rewrites, and those of them
\* for which epoll_ctl fails: ADD of a member, MOD or DEL of a non-member.
Stale      == {f \in interesting_fds : Existing(f) # io_prev_events[f]}
CtlFailing == {f \in Stale : (io_prev_events[f] = {}) # (epoll_set[f] = {})}

TrimIOEvents ==
  /\ io_prev_events' = [f \in Fds |-> IF f \in Stale THEN Existing(f)
                                                     ELSE io_prev_events[f]]
  /\ epoll_set' = [f \in Fds |-> IF f \in Stale THEN Existing(f) ELSE epoll_set[f]]
  /\ UNCHANGED <<io_events, interesting_fds, total_io_events>>

\* The events that can be on top of the time_events_ heap.
Earliest(evs) == {ev \in evs : \A o \in evs : ev.wake <= o.wake}

\* Mutant: the wait is not bounded by the earliest time event.
TrimTimeEventsUnbounded == next_wait' = -1 /\ UNCHANGED time_events

\* TrimTimeEvents: invalid events leave the heap while one of them is on top.
TrimTimeEvents ==
  \E gone \in SUBSET {ev \in time_events : ~ev.valid} :
    LET left == time_events \ gone
    IN  /\ \A ev \in gone, o \in left : ev.wake <= o.wake
        /\ left = {} \/ \E ev \in Earliest(left) : ev.valid
        /\ time_events' = left
        /\ next_wait' = IF left = {} THEN -1
                        ELSE LET wake == (CHOOSE ev \in Earliest(left) : TRUE).wake
                             IN  IF wake > now THEN wake ELSE now

\* Mutant: an event that was triggered already no longer counts.
ShouldAddEpollPending == pending_user_events # {} \/ is_dispatcher_registered

\* TrimUserEvents' should_add_epoll: bound events do not count.
ShouldAddEpoll == \/ pending_user_events # {}
                  \/ triggered_user_events # <<>>
                  \/ is_dispatcher_registered

IsPollerDone(timers) ==
  /\ total_io_events = 0 /\ timers = {}
  /\ pending_user_events = {} /\ triggered_user_events = <<>>
  /\ pending_bound_events = {} /\ triggered_bound_events = <<>>
  /\ ~is_dispatcher_registered

\* Trim, and IsDone, by which RunUntilComplete leaves its loop
Trim ==
  /\ pc = "trim" /\ CtlFailing = {}
  /\ TrimIOEvents
  /\ TrimTimeEvents
  /\ is_event_fd_added' = ShouldAddEpoll
  /\ pc' = IF IsPollerDone(time_events') THEN "done" ELSE "wait"
  /\ UNCHANGED <<now, user_event_fd, pending_user_events, triggered_user_events,
                 user_events, boundVars, is_dispatcher_registered, waitVars,
                 todoVars, coVars, tokenVars, histVars>>

TrimFails ==
  /\ pc = "trim" /\ CtlFailing # {}
  /\ pc' = "failed"
  /\ UNCHANGED <<now, ioVars, timeVars, userVars, boundVars,
                 is_dispatcher_registered, waitVars, todoVars, coVars,
                 tokenVars, histVars>>

-----------------------------------------------------------------------------
(* Poller::WaitEvents.                                                     *)

HasRoom(todo) == Len(todo) < MaxPerWait

\* epoll_wait (external) returns at most MaxPerWait of the ready descriptors: the
\* eventfd if it is readable and in the interest list, sockets as the peer
\* pleases; or nothing, once next_wait_timeout_ is over.
Readable == user_event_fd /\ is_event_fd_added
TimedOut == next_wait # -1 /\ now >= next_wait

EpollWait ==
  /\ pc = "wait"
  /\ \E h \in [Fds -> SUBSET IOType] :
       LET ready == {f \in Fds : h[f] # {}}
       IN  /\ \A f \in Fds : h[f] \subseteq epoll_set[f]
           /\ ready # {} \/ Readable \/ TimedOut
           /\ Cardinality(ready) <= MaxPerWait
           /\ hits' = h
           /\ is_user_event_triggered' = /\ Readable
                                         /\ Cardinality(ready) < MaxPerWait
  /\ pc' = "io"
  /\ UNCHANGED <<now, ioVars, timeVars, userVars, boundVars,
                 is_dispatcher_registered, need_to_write_again, todoVars, coVars,
                 tokenVars, histVars>>

\* A signal ends an epoll_wait that blocks (external): event_cnt is -1 and no
\* descriptor is looked at.
Signal ==
  /\ pc = "wait" /\ ~Readable /\ ~TimedOut
  /\ pc' = "io"
  /\ UNCHANGED <<now, ioVars, timeVars, userVars, boundVars,
                 is_dispatcher_registered, waitVars, todoVars, coVars,
                 tokenVars, histVars>>

\* A descriptor reported with neither EPOLLIN nor EPOLLOUT: WaitEvents throws.
Unsupported ==
  /\ pc = "wait" /\ \E f \in HupFds : epoll_set[f] # {}
  /\ pc' = "failed"
  /\ UNCHANGED <<now, ioVars, timeVars, userVars, boundVars,
                 is_dispatcher_registered, waitVars, todoVars, coVars,
                 tokenVars, histVars>>

\* Mutant: the event is handed out and stays in its queue.
PopIOEventKeeps(f) ==
  /\ pc = "io" /\ hits[f] # {}
  /\ LET heads == [t \in IOType |->
                     IF t \in hits[f] THEN <<Head(io_events[f][t])>> ELSE <<>>]
     IN  todo_events' = todo_events \o heads["READ"] \o heads["WRITE"]
  /\ interesting_fds' = interesting_fds \cup {f}
  /\ hits' = [hits EXCEPT ![f] = {}]
  /\ UNCHANGED <<pc, now, io_events, io_prev_events, total_io_events, epoll_set,
                 timeVars, userVars, boundVars, is_dispatcher_registered,
                 is_user_event_triggered, need_to_write_again, interrupted, coVars,
                 tokenVars, histVars>>

\* PopIOEvent for what one descriptor reported: READ first, then WRITE.
PopIOEvent(f) ==
  /\ pc = "io" /\ hits[f] # {}
  /\ LET heads == [t \in IOType |->
                     IF t \in hits[f] THEN <<Head(io_events[f][t])>> ELSE <<>>]
     IN  todo_events' = todo_events \o heads["READ"] \o heads["WRITE"]
  /\ io_events' = [io_events EXCEPT ![f] = [t \in IOType |->
                     IF t \in hits[f] THEN Tail(@[t]) ELSE @[t]]]
  /\ total_io_events' = total_io_events - Cardinality(hits[f])
  /\ interesting_fds' = interesting_fds \cup {f}
  /\ hits' = [hits EXCEPT ![f] = {}]
  /\ UNCHANGED <<pc, now, io_prev_events, epoll_set, timeVars, userVars,
                 boundVars, is_dispatcher_registered, is_user_event_triggered,
                 need_to_write_again, interrupted, coVars, tokenVars, histVars>>

\* The time events are looked at only when the io events left room.
IODone ==
  /\ pc = "io" /\ hits = NoHits
  /\ pc' = IF HasRoom(todo_events) THEN "timers" ELSE "lock"
  /\ UNCHANGED <<now, ioVars, timeVars, userVars, boundVars,
                 is_dispatcher_registered, waitVars, todoVars, coVars,
                 tokenVars, histVars>>

\* Mutant: the loop is not woken.
TriggerBoundEventSilent(e) ==
  /\ pending_bound_events' = pending_bound_events \ {e}
  /\ triggered_bound_events' = IF e \in pending_bound_events
                               THEN Append(triggered_bound_events, e)
                               ELSE triggered_bound_events
  /\ UNCHANGED user_event_fd

\* TriggerBoundEvent, a critical section of poller_lock_: nothing happens unless
\* the token map still has the event.
TriggerBoundEvent(e) ==
  \/ /\ e \in pending_bound_events
     /\ pending_bound_events' = pending_bound_events \ {e}
     /\ triggered_bound_events' = Append(triggered_bound_events, e)
     /\ user_event_fd' = TRUE
  \/ /\ e \notin pending_bound_events
     /\ UNCHANGED <<boundVars, user_event_fd>>

\* Mutant: the deadline is not compared with the clock.
DueEarly(ev) == ev.valid /\ HasRoom(todo_events)

\* One round of the time event loop: ev is on top of the heap.
Due(ev) == ev.valid /\ HasRoom(todo_events) /\ now >= ev.wake

TimerStep ==
  /\ pc = "timers"
  /\ \E ev \in Earliest(time_events) :
       /\ ev.valid => Due(ev)
       /\ time_events' = time_events \ {ev}
       /\ \/ /\ ~ev.valid
             /\ UNCHANGED <<todo_events, boundVars, user_event_fd>>
          \/ /\ ev.valid /\ ev.trigger
             /\ TriggerBoundEvent(ev.id)
             /\ UNCHANGED todo_events
          \/ /\ ev.valid /\ ~ev.trigger
             /\ todo_events' = Append(todo_events, ev.id)
             /\ UNCHANGED <<boundVars, user_event_fd>>
  /\ UNCHANGED <<pc, now, ioVars, next_wait, is_event_fd_added,
                 pending_user_events, triggered_user_events, user_events,
                 is_dispatcher_registered, waitVars, interrupted, coVars,
                 tokenVars, histVars>>

TimersDone ==
  /\ pc = "timers"
  /\ time_events = {} \/ \E ev \in Earliest(time_events) : ev.valid /\ ~Due(ev)
  /\ pc' = "lock"
  /\ UNCHANGED <<now, ioVars, timeVars, userVars, boundVars,
                 is_dispatcher_registered, waitVars, todoVars, coVars,
                 tokenVars, histVars>>

\* Mutants: the timeout stays valid; the bound event stays pending.
RemoveBoundEventKeepsTimer(ids) ==
  /\ pending_bound_events' = pending_bound_events \ ids
  /\ UNCHANGED time_events

RemoveBoundEventKeepsPending(ids) == UNCHANGED <<pending_bound_events, time_events>>

\* RemoveBoundEvent for the events the turn resumes anyway: a timeout of theirs
\* stays in the heap, invalid.
RemoveBoundEvent(ids) ==
  LET bounds == pending_bound_events \cap ids
  IN  /\ pending_bound_events' = pending_bound_events \ bounds
      /\ time_events' = {IF ev.trigger /\ ev.id \in bounds
                         THEN [ev EXCEPT !.valid = FALSE] ELSE ev : ev \in time_events}

\* The loop takes poller_lock_, reads the eventfd and the triggered user events
\* there is room for, and drops the bound events of what it took.
CollectUserEvents ==
  /\ pc = "lock"
  /\ LET room  == IF HasRoom(todo_events) THEN MaxPerWait - Len(todo_events) ELSE 0
         count == CHOOSE n \in 0 .. Len(triggered_user_events) :
                    /\ n <= room
                    /\ n = room \/ n = Len(triggered_user_events)
         taken == IF is_user_event_triggered
                  THEN SubSeq(triggered_user_events, 1, count) ELSE <<>>
     IN  /\ todo_events' = todo_events \o taken
         /\ triggered_user_events' = SubSeq(triggered_user_events, Len(taken) + 1,
                                            Len(triggered_user_events))
         /\ user_events' = user_events \ Range(taken)
         /\ need_to_write_again' = /\ is_user_event_triggered
                                   /\ count < Len(triggered_user_events)
         /\ user_event_fd' = (user_event_fd /\ ~is_user_event_triggered)
         /\ RemoveBoundEvent(Range(todo_events'))
  /\ pc' = "bound" /\ is_user_event_triggered' = FALSE
  /\ UNCHANGED <<now, ioVars, next_wait, is_event_fd_added, pending_user_events,
                 triggered_bound_events, is_dispatcher_registered, hits,
                 interrupted, coVars, tokenVars, histVars>>

\* PopBoundEvent of an io event: vec.erase(itr) and then *itr, an iterator the
\* erasure invalidated.  What it reads is what the deque moved there: the event
\* itself at either end, a neighbour otherwise.
AfterErase(q, i) == IF i \in {1, Len(q)} THEN {q[i]} ELSE {q[i - 1], q[i + 1]}
Without(q, i)    == SubSeq(q, 1, i - 1) \o SubSeq(q, i + 1, Len(q))

PopBoundIOEvent(e) ==
  \E f \in Fds, t \in IOType : \E i \in DOMAIN io_events[f][t] :
    /\ io_events[f][t][i] = e
    /\ interesting_fds' = interesting_fds \cup {f}
    /\ total_io_events' = total_io_events - (IF f \in HighFds THEN 0 ELSE 1)
    /\ io_events' = [io_events EXCEPT ![f][t] = Without(@, i)]
    /\ \E popped \in AfterErase(io_events[f][t], i) :
         /\ interrupted' = interrupted \cup {popped}
         /\ todo_events' = Append(todo_events, popped)
    /\ UNCHANGED <<pending_user_events, user_events>>

PopBoundUserEvent(e) ==
  /\ e \in pending_user_events
  /\ pending_user_events' = pending_user_events \ {e}
  /\ user_events' = user_events \ {e}
  /\ interrupted' = interrupted \cup {e}
  /\ todo_events' = Append(todo_events, e)
  /\ UNCHANGED <<io_events, interesting_fds, total_io_events>>

\* The io events in the queues of their descriptors.
Queued == UNION {Range(io_events[f][t]) : f \in Fds, t \in IOType}

\* One round of the bound event loop.
PopBoundEvent ==
  /\ pc = "bound" /\ triggered_bound_events # <<>> /\ HasRoom(todo_events)
  /\ LET e == Head(triggered_bound_events)
     IN  \/ PopBoundIOEvent(e)
         \/ PopBoundUserEvent(e)
         \/ /\ e \notin Queued \cup pending_user_events
            /\ UNCHANGED <<io_events, interesting_fds, total_io_events,
                           pending_user_events, user_events, todoVars>>
  /\ triggered_bound_events' = Tail(triggered_bound_events)
  /\ UNCHANGED <<pc, now, io_prev_events, epoll_set, timeVars, user_event_fd,
                 is_event_fd_added, triggered_user_events, pending_bound_events,
                 is_dispatcher_registered, waitVars, coVars, tokenVars, histVars>>

\* What did not fit is announced again through the eventfd.  The lock goes.
WriteAgain == need_to_write_again \/ triggered_bound_events # <<>>

EndWait ==
  /\ pc = "bound" /\ ~(triggered_bound_events # <<>> /\ HasRoom(todo_events))
  /\ user_event_fd' = (user_event_fd \/ WriteAgain)
  /\ need_to_write_again' = FALSE
  /\ pc' = IF todo_events = <<>> THEN "trim" ELSE "resume"
  /\ UNCHANGED <<now, ioVars, timeVars, is_event_fd_added, pending_user_events,
                 triggered_user_events, user_events, boundVars,
                 is_dispatcher_registered, hits, is_user_event_triggered,
                 todoVars, coVars, tokenVars, histVars>>

-----------------------------------------------------------------------------
(* Other threads, and coroutines of this loop that notify or cancel.  Each *)
(* step is a critical section of poller_lock_.                             *)

Unlocked == pc \notin {"bound", "done", "failed"}

\* TriggerUserEvent, as LockCore, ConditionCore and the thread pool call it:
\* at most once for an event.
TriggerUserEvent(e) ==
  /\ Unlocked
  /\ e \in (UserWaits \cap created) \ notified
  /\ notified' = notified \cup {e}
  /\ \/ /\ e \in user_events
        /\ pending_user_events' = pending_user_events \ {e}
        /\ triggered_user_events' = Append(triggered_user_events, e)
        /\ user_event_fd' = TRUE
        /\ fired' = fired \cup {e}
     \/ /\ e \notin user_events
        /\ UNCHANGED <<pending_user_events, triggered_user_events, user_event_fd,
                       fired>>
  /\ UNCHANGED <<pc, now, ioVars, timeVars, is_event_fd_added, user_events,
                 boundVars, is_dispatcher_registered, waitVars, todoVars, coVars,
                 tokenVars, created, cancelled, resumes, deadline>>

\* One round of TriggerCancel; the token's lock is held until the list is empty.
Cancel ==
  /\ Unlocked /\ registered # <<>>
  /\ TriggerBoundEvent(Head(registered))
  /\ cancelled' = cancelled \cup {Head(registered)}
  /\ registered' = Tail(registered)
  /\ cancelling' = (Tail(registered) # <<>>)
  /\ UNCHANGED <<pc, now, ioVars, timeVars, is_event_fd_added,
                 pending_user_events, triggered_user_events, user_events,
                 is_dispatcher_registered, waitVars, todoVars, coVars, created,
                 notified, fired, resumes, deadline>>

\* CoroutineDispatcher::NotifyEventLoop
NotifyEventLoop ==
  /\ Unlocked /\ is_dispatcher_registered /\ ~user_event_fd
  /\ user_event_fd' = TRUE
  /\ UNCHANGED <<pc, now, ioVars, timeVars, is_event_fd_added,
                 pending_user_events, triggered_user_events, user_events,
                 boundVars, is_dispatcher_registered, waitVars, todoVars, coVars,
                 tokenVars, histVars>>

\* The clock is read only where a deadline is set, compared or waited for.
Tick ==
  /\ pc \in {"run", "wait"} /\ now < MaxTime
  /\ now' = now + 1
  /\ UNCHANGED <<pc, ioVars, timeVars, userVars, boundVars,
                 is_dispatcher_registered, waitVars, todoVars, coVars,
                 tokenVars, histVars>>

Terminated == pc \in {"done", "failed"} /\ UNCHANGED vars

Coroutine ==
  \/ \E e \in IOWaits, f \in Fds, t \in IOType, a \in AbortHandles : AddIOEvent(e, f, t, a)
  \/ \E e \in Sleeps, d \in Delays : AddTimeEvent(e, d)
  \/ \E e \in UserWaits, a \in AbortHandles : AddUserEvent(e, a)
  \/ \E b \in BOOLEAN : Register(b)
  \/ \E f \in Fds : RemoveAllIOEvents(f)

\* The steps the loop thread takes without waiting for anyone.
Loop ==
  \/ ArmUserEvent \/ Suspend \/ CloseResume \/ CloseErase \/ CloseEnd
  \/ Resume \/ Trim \/ TrimFails
  \/ \E f \in Fds : PopIOEvent(f)
  \/ IODone \/ TimerStep \/ TimersDone
  \/ CollectUserEvents \/ PopBoundEvent \/ EndWait

Next ==
  \/ Coroutine \/ Loop \/ EpollWait \/ Signal \/ Unsupported
  \/ \E e \in UserWaits : TriggerUserEvent(e)
  \/ Cancel \/ NotifyEventLoop \/ Tick \/ Terminated

Spec == Init /\ [][Next]_vars

\* The loop thread is scheduled, epoll_wait returns once it has a reason to, time
\* passes and a Cancel that began goes on.  No peer has to send anything, and no
\* signal has to arrive.
Fairness == /\ WF_vars(Loop) /\ WF_vars((Readable \/ TimedOut) /\ EpollWait)
            /\ WF_vars(Tick) /\ WF_vars(cancelling /\ Cancel)
FairSpec == Spec /\ Fairness

-----------------------------------------------------------------------------
(* Properties.                                                             *)

\* The places an event can be in; the front event of a walk that is running its
\* coroutine counts as resumed.
InQueues(e) == e \in Queued /\ ~(pc = "nested" /\ e = ClosingEvent)
InHeap(e)   == \E ev \in time_events : ev.id = e /\ ~ev.trigger
Places(e) ==
  {p \in {"io", "time", "pending", "triggered", "todo"} :
     CASE p = "io"        -> InQueues(e)
       [] p = "time"      -> InHeap(e)
       [] p = "pending"   -> e \in pending_user_events
       [] p = "triggered" -> e \in Range(triggered_user_events)
       [] p = "todo"      -> e \in Range(todo_events)}

\* Every wait is in exactly one place until its coroutine is resumed, once: no
\* race of readiness, notification, cancellation, timeout and close loses an
\* event or resumes its coroutine a second time.
OneHome == \A e \in created : Cardinality(Places(e)) + resumes[e] = 1

\* A coroutine is told it was interrupted only if it was: its deadline passed or
\* its token was cancelled, and no notification had been accepted for it.
InterruptTruthful ==
  \A e \in interrupted :
    /\ e \notin fired
    /\ e \in cancelled \/ (deadline[e] # Never /\ deadline[e] <= now)

\* Whenever the loop blocks in epoll_wait the kernel watches exactly what some
\* coroutine waits for on a low descriptor, and total_io_events_, which keeps the loop
\* alive, counts all socket waits: no wait is deaf or forgotten, and no report finds an
\* empty queue.  Only waits that were interrupted on a high descriptor stay counted.
QueuedWaits == Cardinality(Queued)
Uncounted == IF HighFds = {} THEN 0 ELSE Cardinality(interrupted \cap IOWaits)
EpollInSync ==
  pc = "wait" =>
    /\ \A f \in Fds \ HighFds : epoll_set[f] = Existing(f)
    /\ total_io_events \in QueuedWaits .. (QueuedWaits + Uncounted)

\* A notified coroutine is never left behind an eventfd that is not readable, or
\* that the blocking loop does not watch.
NoLostWakeup ==
  triggered_user_events # <<>> =>
    /\ user_event_fd \/ need_to_write_again
    /\ pc = "wait" => is_event_fd_added

\* A timeout is armed in the heap exactly as long as its bound event is pending:
\* one that lost the race neither fires later nor keeps the loop waiting.
TimeoutsArmed ==
  {ev.id : ev \in {x \in time_events : x.trigger /\ x.valid}}
    = {e \in pending_bound_events : deadline[e] # Never}

\* A coroutine whose event TriggerUserEvent accepted, or whose wait for a user event
\* is cancelled, runs again: the eventfd write reaches a loop that watches it,
\* whatever else the turn had to do.
WokenResumes == \A e \in UserWaits : e \in fired \cup cancelled ~> resumes[e] = 1

\* A coroutine whose sleep or timeout is over runs again.
ExpiredResumes ==
  \A e \in Waits : (deadline[e] # Never /\ deadline[e] <= now) ~> resumes[e] = 1

\* A coroutine that waits on a socket and whose token is cancelled runs again:
\* TriggerBoundEvent writes the eventfd to wake the loop.
CancelledIOResumes == \A e \in IOWaits : e \in cancelled ~> resumes[e] = 1

\* Once every coroutine has run, RunUntilComplete returns: no event that lost its
\* race keeps the loop in epoll_wait.
LoopEnds == (created = Waits /\ \A e \in Waits : resumes[e] = 1) ~> pc = "done"
=============================================================================
