---------------------------- MODULE PollerProofs ----------------------------
(***************************************************************************)
(* Poller for every set of descriptors and waits, every kMaxEventsSizePer- *)
(* Wait and all durations.                                                 *)
(*                                                                         *)
(* A loop may block only if whatever could have woken it has been seen or  *)
(* will be.  The steps of one turn share that duty, so the invariants say  *)
(* for each point of the turn who has it: Control (what the program        *)
(* counter says of the other variables), Watched (which interest sets are  *)
(* in step with the queues, and which descriptors TrimIOEvents has still   *)
(* to look at), Woken (who writes to the eventfd or takes the lists),      *)
(* Timers and Agree (a guarded wait has a timeout in the heap exactly as   *)
(* long as its bound event is pending, at its deadline).  The second part  *)
(* is about the places a wait can be in and the count of the waits.        *)
(***************************************************************************)
EXTENDS Poller, SequenceTheorems, FiniteSetTheorems, TLAPS

Counters == {"run", "nested", "closing", "resume", "trim", "wait", "io", "timers",
             "lock", "bound", "done", "failed"}
Handles    == [kind : {"none", "token", "timeout"}, at : Int]
TimeEvents == [id : Waits, wake : Int, trigger : BOOLEAN, valid : BOOLEAN]

IOTypes ==
  /\ io_events \in [Fds -> [IOType -> Seq(IOWaits)]]
  /\ io_prev_events \in [Fds -> SUBSET IOType] /\ epoll_set \in [Fds -> SUBSET IOType]
  /\ interesting_fds \subseteq Fds /\ total_io_events \in Int
TimeTypes == time_events \subseteq TimeEvents /\ next_wait \in Int /\ now \in Nat
UserTypes ==
  /\ user_event_fd \in BOOLEAN /\ is_event_fd_added \in BOOLEAN
  /\ pending_user_events \subseteq UserWaits /\ user_events \subseteq UserWaits
  /\ triggered_user_events \in Seq(UserWaits)
BoundTypes ==
  /\ pending_bound_events \subseteq Waits /\ triggered_bound_events \in Seq(Waits)
  /\ registered \in Seq(Waits) /\ cancelling \in BOOLEAN
LoopTypes ==
  /\ pc \in Counters /\ is_dispatcher_registered \in BOOLEAN
  /\ hits \in [Fds -> SUBSET IOType] /\ is_user_event_triggered \in BOOLEAN
  /\ need_to_write_again \in BOOLEAN
  /\ arming \subseteq UserWaits \X Handles /\ closing \in Fds \cup {NoFd}
  /\ need_epoll_ctl \in BOOLEAN
TodoTypes == todo_events \in Seq(Waits) /\ interrupted \subseteq Waits
HistTypes ==
  /\ created \subseteq Waits /\ notified \subseteq UserWaits /\ fired \subseteq UserWaits
  /\ cancelled \subseteq Waits /\ resumes \in [Waits -> Nat] /\ deadline \in [Waits -> Int]

TypeOK ==
  /\ IOTypes /\ TimeTypes /\ UserTypes /\ BoundTypes /\ LoopTypes /\ TodoTypes /\ HistTypes

\* Where the loop thread is tells what it has in hand.
Control ==
  /\ (pc \in {"closing", "nested"}) <=> (closing # NoFd)
  /\ pc = "nested" => Existing(closing) # {}
  /\ closing \in Fds \ HighFds => io_prev_events[closing] = {}
  /\ pc = "resume" => todo_events # <<>>
  /\ pc # "io" => hits = NoHits
  /\ arming # {} => pc \in {"run", "nested"}

\* epoll_ctl has told the kernel what io_prev_events_ says, and what is not to be looked
\* at again by TrimIOEvents is there; or the descriptor is a high one that was closed.
Synced(f) == /\ epoll_set[f] = io_prev_events[f]
             /\ f \in interesting_fds \/ Existing(f) = io_prev_events[f]
Deaf(f)   == f \in HighFds /\ epoll_set[f] = {}

\* The kernel watches, and reports, only what some coroutine waits for.
Watched ==
  /\ \A f \in Fds \ {closing} : Synced(f) \/ Deaf(f)
  /\ pc = "wait" => \A f \in Fds : epoll_set[f] = Existing(f) \/ Deaf(f)
  /\ \A f \in Fds : hits[f] \subseteq Existing(f)

\* A user event that can be triggered is pending or triggered, and whenever the loop
\* blocks with one the eventfd is watched; it is readable whenever something is
\* triggered, but for the turn that has read it and will write it again.
Woken ==
  /\ user_events \subseteq pending_user_events \cup Range(triggered_user_events)
  /\ pc = "wait" /\ (user_events # {} \/ triggered_user_events # <<>>)
       => is_event_fd_added
  /\ triggered_user_events # <<>> => user_event_fd \/ need_to_write_again
  /\ triggered_bound_events # <<>> => user_event_fd \/ pc = "bound"
  /\ need_to_write_again => pc = "bound"

\* Waits whose bound event, if they are to have one, has been added.
Armed == created \ {a[1] : a \in arming}

\* Bound events, their time events and registrations belong to armed waits; a wait has
\* one timeout at most, at its deadline, and none if a token guards it.
Timers ==
  /\ pending_bound_events \subseteq Armed
  /\ \A i \in DOMAIN registered : registered[i] \in Armed /\ deadline[registered[i]] = Never
  /\ \A ev \in time_events : ev.id \in Armed /\ ev.wake = deadline[ev.id]
  /\ \A ev, o \in time_events : ev.trigger /\ o.trigger /\ ev.id = o.id => ev = o
  /\ \A a \in arming : a[1] \in created /\ ((a[2].kind = "timeout") <=> (a[2].at # Never))
  /\ \A a, b \in arming : a = b

\* TimeoutsArmed, wait by wait.
ArmedTimeout(e) == \E ev \in time_events : ev.id = e /\ ev.trigger /\ ev.valid
Agree == \A e \in Waits : ArmedTimeout(e) <=> (e \in pending_bound_events /\ deadline[e] # Never)

-----------------------------------------------------------------------------
(* Which actions touch what.                                               *)

\* The actions that change the io events.
IOStep ==
  \/ \E e \in IOWaits, f \in Fds, t \in IOType, a \in AbortHandles : AddIOEvent(e, f, t, a)
  \/ \E f \in Fds : RemoveAllIOEvents(f)
  \/ CloseErase \/ CloseEnd \/ Trim \/ PopBoundEvent
  \/ \E f \in Fds : PopIOEvent(f)

\* Every other action leaves them alone.
LEMMA IOStepIs ==
  ASSUME [Next]_vars
  PROVE  IOStep \/ UNCHANGED ioVars
BY DEF Next, vars, Coroutine, Loop, IOStep, AddTimeEvent, AddUserEvent, Register,
       ArmUserEvent, Suspend, CloseResume, Resume, TrimFails, IODone, TimerStep,
       TimersDone, CollectUserEvents, EndWait, EpollWait, Signal, Unsupported,
       TriggerUserEvent, Cancel, NotifyEventLoop, Tick, Terminated

-----------------------------------------------------------------------------
(* The io events.                                                          *)

\* One queue of one descriptor changes: all others stay as they are.
LEMMA QueueUpdate ==
  ASSUME IOTypes, NEW f \in Fds, NEW t \in IOType, NEW q \in Seq(IOWaits),
         io_events' = [io_events EXCEPT ![f][t] = q]
  PROVE  /\ io_events' \in [Fds -> [IOType -> Seq(IOWaits)]]
         /\ \A g \in Fds, u \in IOType :
              io_events'[g][u] = IF g = f /\ u = t THEN q ELSE io_events[g][u]
         /\ \A g \in Fds \ {f} : Existing(g)' = Existing(g)
<1>1. io_events \in [Fds -> [IOType -> Seq(IOWaits)]]
  BY DEF IOTypes
<1>2. \A g \in Fds, u \in IOType :
        io_events'[g][u] = IF g = f /\ u = t THEN q ELSE io_events[g][u]
  BY <1>1
<1>3. io_events' \in [Fds -> [IOType -> Seq(IOWaits)]]
  BY <1>1
<1>4. \A g \in Fds \ {f} : Existing(g)' = Existing(g)
  BY <1>2 DEF Existing
<1> QED  BY <1>2, <1>3, <1>4

\* What an erasure in the middle leaves is a queue.
LEMMA WithoutType ==
  ASSUME NEW S, NEW q \in Seq(S), NEW i \in DOMAIN q
  PROVE  /\ Without(q, i) \in Seq(S) /\ Len(Without(q, i)) = Len(q) - 1
         /\ \A j \in 1 .. Len(q) - 1 :
              Without(q, i)[j] = IF j < i THEN q[j] ELSE q[j + 1]
<1>1. i \in 1 .. Len(q) /\ Len(q) \in Nat
  OBVIOUS
<1> DEFINE a == SubSeq(q, 1, i - 1)  b == SubSeq(q, i + 1, Len(q))
<1>2. /\ a \in Seq(S) /\ Len(a) = i - 1
      /\ \A j \in 1 .. i - 1 : a[j] = q[j]
  BY <1>1
<1>3. /\ b \in Seq(S) /\ Len(b) = Len(q) - i
      /\ \A j \in 1 .. Len(q) - i : b[j] = q[i + j]
  BY <1>1
<1> HIDE DEF a, b
<1> DEFINE c == a \o b
<1>4. /\ c \in Seq(S) /\ Len(c) = Len(a) + Len(b)
      /\ \A j \in 1 .. Len(a) + Len(b) : c[j] = IF j <= Len(a) THEN a[j] ELSE b[j - Len(a)]
  BY <1>2, <1>3, ConcatProperties
<1>5. Without(q, i) = c
  BY DEF Without, a, b
<1> HIDE DEF c
<1>6. Len(c) = Len(q) - 1
  BY <1>1, <1>2, <1>3, <1>4
<1>7. ASSUME NEW j \in 1 .. Len(q) - 1
      PROVE  c[j] = IF j < i THEN q[j] ELSE q[j + 1]
  <2>1. j \in 1 .. Len(a) + Len(b) /\ Len(a) = i - 1
    BY <1>1, <1>2, <1>3
  <2>2. c[j] = IF j <= Len(a) THEN a[j] ELSE b[j - Len(a)]
    BY <1>4, <2>1
  <2>3. c[j] = IF j <= i - 1 THEN a[j] ELSE b[j - (i - 1)]
    BY <2>1, <2>2
  <2>4. CASE j < i
    BY <1>1, <1>2, <2>3, <2>4
  <2>5. CASE j >= i
    <3>1. j - (i - 1) \in 1 .. Len(q) - i /\ i + (j - (i - 1)) = j + 1
      BY <1>1, <2>5
    <3>2. b[j - (i - 1)] = q[j + 1]
      BY <1>3, <3>1
    <3> QED  BY <1>1, <2>3, <2>5, <3>2
  <2> QED  BY <1>1, <2>4, <2>5
<1> QED  BY <1>4, <1>5, <1>6, <1>7

\* The walk of RemoveAllIOEvents is at a queue that is not empty.
LEMMA ClosingAt ==
  ASSUME TypeOK, closing \in Fds, Existing(closing) # {}
  PROVE  /\ ClosingType \in IOType /\ io_events[closing][ClosingType] # <<>>
         /\ io_events[closing][ClosingType] \in Seq(IOWaits)
<1>1. ClosingType \in Existing(closing)
  BY DEF ClosingType, Existing, IOType
<1> QED  BY <1>1 DEF Existing, TypeOK, IOTypes

\* AddIOEvent puts the event last in the queue of its descriptor and direction.
LEMMA AddIOEventEffect ==
  ASSUME TypeOK, NEW e \in IOWaits, NEW f \in Fds, NEW t \in IOType, NEW a \in AbortHandles,
         AddIOEvent(e, f, t, a)
  PROVE  /\ IOTypes'
         /\ \A g \in Fds, u \in IOType :
              io_events'[g][u] = IF g = f /\ u = t THEN Append(io_events[f][t], e)
                                 ELSE io_events[g][u]
         /\ \A g \in Fds \ {f} : Existing(g)' = Existing(g)
<1>1. Append(io_events[f][t], e) \in Seq(IOWaits)
  BY DEF TypeOK, IOTypes
<1>2. io_events' = [io_events EXCEPT ![f][t] = Append(io_events[f][t], e)]
  BY DEF AddIOEvent
<1>3. /\ UNCHANGED <<io_prev_events, epoll_set>>
      /\ interesting_fds' \subseteq Fds /\ total_io_events' \in Int
  BY DEF AddIOEvent, TypeOK, IOTypes
<1> QED  BY ZenonT(60), <1>1, <1>2, <1>3, QueueUpdate DEF TypeOK, IOTypes

\* The walk erases the event it is at.
LEMMA CloseEraseEffect ==
  ASSUME TypeOK, Control, CloseErase
  PROVE  /\ IOTypes' /\ closing \in Fds /\ ClosingType \in IOType
         /\ io_events[closing][ClosingType] # <<>>
         /\ \A g \in Fds, u \in IOType :
              io_events'[g][u] = IF g = closing /\ u = ClosingType
                                 THEN Tail(io_events[closing][ClosingType])
                                 ELSE io_events[g][u]
         /\ \A g \in Fds \ {closing} : Existing(g)' = Existing(g)
<1>1. closing \in Fds /\ Existing(closing) # {}
  BY DEF CloseErase, Control, TypeOK, LoopTypes
<1>2. /\ Tail(io_events[closing][ClosingType]) \in Seq(IOWaits) /\ ClosingType \in IOType
      /\ io_events[closing][ClosingType] # <<>>
  BY <1>1, ClosingAt
<1>3. /\ io_events' = [io_events EXCEPT ![closing][ClosingType] =
                         Tail(io_events[closing][ClosingType])]
      /\ total_io_events' = total_io_events - 1
      /\ UNCHANGED <<io_prev_events, interesting_fds, epoll_set>>
  BY DEF CloseErase
<1>4. total_io_events' \in Int
  BY <1>3 DEF TypeOK, IOTypes
<1> QED  BY ZenonT(60), <1>1, <1>2, <1>3, <1>4, QueueUpdate DEF TypeOK, IOTypes

\* PopIOEvent: the heads of the queues that were reported, which are not empty, go to
\* the turn's array.
LEMMA PopIOEventEffect ==
  ASSUME TypeOK, Watched, NEW f \in Fds, PopIOEvent(f)
  PROVE  /\ IOTypes' /\ TodoTypes'
         /\ \A g \in Fds, t \in IOType :
              /\ g = f /\ t \in hits[f] =>
                   /\ io_events[f][t] # <<>> /\ io_events'[f][t] = Tail(io_events[f][t])
              /\ ~(g = f /\ t \in hits[f]) => io_events'[g][t] = io_events[g][t]
         /\ \A g \in Fds \ {f} : Existing(g)' = Existing(g)
<1> USE DEF TypeOK
<1>1. hits[f] \subseteq IOType /\ io_events \in [Fds -> [IOType -> Seq(IOWaits)]]
  BY DEF LoopTypes, IOTypes
<1>2. \A t \in hits[f] : io_events[f][t] # <<>> /\ io_events[f][t] \in Seq(IOWaits)
  BY <1>1 DEF Watched, Existing
<1>3. io_events' = [io_events EXCEPT ![f] = [t \in IOType |->
                     IF t \in hits[f] THEN Tail(io_events[f][t]) ELSE io_events[f][t]]]
  BY DEF PopIOEvent
<1>4. \A t \in IOType : (IF t \in hits[f] THEN Tail(io_events[f][t]) ELSE io_events[f][t])
                          \in Seq(IOWaits)
  BY <1>1, <1>2
<1>5. io_events' \in [Fds -> [IOType -> Seq(IOWaits)]]
  BY <1>1, <1>3, <1>4
<1>6. \A g \in Fds, t \in IOType :
        /\ g = f /\ t \in hits[f] => io_events'[f][t] = Tail(io_events[f][t])
        /\ ~(g = f /\ t \in hits[f]) => io_events'[g][t] = io_events[g][t]
  BY <1>1, <1>3
<1>7. IOTypes'
  <2>1. IsFiniteSet(IOType)
    <3>1. IsFiniteSet({"READ"})
      BY FS_Singleton
    <3>2. IsFiniteSet({"READ"} \cup {"WRITE"})
      BY <3>1, FS_AddElement
    <3>3. IOType = {"READ"} \cup {"WRITE"}
      BY DEF IOType
    <3> QED  BY <3>2, <3>3
  <2>2. Cardinality(hits[f]) \in Nat
    BY <1>1, <2>1, FS_Subset, FS_CardinalityType
  <2>3. total_io_events' = total_io_events - Cardinality(hits[f])
    BY DEF PopIOEvent
  <2>4. total_io_events' \in Int
    BY <2>2, <2>3 DEF IOTypes
  <2>5. interesting_fds' \subseteq Fds /\ UNCHANGED <<io_prev_events, epoll_set>>
    BY DEF PopIOEvent, IOTypes
  <2> QED  BY <1>5, <2>4, <2>5 DEF IOTypes
<1>8. TodoTypes'
  <2> DEFINE head(t) == IF t \in hits[f] THEN <<Head(io_events[f][t])>> ELSE <<>>
  <2>1. \A t \in IOType : t \in hits[f] => Head(io_events[f][t]) \in Waits
    BY <1>2 DEF Waits
  <2>2. \A t \in IOType : head(t) \in Seq(Waits)
    BY <2>1
  <2>3. todo_events' = todo_events \o head("READ") \o head("WRITE")
    BY DEF PopIOEvent, IOType
  <2>4. todo_events \in Seq(Waits) /\ head("READ") \in Seq(Waits) /\ head("WRITE") \in Seq(Waits)
    BY <2>2 DEF TodoTypes, IOType
  <2> HIDE DEF head
  <2>5. todo_events' \in Seq(Waits)
    BY <2>3, <2>4
  <2> QED  BY <2>5 DEF PopIOEvent, TodoTypes
<1>9. \A g \in Fds \ {f} : Existing(g)' = Existing(g)
  BY <1>6 DEF Existing
<1> QED  BY <1>2, <1>6, <1>7, <1>8, <1>9

\* PopBoundEvent takes an io event out of its queue and hands out what the iterator
\* then points to, an event of that queue.
LEMMA PopBoundIOEventEffect ==
  ASSUME TypeOK, NEW e \in Waits, PopBoundIOEvent(e)
  PROVE  /\ io_events' \in [Fds -> [IOType -> Seq(IOWaits)]]
         /\ \E f \in Fds, t \in IOType : \E i \in DOMAIN io_events[f][t] :
              /\ io_events[f][t][i] = e /\ interesting_fds' = interesting_fds \cup {f}
              /\ total_io_events' \in Int
              /\ \A g \in Fds, u \in IOType :
                   io_events'[g][u] = IF g = f /\ u = t THEN Without(io_events[f][t], i)
                                      ELSE io_events[g][u]
              /\ \A g \in Fds \ {f} : Existing(g)' = Existing(g)
              /\ \E popped \in AfterErase(io_events[f][t], i) :
                   /\ popped \in IOWaits /\ popped \in Range(io_events[f][t])
                   /\ Len(io_events[f][t]) <= 2 => popped = e
                   /\ interrupted' = interrupted \cup {popped}
                   /\ todo_events' = Append(todo_events, popped)
         /\ UNCHANGED <<pending_user_events, user_events>>
<1> USE DEF TypeOK
<1>1. PICK f \in Fds, t \in IOType : \E i \in DOMAIN io_events[f][t] :
        /\ io_events[f][t][i] = e
        /\ interesting_fds' = interesting_fds \cup {f}
        /\ total_io_events' = total_io_events - (IF f \in HighFds THEN 0 ELSE 1)
        /\ io_events' = [io_events EXCEPT ![f][t] = Without(io_events[f][t], i)]
        /\ \E popped \in AfterErase(io_events[f][t], i) :
             /\ interrupted' = interrupted \cup {popped}
             /\ todo_events' = Append(todo_events, popped)
  BY DEF PopBoundIOEvent, IOTypes
<1>2. PICK i \in DOMAIN io_events[f][t] :
        /\ io_events[f][t][i] = e
        /\ interesting_fds' = interesting_fds \cup {f}
        /\ total_io_events' = total_io_events - (IF f \in HighFds THEN 0 ELSE 1)
        /\ io_events' = [io_events EXCEPT ![f][t] = Without(io_events[f][t], i)]
        /\ \E popped \in AfterErase(io_events[f][t], i) :
             /\ interrupted' = interrupted \cup {popped}
             /\ todo_events' = Append(todo_events, popped)
  BY <1>1
<1> DEFINE q == io_events[f][t]
<1>3. q \in Seq(IOWaits) /\ Len(q) \in Nat /\ i \in 1 .. Len(q)
  BY <1>2 DEF IOTypes
<1>4. Without(q, i) \in Seq(IOWaits)
  BY <1>3, WithoutType
<1>5. total_io_events' \in Int
  BY <1>2 DEF IOTypes
<1>6. PICK popped \in AfterErase(q, i) :
             /\ interrupted' = interrupted \cup {popped}
             /\ todo_events' = Append(todo_events, popped)
  BY <1>2
<1>7. \E j \in 1 .. Len(q) : popped = q[j] /\ (Len(q) <= 2 => j = i)
  <2>1. CASE i \in {1, Len(q)}
    BY <1>3, <1>6, <2>1 DEF AfterErase
  <2>2. CASE i \notin {1, Len(q)}
    <3>1. popped = q[i - 1] \/ popped = q[i + 1]
      BY <1>6, <2>2 DEF AfterErase
    <3>2. i - 1 \in 1 .. Len(q) /\ i + 1 \in 1 .. Len(q) /\ ~(Len(q) <= 2)
      BY <1>3, <2>2
    <3> QED  BY <3>1, <3>2
  <2> QED  BY <2>1, <2>2
<1>8. popped \in IOWaits /\ popped \in Range(q) /\ (Len(q) <= 2 => popped = e)
  BY <1>2, <1>3, <1>7 DEF Range
<1>9. UNCHANGED <<pending_user_events, user_events>>
  BY DEF PopBoundIOEvent
<1> HIDE DEF q
<1>10. io_events' = [io_events EXCEPT ![f][t] = Without(q, i)]
  BY <1>2 DEF q
<1>11. /\ io_events' \in [Fds -> [IOType -> Seq(IOWaits)]]
       /\ \A g \in Fds, u \in IOType :
            io_events'[g][u] = IF g = f /\ u = t THEN Without(q, i) ELSE io_events[g][u]
       /\ \A g \in Fds \ {f} : Existing(g)' = Existing(g)
  BY <1>4, <1>10, QueueUpdate
<1> QED  BY <1>2, <1>5, <1>6, <1>8, <1>9, <1>11 DEF q

-----------------------------------------------------------------------------
(* The user events.                                                        *)

\* CollectUserEvents takes the first of the triggered user events, all of them unless
\* there is no room; the rest stays, and is announced again if the eventfd was read.
LEMMA CollectEffect ==
  ASSUME TypeOK, CollectUserEvents
  PROVE  \E n \in 0 .. Len(triggered_user_events) :
           LET taken == SubSeq(triggered_user_events, 1, n) IN
           /\ taken \in Seq(UserWaits)
           /\ todo_events' = todo_events \o taken
           /\ triggered_user_events' = SubSeq(triggered_user_events, n + 1,
                                              Len(triggered_user_events))
           /\ user_events' = user_events \ Range(taken)
           /\ ~is_user_event_triggered => n = 0 /\ user_event_fd' = user_event_fd
           /\ is_user_event_triggered =>
                (need_to_write_again' <=> n < Len(triggered_user_events))
           /\ need_to_write_again' \in BOOLEAN /\ user_event_fd' \in BOOLEAN
           /\ RemoveBoundEvent(Range(todo_events'))
<1> DEFINE q     == triggered_user_events
           room  == IF HasRoom(todo_events) THEN MaxPerWait - Len(todo_events) ELSE 0
           P(n)  == n <= room /\ (n = room \/ n = Len(q))
           count == CHOOSE n \in 0 .. Len(q) : P(n)
           taken == IF is_user_event_triggered THEN SubSeq(q, 1, count) ELSE <<>>
<1>1. q \in Seq(UserWaits) /\ Len(q) \in Nat
  BY DEF TypeOK, UserTypes
<1>2. room \in Nat
  BY PollerAssumption DEF TypeOK, TodoTypes, HasRoom
<1>3. \E n \in 0 .. Len(q) : P(n)
  <2>1. CASE room <= Len(q)
    BY <1>1, <1>2, <2>1
  <2>2. CASE ~(room <= Len(q))
    BY <1>1, <1>2, <2>2
  <2> QED  BY <2>1, <2>2
<1>4. count \in 0 .. Len(q)
  BY <1>3
<1>5. /\ todo_events' = todo_events \o taken
      /\ triggered_user_events' = SubSeq(q, Len(taken) + 1, Len(q))
      /\ user_events' = user_events \ Range(taken)
      /\ need_to_write_again' = (is_user_event_triggered /\ count < Len(q))
      /\ user_event_fd' = (user_event_fd /\ ~is_user_event_triggered)
      /\ RemoveBoundEvent(Range(todo_events'))
  BY DEF CollectUserEvents
<1> HIDE DEF count, room
<1> DEFINE n == IF is_user_event_triggered THEN count ELSE 0
<1>6. n \in 0 .. Len(q) /\ taken = SubSeq(q, 1, n) /\ Len(taken) = n
  BY <1>1, <1>4
<1>7. taken \in Seq(UserWaits)
  BY <1>1, <1>6
<1>8. user_event_fd \in BOOLEAN /\ is_user_event_triggered \in BOOLEAN
  BY DEF TypeOK, UserTypes, LoopTypes
<1> HIDE DEF taken
<1> QED
  <2>1. ~is_user_event_triggered => n = 0 /\ user_event_fd' = user_event_fd
    BY <1>5, <1>8
  <2>2. is_user_event_triggered => (need_to_write_again' <=> n < Len(q))
    BY <1>5
  <2>3. need_to_write_again' \in BOOLEAN /\ user_event_fd' \in BOOLEAN
    BY <1>5
  <2> HIDE DEF n
  <2> QED  BY <1>5, <1>6, <1>7, <2>1, <2>2, <2>3

-----------------------------------------------------------------------------
(* Type correctness, with what it rests on.                                *)

\* The io events keep their types.
LEMMA IOTypesStep ==
  ASSUME TypeOK, Control, Watched, [Next]_vars
  PROVE  IOTypes'
<1> USE DEF TypeOK
<1>1. CASE UNCHANGED ioVars
  BY <1>1 DEF ioVars, IOTypes
<1>2. ASSUME NEW e \in IOWaits, NEW f \in Fds, NEW t \in IOType, NEW a \in AbortHandles,
             AddIOEvent(e, f, t, a)
      PROVE  IOTypes'
  BY <1>2, AddIOEventEffect
<1>3. ASSUME NEW f \in Fds, RemoveAllIOEvents(f)
      PROVE  IOTypes'
  BY <1>3 DEF RemoveAllIOEvents, IOTypes
<1>4. CASE CloseErase
  BY <1>4, CloseEraseEffect
<1>5. CASE CloseEnd
  BY <1>5 DEF CloseEnd, IOTypes
<1>6. CASE Trim
  BY <1>6 DEF Trim, TrimIOEvents, IOTypes, Existing
<1>7. CASE PopBoundEvent
  <2>1. /\ Head(triggered_bound_events) \in Waits /\ UNCHANGED <<io_prev_events, epoll_set>>
    BY <1>7 DEF PopBoundEvent, BoundTypes
  <2>2. CASE PopBoundIOEvent(Head(triggered_bound_events))
    BY <2>1, <2>2, PopBoundIOEventEffect DEF IOTypes
  <2>3. CASE UNCHANGED <<io_events, interesting_fds, total_io_events>>
    BY <2>1, <2>3 DEF IOTypes
  <2> QED  BY <1>7, <2>2, <2>3 DEF PopBoundEvent, PopBoundUserEvent
<1>8. ASSUME NEW f \in Fds, PopIOEvent(f)
      PROVE  IOTypes'
  BY <1>8, PopIOEventEffect
<1> QED  BY <1>1, <1>2, <1>3, <1>4, <1>5, <1>6, <1>7, <1>8, IOStepIs DEF IOStep

\* The actions that change the turn's array or the interrupted events.
LEMMA TodoTypesStep ==
  ASSUME TypeOK, Control, Watched, [Next]_vars
  PROVE  TodoTypes'
<1> USE DEF TypeOK
<1>1. CASE UNCHANGED todoVars
  BY <1>1 DEF todoVars, TodoTypes
<1>2. CASE Resume
  BY <1>2 DEF Resume, Control, TodoTypes
<1>3. ASSUME NEW f \in Fds, PopIOEvent(f)
      PROVE  TodoTypes'
  BY <1>3, PopIOEventEffect
<1>4. CASE TimerStep
  <2>1. PICK ev \in time_events : \/ UNCHANGED todo_events
                                  \/ todo_events' = Append(todo_events, ev.id)
    BY <1>4 DEF TimerStep, Earliest
  <2>2. ev.id \in Waits /\ interrupted' = interrupted
    BY <1>4 DEF TimerStep, TimeTypes, TimeEvents
  <2> QED  BY <2>1, <2>2 DEF TodoTypes
<1>5. CASE CollectUserEvents
  <2>1. PICK taken \in Seq(UserWaits) : todo_events' = todo_events \o taken
    BY <1>5, CollectEffect
  <2>2. taken \in Seq(Waits) /\ todo_events \in Seq(Waits)
    BY SeqMonotonic DEF Waits, TodoTypes
  <2>3. todo_events' \in Seq(Waits)
    BY <2>1, <2>2
  <2> QED  BY <1>5, <2>3 DEF CollectUserEvents, TodoTypes
<1>6. CASE PopBoundEvent
  <2>1. Head(triggered_bound_events) \in Waits
    BY <1>6 DEF PopBoundEvent, BoundTypes
  <2>2. CASE PopBoundIOEvent(Head(triggered_bound_events))
    <3>1. PICK popped \in IOWaits : /\ interrupted' = interrupted \cup {popped}
                                    /\ todo_events' = Append(todo_events, popped)
      BY <2>1, <2>2, PopBoundIOEventEffect
    <3> QED  BY <3>1 DEF TodoTypes, Waits
  <2>3. CASE PopBoundUserEvent(Head(triggered_bound_events))
    BY <2>1, <2>3 DEF PopBoundUserEvent, TodoTypes
  <2>4. CASE UNCHANGED todoVars
    BY <2>4 DEF TodoTypes, todoVars
  <2> QED  BY <1>6, <2>2, <2>3, <2>4 DEF PopBoundEvent
<1> QED
  BY <1>1, <1>2, <1>3, <1>4, <1>5, <1>6
  DEF Next, vars, Coroutine, Loop, AddIOEvent, AddTimeEvent, AddUserEvent, Register,
      RemoveAllIOEvents, ArmUserEvent, Suspend, CloseResume, CloseErase, CloseEnd, Trim,
      TrimFails, IODone, TimersDone, EndWait, EpollWait, Signal, Unsupported,
      TriggerUserEvent, Cancel, NotifyEventLoop, Tick, Terminated

\* What an awaiter's constructor makes of its abort_handle_: only a timeout has a
\* deadline.
LEMMA HandleType ==
  ASSUME TypeOK, NEW a \in AbortHandles
  PROVE  a \in Handles /\ (a.kind = "timeout" <=> a.at # Never)
<1>1. /\ a \in [kind : Aborts, at : {Never} \cup 0 .. MaxTime]
      /\ IF a.kind = "timeout" THEN \E d \in Delays : a.at = now + d ELSE a.at = Never
  BY DEF AbortHandles
<1>2. a \in Handles
  <2>1. /\ a = [kind |-> a.kind, at |-> a.at] /\ a.kind \in Aborts
        /\ a.at \in {Never} \cup 0 .. MaxTime
    BY <1>1
  <2>2. a.at \in Int
    BY <2>1, PollerAssumption DEF Never
  <2>3. a.kind \in {"none", "token", "timeout"}
    BY <2>1, PollerAssumption
  <2> QED  BY <2>1, <2>2, <2>3 DEF Handles
<1>3. a.kind = "timeout" => a.at # Never
  BY <1>1, PollerAssumption DEF Never, TypeOK, TimeTypes
<1> QED  BY <1>1, <1>2, <1>3

\* AddBoundEvent keeps the types of what it writes.
LEMMA AddBoundEventType ==
  ASSUME TypeOK, NEW e \in Waits, NEW a \in Handles, AddBoundEvent(e, a)
  PROVE  /\ time_events' \subseteq TimeEvents /\ pending_bound_events' \subseteq Waits
         /\ registered' \in Seq(Waits) /\ deadline' \in [Waits -> Int]
<1> USE DEF TypeOK
<1>1. a.at \in Int /\ a.kind \in {"none", "token", "timeout"}
  BY DEF Handles
<1>2. deadline' \in [Waits -> Int]
  BY <1>1 DEF AddBoundEvent, HistTypes
<1>3. registered' \in Seq(Waits) /\ pending_bound_events' \subseteq Waits
  <2>1. registered' = registered \/ registered' = Append(registered, e)
    BY DEF AddBoundEvent
  <2>2. registered' \in Seq(Waits)
    BY <2>1 DEF BoundTypes
  <2> QED  BY <2>2 DEF AddBoundEvent, BoundTypes
<1>4. time_events' \subseteq TimeEvents
  <2>1. [id |-> e, wake |-> a.at, trigger |-> TRUE, valid |-> TRUE] \in TimeEvents
    BY <1>1 DEF TimeEvents
  <2> QED  BY <2>1 DEF AddBoundEvent, TimeTypes
<1> QED  BY <1>2, <1>3, <1>4

\* The actions through which a bound event is added.
LEMMA Arms ==
  ASSUME TypeOK, ArmUserEvent
  PROVE  \E a \in arming : a[1] \in UserWaits /\ a[2] \in Handles /\ AddBoundEvent(a[1], a[2])
BY DEF ArmUserEvent, TypeOK, LoopTypes

\* The time events keep their types.
LEMMA TimeTypesStep ==
  ASSUME TypeOK, [Next]_vars
  PROVE  TimeTypes'
<1> USE DEF TypeOK
<1>1. CASE UNCHANGED <<time_events, next_wait, now>>
  BY <1>1 DEF TimeTypes
<1>2. ASSUME NEW e \in IOWaits, NEW f \in Fds, NEW t \in IOType, NEW a \in AbortHandles,
             AddIOEvent(e, f, t, a)
      PROVE  TimeTypes'
  <2>1. e \in Waits /\ AddBoundEvent(e, a) /\ UNCHANGED <<now, next_wait>>
    BY <1>2 DEF AddIOEvent, Waits
  <2> QED  BY <2>1, HandleType, AddBoundEventType DEF TimeTypes
<1>3. ASSUME NEW e \in Sleeps, NEW d \in Delays, AddTimeEvent(e, d)
      PROVE  TimeTypes'
  <2>1. [id |-> e, wake |-> now + d, trigger |-> FALSE, valid |-> TRUE] \in TimeEvents
    BY PollerAssumption DEF TimeEvents, TimeTypes, Waits
  <2> QED  BY <1>3, <2>1 DEF AddTimeEvent, TimeTypes
<1>4. CASE ArmUserEvent
  <2>1. UNCHANGED <<now, next_wait>>
    BY <1>4 DEF ArmUserEvent
  <2> QED  BY <1>4, <2>1, Arms, AddBoundEventType DEF TimeTypes, Waits
<1>5. CASE Trim
  <2>1. PICK left \in SUBSET time_events :
          /\ left = {} \/ \E ev \in Earliest(left) : ev.valid
          /\ time_events' = left
          /\ next_wait' = IF left = {} THEN -1
                          ELSE LET wake == (CHOOSE ev \in Earliest(left) : TRUE).wake
                               IN  IF wake > now THEN wake ELSE now
    BY <1>5 DEF Trim, TrimTimeEvents
  <2>2. CASE left = {}
    BY <1>5, <2>1, <2>2 DEF Trim, TimeTypes
  <2>3. CASE left # {}
    <3>1. (CHOOSE ev \in Earliest(left) : TRUE) \in left
      BY <2>1, <2>3 DEF Earliest
    <3>2. (CHOOSE ev \in Earliest(left) : TRUE).wake \in Int
      BY <2>1, <3>1 DEF TimeTypes, TimeEvents
    <3> QED  BY <1>5, <2>1, <2>3, <3>2 DEF Trim, TimeTypes
  <2> QED  BY <2>2, <2>3
<1>6. CASE TimerStep
  BY <1>6 DEF TimerStep, TimeTypes
<1>7. CASE CollectUserEvents
  <2>1. PICK ids : RemoveBoundEvent(ids)
    BY <1>7 DEF CollectUserEvents
  <2>2. \A ev \in TimeEvents : [ev EXCEPT !.valid = FALSE] \in TimeEvents
    BY DEF TimeEvents
  <2>3. time_events' \subseteq TimeEvents
    BY <2>1, <2>2 DEF RemoveBoundEvent, TimeTypes
  <2> QED  BY <1>7, <2>3 DEF CollectUserEvents, TimeTypes
<1>8. CASE Tick
  BY <1>8 DEF Tick, TimeTypes, timeVars
<1> QED
  BY <1>1, <1>2, <1>3, <1>4, <1>5, <1>6, <1>7, <1>8
  DEF Next, vars, Coroutine, Loop, AddUserEvent, Register, RemoveAllIOEvents, Suspend,
      CloseResume, CloseErase, CloseEnd, Resume, TrimFails, PopIOEvent, IODone, TimersDone,
      PopBoundEvent, EndWait, EpollWait, Signal, Unsupported, TriggerUserEvent, Cancel,
      NotifyEventLoop, Terminated, timeVars

\* The user events keep their types.
LEMMA UserTypesStep ==
  ASSUME TypeOK, [Next]_vars
  PROVE  UserTypes'
<1> USE DEF TypeOK
<1>1. CASE UNCHANGED userVars
  BY <1>1 DEF userVars, UserTypes
<1>2. ASSUME NEW e \in UserWaits, NEW a \in AbortHandles, AddUserEvent(e, a)
      PROVE  UserTypes'
  BY <1>2 DEF AddUserEvent, UserTypes
<1>3. CASE Trim
  BY <1>3 DEF Trim, ShouldAddEpoll, UserTypes, LoopTypes
<1>4. CASE TimerStep \/ Cancel
  <2>1. user_event_fd' \in BOOLEAN
    BY <1>4 DEF TimerStep, Cancel, TriggerBoundEvent, UserTypes
  <2> QED  BY <1>4, <2>1 DEF TimerStep, Cancel, UserTypes
<1>5. CASE CollectUserEvents
  <2>1. PICK n \in 0 .. Len(triggered_user_events) :
          /\ triggered_user_events' = SubSeq(triggered_user_events, n + 1,
                                             Len(triggered_user_events))
          /\ user_events' \subseteq user_events /\ user_event_fd' \in BOOLEAN
    BY <1>5, CollectEffect
  <2>2. triggered_user_events' \in Seq(UserWaits)
    BY <2>1 DEF UserTypes
  <2> QED  BY <1>5, <2>1, <2>2 DEF CollectUserEvents, UserTypes
<1>6. CASE PopBoundEvent
  BY <1>6 DEF PopBoundEvent, PopBoundIOEvent, PopBoundUserEvent, UserTypes
<1>7. CASE EndWait
  BY <1>7 DEF EndWait, UserTypes
<1>8. ASSUME NEW e \in UserWaits, TriggerUserEvent(e)
      PROVE  UserTypes'
  <2>1. triggered_user_events' \in Seq(UserWaits)
    BY <1>8 DEF TriggerUserEvent, UserTypes
  <2> QED  BY <1>8, <2>1 DEF TriggerUserEvent, UserTypes
<1>9. CASE NotifyEventLoop
  BY <1>9 DEF NotifyEventLoop, UserTypes
<1> QED
  BY <1>1, <1>2, <1>3, <1>4, <1>5, <1>6, <1>7, <1>8, <1>9
  DEF Next, vars, Coroutine, Loop, AddIOEvent, AddTimeEvent, Register, RemoveAllIOEvents,
      ArmUserEvent, Suspend, CloseResume, CloseErase, CloseEnd, Resume, TrimFails,
      PopIOEvent, IODone, TimersDone, EpollWait, Signal, Unsupported, Tick, Terminated

\* The bound events keep their types.
LEMMA BoundTypesStep ==
  ASSUME TypeOK, [Next]_vars
  PROVE  BoundTypes'
<1> USE DEF TypeOK
<1>1. CASE UNCHANGED <<boundVars, tokenVars>>
  BY <1>1 DEF boundVars, tokenVars, BoundTypes
<1>2. ASSUME NEW e \in IOWaits, NEW f \in Fds, NEW t \in IOType, NEW a \in AbortHandles,
             AddIOEvent(e, f, t, a)
      PROVE  BoundTypes'
  <2>1. e \in Waits /\ AddBoundEvent(e, a) /\ UNCHANGED <<triggered_bound_events, cancelling>>
    BY <1>2 DEF AddIOEvent, Waits
  <2> QED  BY <2>1, HandleType, AddBoundEventType DEF BoundTypes
<1>3. CASE ArmUserEvent
  <2>1. UNCHANGED <<triggered_bound_events, cancelling>>
    BY <1>3 DEF ArmUserEvent
  <2> QED  BY <1>3, <2>1, Arms, AddBoundEventType DEF BoundTypes, Waits
<1>4. ASSUME NEW e \in Waits, TriggerBoundEvent(e)
      PROVE  pending_bound_events' \subseteq Waits /\ triggered_bound_events' \in Seq(Waits)
  <2>1. CASE e \in pending_bound_events
    BY SMTT(60), <1>4, <2>1 DEF TriggerBoundEvent, BoundTypes
  <2>2. CASE e \notin pending_bound_events
    BY <1>4, <2>2 DEF TriggerBoundEvent, BoundTypes, boundVars
  <2> QED  BY <2>1, <2>2
<1>5. CASE TimerStep
  <2>1. \/ UNCHANGED boundVars
        \/ \E ev \in time_events : TriggerBoundEvent(ev.id)
    BY <1>5 DEF TimerStep, Earliest
  <2>2. \A ev \in time_events : ev.id \in Waits
    BY DEF TimeTypes, TimeEvents
  <2>3. pending_bound_events' \subseteq Waits /\ triggered_bound_events' \in Seq(Waits)
    BY <1>4, <2>1, <2>2 DEF BoundTypes, boundVars
  <2> QED  BY <1>5, <2>3 DEF TimerStep, BoundTypes, tokenVars
<1>6. CASE Cancel
  <2>1. Head(registered) \in Waits /\ Tail(registered) \in Seq(Waits)
    BY <1>6 DEF Cancel, BoundTypes
  <2>2. /\ TriggerBoundEvent(Head(registered)) /\ registered' = Tail(registered)
        /\ cancelling' \in BOOLEAN
    BY <1>6 DEF Cancel
  <2> QED  BY <1>4, <2>1, <2>2 DEF BoundTypes
<1>7. CASE CollectUserEvents
  BY <1>7 DEF CollectUserEvents, RemoveBoundEvent, BoundTypes, tokenVars
<1>8. CASE PopBoundEvent
  <2>1. triggered_bound_events' \in Seq(Waits)
    BY <1>8 DEF PopBoundEvent, BoundTypes
  <2> QED  BY <1>8, <2>1 DEF PopBoundEvent, BoundTypes, tokenVars
<1> QED
  BY <1>1, <1>2, <1>3, <1>5, <1>6, <1>7, <1>8
  DEF Next, vars, Coroutine, Loop, AddTimeEvent, AddUserEvent, Register,
      RemoveAllIOEvents, Suspend, CloseResume, CloseErase, CloseEnd, Resume, Trim,
      TrimFails, PopIOEvent, IODone, TimersDone, EndWait, EpollWait, Signal, Unsupported,
      TriggerUserEvent, NotifyEventLoop, Tick, Terminated

\* The loop thread's program counter and what it has in hand keep their types.
LEMMA LoopTypesStep ==
  ASSUME TypeOK, [Next]_vars
  PROVE  LoopTypes'
<1> USE DEF TypeOK, LoopTypes
<1>1. pc' \in Counters
  BY ZenonT(60) DEF Next, vars, Coroutine, Loop, AddIOEvent, AddTimeEvent, AddUserEvent, Register,
         RemoveAllIOEvents, ArmUserEvent, Suspend, CloseResume, CloseErase, CloseEnd,
         Resume, Trim, TrimFails, PopIOEvent, IODone, TimerStep, TimersDone,
         CollectUserEvents, PopBoundEvent, EndWait, EpollWait, Signal, Unsupported,
         TriggerUserEvent, Cancel, NotifyEventLoop, Tick, Terminated, Counters
<1>2. CASE UNCHANGED <<waitVars, coVars, is_dispatcher_registered>>
  BY <1>1, <1>2 DEF waitVars, coVars
<1>3. ASSUME NEW e \in UserWaits, NEW a \in AbortHandles, AddUserEvent(e, a)
      PROVE  LoopTypes'
  <2>1. arming' \subseteq {<<e, a>>} /\ <<e, a>> \in UserWaits \X Handles
    BY <1>3, HandleType DEF AddUserEvent
  <2> QED  BY <1>1, <1>3, <2>1 DEF AddUserEvent, waitVars
<1>4. CASE ArmUserEvent
  BY <1>1, <1>4 DEF ArmUserEvent, waitVars
<1>5. ASSUME NEW b \in BOOLEAN, Register(b)
      PROVE  LoopTypes'
  BY <1>1, <1>5 DEF Register, waitVars, coVars
<1>6. ASSUME NEW f \in Fds, RemoveAllIOEvents(f)
      PROVE  LoopTypes'
  BY <1>1, <1>6 DEF RemoveAllIOEvents, waitVars
<1>7. CASE CloseResume \/ CloseEnd
  BY <1>1, <1>7 DEF CloseResume, CloseEnd, waitVars
<1>8. ASSUME NEW f \in Fds, PopIOEvent(f)
      PROVE  LoopTypes'
  BY <1>1, <1>8 DEF PopIOEvent, coVars
<1>9. CASE CollectUserEvents
  <2>1. need_to_write_again' \in BOOLEAN
    BY <1>9, CollectEffect
  <2> QED  BY <1>1, <1>9, <2>1 DEF CollectUserEvents, coVars
<1>10. CASE EndWait
  BY <1>1, <1>10 DEF EndWait, coVars
<1>11. CASE EpollWait
  BY <1>1, <1>11 DEF EpollWait, coVars
<1> QED
  BY SMTT(60), <1>2, <1>3, <1>4, <1>5, <1>6, <1>7, <1>8, <1>9, <1>10, <1>11
  DEF Next, vars, Coroutine, Loop, AddIOEvent, AddTimeEvent, Suspend, CloseErase, Resume,
      Trim, TrimFails, IODone, TimerStep, TimersDone, PopBoundEvent, Signal, Unsupported,
      TriggerUserEvent, Cancel, NotifyEventLoop, Tick, Terminated

\* The history keeps its types.
LEMMA HistTypesStep ==
  ASSUME TypeOK, Control, [Next]_vars
  PROVE  HistTypes'
<1> USE DEF TypeOK
<1>1. CASE UNCHANGED histVars
  BY <1>1 DEF histVars, HistTypes
<1>2. ASSUME NEW e \in IOWaits, NEW f \in Fds, NEW t \in IOType, NEW a \in AbortHandles,
             AddIOEvent(e, f, t, a)
      PROVE  HistTypes'
  <2>1. /\ e \in Waits /\ AddBoundEvent(e, a) /\ created' = created \cup {e}
        /\ UNCHANGED <<notified, fired, cancelled, resumes>>
    BY <1>2 DEF AddIOEvent, Waits
  <2> QED  BY <2>1, HandleType, AddBoundEventType DEF HistTypes
<1>3. ASSUME NEW e \in Sleeps, NEW d \in Delays, AddTimeEvent(e, d)
      PROVE  HistTypes'
  <2>1. now + d \in Int /\ e \in Waits
    BY PollerAssumption DEF TimeTypes, Waits
  <2> QED  BY <1>3, <2>1 DEF AddTimeEvent, HistTypes
<1>4. ASSUME NEW e \in UserWaits, NEW a \in AbortHandles, AddUserEvent(e, a)
      PROVE  HistTypes'
  BY <1>4 DEF AddUserEvent, HistTypes, Waits
<1>5. CASE ArmUserEvent
  <2>1. UNCHANGED <<created, notified, fired, cancelled, resumes>>
    BY <1>5 DEF ArmUserEvent
  <2> QED  BY <1>5, <2>1, Arms, AddBoundEventType DEF HistTypes, Waits
<1>6. ASSUME NEW e \in Waits, resumes' = [resumes EXCEPT ![e] = @ + 1],
             UNCHANGED <<created, notified, fired, cancelled, deadline>>
      PROVE  HistTypes'
  BY <1>6 DEF HistTypes
<1>7. CASE CloseResume
  <2>1. closing \in Fds /\ Existing(closing) # {}
    BY <1>7 DEF CloseResume, Control, LoopTypes
  <2>2. ClosingEvent \in Waits
    BY <2>1, ClosingAt DEF ClosingEvent, Waits
  <2> QED  BY <1>6, <1>7, <2>2 DEF CloseResume
<1>8. CASE Resume
  <2>1. Head(todo_events) \in Waits
    BY <1>8 DEF Resume, Control, TodoTypes
  <2> QED  BY <1>6, <1>8, <2>1 DEF Resume
<1>9. ASSUME NEW e \in UserWaits, TriggerUserEvent(e)
      PROVE  HistTypes'
  BY <1>9 DEF TriggerUserEvent, HistTypes
<1>10. CASE Cancel
  <2>1. Head(registered) \in Waits
    BY <1>10 DEF Cancel, BoundTypes
  <2> QED  BY <1>10, <2>1 DEF Cancel, HistTypes
<1> QED
  BY <1>1, <1>2, <1>3, <1>4, <1>5, <1>7, <1>8, <1>9, <1>10
  DEF Next, vars, Coroutine, Loop, Register, RemoveAllIOEvents, Suspend, CloseErase,
      CloseEnd, Trim, TrimFails, PopIOEvent, IODone, TimerStep, TimersDone,
      CollectUserEvents, PopBoundEvent, EndWait, EpollWait, Signal, Unsupported,
      NotifyEventLoop, Tick, Terminated

\* Control is inductive relative to TypeOK.
LEMMA ControlStep ==
  ASSUME TypeOK, Control, [Next]_vars
  PROVE  Control'
<1> USE DEF Next, vars, Coroutine, Loop, AddIOEvent, AddTimeEvent, AddUserEvent, Register,
      RemoveAllIOEvents, ArmUserEvent, Suspend, CloseResume, CloseErase, CloseEnd,
      Resume, Trim, TrimFails, PopIOEvent, IODone, TimerStep, TimersDone,
      CollectUserEvents, PopBoundEvent, EndWait, EpollWait, Signal, Unsupported,
      TriggerUserEvent, Cancel, NotifyEventLoop, Tick, Terminated, Control
<1>1. ((pc \in {"closing", "nested"}) <=> (closing # NoFd))'
  BY ZenonT(60), PollerAssumption DEF coVars
<1>2. (pc = "resume" => todo_events # <<>>)'
  BY DEF todoVars
<1>3. (pc # "io" => hits = NoHits)'
  BY ZenonT(60) DEF waitVars
<1>4. (arming # {} => pc \in {"run", "nested"})'
  BY ZenonT(60) DEF coVars, Running
<1>5. \/ pc' # "nested" \/ UNCHANGED <<ioVars, closing>>
      \/ \E e \in IOWaits, f \in Fds, t \in IOType, a \in AbortHandles : AddIOEvent(e, f, t, a)
  BY DEF coVars
<1>6. UNCHANGED <<ioVars, closing>> /\ pc' = "nested" => pc \in {"closing", "nested"}
        /\ Existing(closing) # {}
  BY ZenonT(60) DEF coVars
<1>8. (closing \in Fds \ HighFds => io_prev_events[closing] = {})'
  <2>1. \/ UNCHANGED <<closing, io_prev_events>> \/ closing' = NoFd
        \/ \E f \in Fds : RemoveAllIOEvents(f)
    BY DEF coVars, ioVars
  <2>2. ASSUME NEW f \in Fds, RemoveAllIOEvents(f)
        PROVE  (closing \in Fds \ HighFds => io_prev_events[closing] = {})'
    BY <2>2 DEF TypeOK, IOTypes
  <2> QED  BY <2>1, <2>2, PollerAssumption
<1> HIDE DEF Next, Control
<1>7. (pc = "nested" => Existing(closing) # {})'
  <2>1. CASE UNCHANGED <<ioVars, closing>>
    BY <1>6, <2>1 DEF ioVars, Existing
  <2>2. ASSUME NEW e \in IOWaits, NEW f \in Fds, NEW t \in IOType, NEW a \in AbortHandles,
               AddIOEvent(e, f, t, a), pc' = "nested"
        PROVE  (Existing(closing) # {})'
    <3>1. closing \in Fds \ {f} /\ closing' = closing /\ pc = "nested" /\ Existing(closing) # {}
      BY <2>2 DEF TypeOK, LoopTypes, coVars, Control
    <3>2. Existing(closing)' = Existing(closing)
      BY <2>2, <3>1, AddIOEventEffect DEF Existing
    <3> QED  BY <3>1, <3>2
  <2> QED  BY <1>5, <2>1, <2>2
<1> QED  BY SMTT(60), <1>1, <1>2, <1>3, <1>4, <1>7, <1>8 DEF Control

\* A step on the io events of one descriptor, which TrimIOEvents will look at.
LEMMA WatchedFrame ==
  ASSUME TypeOK, Control', Watched, pc' \notin {"io", "wait"}, NEW f \in Fds,
         \A g \in Fds \ {f} : Existing(g)' = Existing(g),
         interesting_fds' = interesting_fds \cup {f} \/ f = closing,
         interesting_fds \subseteq interesting_fds',
         UNCHANGED <<io_prev_events, epoll_set, closing>>
  PROVE  Watched'
<1>1. \A g \in Fds \ {closing} : Synced(g) \/ Deaf(g)
  BY DEF Watched
<1>2. \A g \in Fds \ {closing} : (Synced(g) \/ Deaf(g))'
  <2> SUFFICES ASSUME NEW g \in Fds \ {closing}
               PROVE  (Synced(g) \/ Deaf(g))'
    OBVIOUS
  <2>1. CASE g = f
    BY <1>1, <2>1 DEF Synced, Deaf
  <2>2. CASE g # f
    <3>1. Existing(g)' = Existing(g)
      BY <2>2
    <3> QED  BY <1>1, <3>1 DEF Synced, Deaf
  <2> QED  BY <2>1, <2>2
<1>3. hits' = NoHits
  BY DEF Control
<1> QED  BY <1>2, <1>3 DEF Watched, NoHits

\* Watched is inductive relative to TypeOK and Control.
LEMMA WatchedStep ==
  ASSUME TypeOK, TypeOK', Control, Control', Watched, [Next]_vars
  PROVE  Watched'
<1>1. ASSUME UNCHANGED ioVars, ~IOStep
      PROVE  Watched'
  <2>1. closing' = closing
    BY <1>1 DEF IOStep, Next, vars, Coroutine, Loop, AddTimeEvent, AddUserEvent, Register,
       ArmUserEvent, Suspend, CloseResume, Resume, TrimFails, IODone, TimerStep,
       TimersDone, CollectUserEvents, EndWait, EpollWait, Signal, Unsupported,
       TriggerUserEvent, Cancel, NotifyEventLoop, Tick, Terminated, coVars
  <2>2. pc' = "wait" => pc = "wait"
    BY <1>1 DEF IOStep, Next, vars, Coroutine, Loop, AddTimeEvent, AddUserEvent, Register,
       ArmUserEvent, Suspend, CloseResume, Resume, TrimFails, IODone, TimerStep,
       TimersDone, CollectUserEvents, EndWait, EpollWait, Signal, Unsupported,
       TriggerUserEvent, Cancel, NotifyEventLoop, Tick, Terminated
  <2>3. hits' = hits \/ EpollWait
    BY <1>1 DEF IOStep, Next, vars, Coroutine, Loop, AddTimeEvent, AddUserEvent, Register,
       ArmUserEvent, Suspend, CloseResume, Resume, TrimFails, IODone, TimerStep,
       TimersDone, CollectUserEvents, EndWait, Signal, Unsupported,
       TriggerUserEvent, Cancel, NotifyEventLoop, Tick, Terminated, waitVars
  <2>4. \A f \in Fds : /\ Existing(f)' = Existing(f) /\ epoll_set'[f] = epoll_set[f]
                       /\ Synced(f)' = Synced(f) /\ Deaf(f)' = Deaf(f)
    BY <1>1 DEF ioVars, Existing, Synced, Deaf
  <2>5. \A f \in Fds : hits'[f] \subseteq Existing(f)
    <3>1. CASE hits' = hits
      BY <3>1 DEF Watched
    <3>2. CASE EpollWait
      <4>1. pc = "wait" /\ \A f \in Fds : hits'[f] \subseteq epoll_set[f]
        BY <3>2 DEF EpollWait
      <4> QED  BY <4>1 DEF Watched, Deaf
    <3> QED  BY <2>3, <3>1, <3>2
  <2> QED  BY <2>1, <2>2, <2>4, <2>5 DEF Watched
<1>2. ASSUME NEW e \in IOWaits, NEW f \in Fds, NEW t \in IOType, NEW a \in AbortHandles,
             AddIOEvent(e, f, t, a)
      PROVE  Watched'
  <2>1. /\ pc' \notin {"io", "wait"} /\ interesting_fds' = interesting_fds \cup {f}
        /\ UNCHANGED <<io_prev_events, epoll_set, closing>>
    BY <1>2 DEF AddIOEvent, Running, coVars
  <2> QED  BY <1>2, <2>1, AddIOEventEffect, WatchedFrame
<1>3. ASSUME NEW f \in Fds, RemoveAllIOEvents(f)
      PROVE  Watched'
  <2>1. closing = NoFd /\ closing' = f /\ hits' = NoHits /\ pc' = "closing"
    BY <1>3 DEF RemoveAllIOEvents, Control
  <2>2. UNCHANGED <<io_events, interesting_fds, epoll_set>>
    BY <1>3 DEF RemoveAllIOEvents
  <2>3. \A g \in Fds \ {f} : io_prev_events'[g] = io_prev_events[g]
    BY <1>3 DEF RemoveAllIOEvents, TypeOK, IOTypes
  <2>4. \A g \in Fds \ {f} : (Synced(g) \/ Deaf(g))'
    BY <2>1, <2>2, <2>3, PollerAssumption DEF Watched, Synced, Deaf, Existing
  <2> QED  BY <2>1, <2>4 DEF Watched, NoHits
<1>4. CASE CloseErase
  <2>1. /\ pc' \notin {"io", "wait"}
        /\ UNCHANGED <<io_prev_events, epoll_set, closing, interesting_fds>>
    BY <1>4 DEF CloseErase, coVars
  <2> QED  BY <1>4, <2>1, CloseEraseEffect, WatchedFrame
<1>5. CASE CloseEnd
  <2>1. /\ closing \in Fds /\ closing' = NoFd /\ hits' = NoHits /\ pc' # "wait"
        /\ Existing(closing) = {}
    BY <1>5 DEF CloseEnd, Control, TypeOK, LoopTypes
  <2>2. UNCHANGED <<io_events, io_prev_events>> /\ interesting_fds' = interesting_fds \ {closing}
    BY <1>5 DEF CloseEnd
  <2>3. \A g \in Fds : epoll_set'[g] = IF g = closing THEN {} ELSE epoll_set[g]
    BY <1>5, <2>1 DEF CloseEnd, TypeOK, IOTypes
  <2>4. ASSUME NEW g \in Fds
        PROVE  (Synced(g) \/ Deaf(g))'
    <3>1. Existing(g)' = Existing(g)
      BY <2>2 DEF Existing
    <3>2. CASE g = closing /\ g \notin HighFds
      <4>1. io_prev_events[g] = {}
        BY <3>2, <1>5 DEF CloseEnd, Control
      <4> QED  BY <2>1, <2>2, <2>3, <3>1, <3>2, <4>1 DEF Synced
    <3>3. CASE g = closing /\ g \in HighFds
      BY <2>3, <3>3 DEF Deaf
    <3>4. CASE g # closing
      <4>1. Synced(g) \/ Deaf(g)
        BY <3>4 DEF Watched
      <4> QED  BY <2>2, <2>3, <3>1, <3>4, <4>1 DEF Synced, Deaf
    <3> QED  BY <3>2, <3>3, <3>4
  <2> QED  BY <2>1, <2>4 DEF Watched, NoHits
<1>6. CASE Trim
  <2>1. /\ closing = NoFd /\ closing' = closing /\ hits' = NoHits
        /\ CtlFailing = {} /\ UNCHANGED <<io_events, interesting_fds>>
    BY <1>6 DEF Trim, TrimIOEvents, Control, coVars, waitVars
  <2>2. \A g \in Fds :
          /\ io_prev_events'[g] = IF g \in Stale THEN Existing(g) ELSE io_prev_events[g]
          /\ epoll_set'[g] = IF g \in Stale THEN Existing(g) ELSE epoll_set[g]
    BY <1>6 DEF Trim, TrimIOEvents
  <2>3. ASSUME NEW g \in Fds
        PROVE  /\ (Synced(g) \/ Deaf(g))'
               /\ (epoll_set[g] = Existing(g) \/ Deaf(g))'
    <3>1. Existing(g)' = Existing(g)
      BY <2>1 DEF Existing
    <3>2. CASE g \in Stale
      BY <2>2, <3>1, <3>2 DEF Synced
    <3>3. CASE g \notin Stale
      <4>1. Synced(g) \/ Deaf(g)
        BY <2>1, PollerAssumption DEF Watched
      <4>2. CASE Deaf(g)
        BY <2>2, <3>3, <4>2 DEF Deaf
      <4>3. CASE Synced(g)
        <5>1. Existing(g) = io_prev_events[g]
          BY <3>3, <4>3 DEF Stale, Synced
        <5> QED  BY <2>1, <2>2, <3>1, <3>3, <4>3, <5>1 DEF Synced
      <4> QED  BY <4>1, <4>2, <4>3
    <3> QED  BY <3>2, <3>3
  <2> QED  BY <2>1, <2>3 DEF Watched, NoHits
<1>7. CASE PopBoundEvent
  <2>1. /\ Head(triggered_bound_events) \in Waits /\ pc' = "bound"
        /\ UNCHANGED <<io_prev_events, epoll_set, closing>>
    BY <1>7 DEF PopBoundEvent, TypeOK, BoundTypes, coVars
  <2>2. CASE PopBoundIOEvent(Head(triggered_bound_events))
    <3>1. PICK f \in Fds : /\ interesting_fds' = interesting_fds \cup {f}
                           /\ \A g \in Fds \ {f} : Existing(g)' = Existing(g)
      BY <2>1, <2>2, PopBoundIOEventEffect
    <3> QED  BY <2>1, <3>1, WatchedFrame
  <2>3. CASE UNCHANGED <<io_events, interesting_fds, total_io_events>>
    <3>1. hits' = NoHits
      BY <2>1 DEF Control
    <3> QED  BY <2>1, <2>3, <3>1 DEF Watched, Synced, Deaf, Existing, NoHits
  <2> QED  BY <1>7, <2>2, <2>3 DEF PopBoundEvent, PopBoundUserEvent
<1>8. ASSUME NEW f \in Fds, PopIOEvent(f)
      PROVE  Watched'
  <2>1. /\ pc' = "io" /\ interesting_fds' = interesting_fds \cup {f}
        /\ hits' = [hits EXCEPT ![f] = {}]
        /\ UNCHANGED <<io_prev_events, epoll_set, closing>>
    BY <1>8 DEF PopIOEvent, coVars
  <2>2. \A g \in Fds \ {f} : Existing(g)' = Existing(g)
    BY <1>8, PopIOEventEffect
  <2>3. \A g \in Fds \ {closing} : (Synced(g) \/ Deaf(g))'
    <3> SUFFICES ASSUME NEW g \in Fds \ {closing}
                 PROVE  (Synced(g) \/ Deaf(g))'
      OBVIOUS
    <3>1. Synced(g) \/ Deaf(g)
      BY DEF Watched
    <3>2. g = f \/ Existing(g)' = Existing(g)
      BY <2>2
    <3> QED  BY <2>1, <3>1, <3>2 DEF Synced, Deaf
  <2>4. \A g \in Fds : (hits[g] \subseteq Existing(g))'
    <3> SUFFICES ASSUME NEW g \in Fds
                 PROVE  (hits[g] \subseteq Existing(g))'
      OBVIOUS
    <3>1. CASE g = f
      BY <2>1, <3>1 DEF TypeOK, LoopTypes
    <3>2. CASE g # f
      <4>1. hits'[g] = hits[g] /\ Existing(g)' = Existing(g)
        BY <2>1, <2>2, <3>2 DEF TypeOK, LoopTypes
      <4> QED  BY <4>1 DEF Watched
    <3> QED  BY <3>1, <3>2
  <2> QED  BY <2>1, <2>3, <2>4 DEF Watched
<1> QED  BY <1>1, <1>2, <1>3, <1>4, <1>5, <1>6, <1>7, <1>8, IOStepIs DEF IOStep

\* The three go together: a descriptor must not be reported for an empty queue, or the
\* turn's array holds what is no event.
LEMMA BasicStep ==
  ASSUME TypeOK, Control, Watched, [Next]_vars
  PROVE  (TypeOK /\ Control /\ Watched)'
<1>1. TypeOK'
  BY IOTypesStep, TimeTypesStep, UserTypesStep, BoundTypesStep, LoopTypesStep,
     TodoTypesStep, HistTypesStep DEF TypeOK
<1>2. Control'
  BY ControlStep
<1> QED  BY <1>1, <1>2, WatchedStep

\* It holds to begin with.
LEMMA BasicInit ==
  ASSUME Init
  PROVE  TypeOK /\ Control /\ Watched
<1>1. IOTypes /\ TimeTypes /\ UserTypes /\ BoundTypes /\ LoopTypes /\ TodoTypes /\ HistTypes
  <2>1. IOTypes
    <3>1. <<>> \in Seq(IOWaits)
      OBVIOUS
    <3> QED  BY <3>1 DEF Init, IOTypes, NoHits
  <2>2. TimeTypes /\ HistTypes
    BY DEF Init, TimeTypes, HistTypes, Never
  <2>3. UserTypes
    <3>1. <<>> \in Seq(UserWaits)
      OBVIOUS
    <3> QED  BY <3>1 DEF Init, UserTypes
  <2>4. BoundTypes /\ TodoTypes
    <3>1. <<>> \in Seq(Waits)
      OBVIOUS
    <3> QED  BY <3>1 DEF Init, BoundTypes, TodoTypes
  <2>5. LoopTypes
    BY DEF Init, LoopTypes, Counters, NoHits
  <2> QED  BY <2>1, <2>2, <2>3, <2>4, <2>5
<1>2. Control
  BY PollerAssumption DEF Init, Control
<1>3. \A f \in Fds : Existing(f) = {} /\ epoll_set[f] = {} /\ io_prev_events[f] = {} /\ hits[f] = {}
  BY DEF Init, Existing, NoHits
<1>4. Watched
  BY <1>3 DEF Watched, Synced, Init
<1> QED  BY <1>1, <1>2, <1>4 DEF TypeOK

\* Every variable of the loop keeps its type; in particular the turn's array only ever
\* holds waits, whatever is closed, cancelled or timed out in between.
THEOREM TypeCorrect == Spec => []TypeOK
<1>1. TypeOK /\ Control /\ Watched /\ [Next]_vars => (TypeOK /\ Control /\ Watched)'
  BY BasicStep
<1> QED  BY <1>1, BasicInit, PTL DEF Spec

\* Whenever the loop blocks, the kernel watches exactly what coroutines wait for on a low
\* descriptor, and nothing else on a high one: TrimIOEvents and the socket's destructor
\* keep epoll's interest list in step, and no report finds an empty queue.
THEOREM EpollWatches ==
  Spec => [](/\ pc = "wait" => /\ \A f \in Fds \ HighFds : epoll_set[f] = Existing(f)
                               /\ \A f \in HighFds : epoll_set[f] \subseteq Existing(f)
             /\ \A f \in Fds : hits[f] \subseteq Existing(f))
<1>1. TypeOK /\ Control /\ Watched /\ [Next]_vars => (TypeOK /\ Control /\ Watched)'
  BY BasicStep
<1>2. Watched => /\ pc = "wait" =>
                      /\ \A f \in Fds \ HighFds : epoll_set[f] = Existing(f)
                      /\ \A f \in HighFds : epoll_set[f] \subseteq Existing(f)
                 /\ \A f \in Fds : hits[f] \subseteq Existing(f)
  BY PollerAssumption DEF Watched, Deaf
<1> QED  BY <1>1, <1>2, BasicInit, PTL DEF Spec

-----------------------------------------------------------------------------
(* Wakeups.                                                                *)

\* What leaves the list of triggered user events leaves the turn's user events too.
LEMMA CollectRange ==
  ASSUME NEW S, NEW q \in Seq(S), NEW n \in 0 .. Len(q)
  PROVE  /\ Range(q) \subseteq Range(SubSeq(q, 1, n)) \cup Range(SubSeq(q, n + 1, Len(q)))
         /\ SubSeq(q, n + 1, Len(q)) # <<>> => n < Len(q)
         /\ n = 0 => SubSeq(q, n + 1, Len(q)) = q
<1> DEFINE a == SubSeq(q, 1, n)  b == SubSeq(q, n + 1, Len(q))
<1>1. Len(q) \in Nat /\ DOMAIN q = 1 .. Len(q) /\ n \in Nat /\ n <= Len(q)
  OBVIOUS
<1>2. DOMAIN a = 1 .. n /\ \A i \in 1 .. n : a[i] = q[i]
  BY <1>1
<1>3. Len(b) = Len(q) - n /\ DOMAIN b = 1 .. Len(q) - n
  <2>1. \A i \in n + 1 .. Len(q) : q[i] \in S
    BY <1>1
  <2>2. b \in Seq(S) /\ Len(b) = IF n + 1 <= Len(q) THEN Len(q) - (n + 1) + 1 ELSE 0
    BY <1>1, <2>1, SubSeqProperties
  <2> HIDE DEF b
  <2>3. Len(b) = Len(q) - n
    <3>1. CASE n + 1 <= Len(q)
      BY <1>1, <2>2, <3>1
    <3>2. CASE ~(n + 1 <= Len(q))
      <4>1. \A k, m \in Nat : k <= m /\ ~(k + 1 <= m) => k = m
        OBVIOUS
      <4>2. Len(b) = 0
        BY <2>2, <3>2, Zenon
      <4>3. n = Len(q)
        BY <1>1, <3>2, <4>1, Zenon
      <4> QED  BY <1>1, <4>2, <4>3
    <3> QED  BY <3>1, <3>2
  <2> QED  BY <2>2, <2>3
<1>4. \A i \in 1 .. Len(q) - n : b[i] = q[n + i]
  BY <1>1
<1> HIDE DEF a, b
<1>8. ASSUME NEW i \in 1 .. Len(q)
      PROVE  q[i] \in Range(a) \cup Range(b)
  <2>1. CASE i <= n
    <3>1. i \in DOMAIN a /\ a[i] = q[i]
      BY <1>1, <1>2, <2>1
    <3> QED  BY <3>1 DEF Range
  <2>2. CASE i > n
    <3>1. i - n \in 1 .. Len(q) - n /\ n + (i - n) = i
      BY <1>1, <2>2
    <3>2. b[i - n] = q[i] /\ i - n \in DOMAIN b
      BY <1>3, <1>4, <3>1
    <3> QED  BY <3>2 DEF Range
  <2> QED  BY <1>1, <2>1, <2>2
<1>5. Range(q) \subseteq Range(a) \cup Range(b)
  BY <1>1, <1>8 DEF Range
<1>6. b # <<>> => n < Len(q)
  BY <1>1 DEF b
<1>7. n = 0 => b = q
  BY <1>1 DEF b
<1> QED  BY <1>5, <1>6, <1>7 DEF a, b

\* Appending adds one element to the range.
LEMMA AppendRange ==
  ASSUME NEW S, NEW q \in Seq(S), NEW e
  PROVE  Range(Append(q, e)) = Range(q) \cup {e}
<1> DEFINE r == Append(q, e)
<1>1. /\ Len(q) \in Nat /\ DOMAIN q = 1 .. Len(q) /\ DOMAIN r = 1 .. Len(q) + 1
      /\ r[Len(q) + 1] = e /\ \A i \in 1 .. Len(q) : r[i] = q[i]
  BY AppendProperties
<1>2. DOMAIN r = DOMAIN q \cup {Len(q) + 1}
  BY <1>1
<1> HIDE DEF r
<1>3. Range(r) = Range(q) \cup {e}
  BY <1>1, <1>2 DEF Range
<1> QED  BY <1>3 DEF r

\* Woken is inductive relative to TypeOK.
LEMMA WokenStep ==
  ASSUME TypeOK, Woken, [Next]_vars
  PROVE  Woken'
<1>1. ASSUME UNCHANGED <<userVars, triggered_bound_events, need_to_write_again>>,
             pc' = "wait" => pc = "wait", pc = "bound" => pc' = "bound"
      PROVE  Woken'
  BY <1>1 DEF Woken, userVars, Range
<1>2. ASSUME NEW e \in UserWaits, NEW a \in AbortHandles, AddUserEvent(e, a)
      PROVE  Woken'
  BY <1>2 DEF AddUserEvent, Running, Woken, Range, boundVars, waitVars
<1>3. CASE Trim
  <2>1. is_event_fd_added' = ShouldAddEpoll /\ pc = "trim" /\ pc' # "bound"
    BY <1>3 DEF Trim
  <2>2. UNCHANGED <<user_event_fd, pending_user_events, triggered_user_events, user_events,
                    triggered_bound_events, need_to_write_again>>
    BY <1>3 DEF Trim, boundVars, waitVars
  <2>3. user_events # {} \/ triggered_user_events # <<>> => ShouldAddEpoll
    <3>1. triggered_user_events = <<>> => Range(triggered_user_events) = {}
      BY DEF Range
    <3> QED  BY <3>1 DEF Woken, ShouldAddEpoll
  <2> QED  BY <2>1, <2>2, <2>3 DEF Woken, Range
<1>4. CASE TimerStep \/ Cancel
  <2>1. \/ triggered_bound_events' = triggered_bound_events /\ user_event_fd' = user_event_fd
        \/ user_event_fd' = TRUE
    BY <1>4 DEF TimerStep, Cancel, TriggerBoundEvent, boundVars
  <2>2. UNCHANGED <<pc, is_event_fd_added, pending_user_events, triggered_user_events,
                    user_events, need_to_write_again>>
    BY <1>4 DEF TimerStep, Cancel, waitVars
  <2> QED  BY <2>1, <2>2 DEF Woken, Range
<1>5. CASE CollectUserEvents
  <2>1. PICK n \in 0 .. Len(triggered_user_events) :
          /\ triggered_user_events' = SubSeq(triggered_user_events, n + 1,
                                             Len(triggered_user_events))
          /\ user_events' = user_events \ Range(SubSeq(triggered_user_events, 1, n))
          /\ ~is_user_event_triggered => n = 0 /\ user_event_fd' = user_event_fd
          /\ is_user_event_triggered =>
               (need_to_write_again' <=> n < Len(triggered_user_events))
    BY <1>5, CollectEffect
  <2>2. pc = "lock" /\ pc' = "bound" /\ UNCHANGED <<is_event_fd_added, pending_user_events>>
    BY <1>5 DEF CollectUserEvents
  <2>3. triggered_user_events \in Seq(UserWaits)
    BY DEF TypeOK, UserTypes
  <2>4. /\ Range(triggered_user_events) \subseteq
             Range(SubSeq(triggered_user_events, 1, n)) \cup Range(triggered_user_events')
        /\ triggered_user_events' # <<>> => n < Len(triggered_user_events)
        /\ n = 0 => triggered_user_events' = triggered_user_events
    BY <2>1, <2>3, CollectRange
  <2>5. user_events' \subseteq pending_user_events' \cup Range(triggered_user_events')
    BY <2>1, <2>2, <2>4 DEF Woken
  <2>6. triggered_user_events' # <<>> => user_event_fd' \/ need_to_write_again'
    BY <2>1, <2>2, <2>4 DEF Woken
  <2> QED  BY <2>2, <2>5, <2>6 DEF Woken, Range
<1>6. CASE PopBoundEvent
  <2>1. /\ pc = "bound" /\ pc' = "bound"
        /\ UNCHANGED <<user_event_fd, is_event_fd_added, triggered_user_events,
                       need_to_write_again>>
    BY <1>6 DEF PopBoundEvent, waitVars
  <2>2. \/ UNCHANGED <<pending_user_events, user_events>>
        \/ \E e : /\ pending_user_events' = pending_user_events \ {e}
                  /\ user_events' = user_events \ {e}
    BY <1>6 DEF PopBoundEvent, PopBoundIOEvent, PopBoundUserEvent
  <2>3. user_events' \subseteq pending_user_events' \cup Range(triggered_user_events')
    BY <2>1, <2>2 DEF Woken, Range
  <2> QED  BY <2>1, <2>3 DEF Woken
<1>7. CASE EndWait
  <2>1. /\ user_event_fd' = (user_event_fd \/ WriteAgain) /\ need_to_write_again' = FALSE
        /\ pc' \notin {"wait", "bound"}
        /\ UNCHANGED <<is_event_fd_added, pending_user_events, triggered_user_events,
                       user_events, triggered_bound_events>>
    BY <1>7 DEF EndWait, boundVars
  <2> QED  BY <2>1 DEF Woken, WriteAgain, Range
<1>8. ASSUME NEW e \in UserWaits, TriggerUserEvent(e)
      PROVE  Woken'
  <2>1. UNCHANGED <<pc, is_event_fd_added, user_events, triggered_bound_events,
                    need_to_write_again>>
    BY <1>8 DEF TriggerUserEvent, boundVars, waitVars
  <2>2. CASE e \in user_events
    <3>1. /\ pending_user_events' = pending_user_events \ {e} /\ user_event_fd' = TRUE
          /\ triggered_user_events' = Append(triggered_user_events, e)
      BY <1>8, <2>2 DEF TriggerUserEvent
    <3>2. Range(triggered_user_events') = Range(triggered_user_events) \cup {e}
      BY <3>1, AppendRange DEF TypeOK, UserTypes
    <3> QED  BY <2>1, <2>2, <3>1, <3>2 DEF Woken
  <2>3. CASE e \notin user_events
    BY <1>8, <2>1, <2>3 DEF TriggerUserEvent, Woken, Range
  <2> QED  BY <2>2, <2>3
<1>9. CASE NotifyEventLoop
  BY SMTT(60), <1>9 DEF NotifyEventLoop, Woken, Range, boundVars, waitVars
<1>10. \/ UNCHANGED <<userVars, triggered_bound_events, need_to_write_again>>
          /\ (pc' = "wait" => pc = "wait") /\ (pc = "bound" => pc' = "bound")
       \/ \E e \in UserWaits, a \in AbortHandles : AddUserEvent(e, a)
       \/ Trim \/ TimerStep \/ Cancel \/ CollectUserEvents \/ PopBoundEvent \/ EndWait
       \/ \E e \in UserWaits : TriggerUserEvent(e)
       \/ NotifyEventLoop
  BY ZenonT(60) DEF Next, vars, Coroutine, Loop, AddIOEvent, AddTimeEvent, Register, Running,
      RemoveAllIOEvents, ArmUserEvent, Suspend, CloseResume, CloseErase, CloseEnd,
      Resume, TrimFails, PopIOEvent, IODone, TimersDone, EpollWait, Signal, Unsupported,
      Tick, Terminated, boundVars, waitVars
<1> QED  BY <1>1, <1>2, <1>3, <1>4, <1>5, <1>6, <1>7, <1>8, <1>9, <1>10

\* A coroutine whose event TriggerUserEvent accepted is never left behind an eventfd that
\* is not readable or not watched: the read of the eventfd, the events that did not fit
\* into the turn and TrimUserEvents' decision leave no gap, at whatever limit.
THEOREM NoWakeupIsLost == Spec => []NoLostWakeup
<1>1. Init => Woken
  BY DEF Init, Woken, Range
<1>2. Woken => NoLostWakeup
  BY DEF Woken, NoLostWakeup
<1> QED  BY <1>1, <1>2, WokenStep, TypeCorrect, PTL DEF Spec

\* A bound event that was triggered, by a timeout or by Cancel, is announced by the
\* eventfd until PopBoundEvent has dealt with it.
THEOREM BoundEventsAnnounced ==
  Spec => [](triggered_bound_events # <<>> => user_event_fd \/ pc = "bound")
<1>1. Init => Woken
  BY DEF Init, Woken, Range
<1>2. Woken => (triggered_bound_events # <<>> => user_event_fd \/ pc = "bound")
  BY DEF Woken
<1> QED  BY <1>1, <1>2, WokenStep, TypeCorrect, PTL DEF Spec

-----------------------------------------------------------------------------
(* Timeouts.                                                               *)

\* A bound event is added for a wait that has none.
LEMMA TimersAdd ==
  ASSUME TypeOK, TypeOK', Timers, Agree, NEW e \in Waits, NEW a \in Handles,
         a.kind = "timeout" <=> a.at # Never, AddBoundEvent(e, a),
         e \notin Armed, e \in created', created \subseteq created', created' \subseteq created \cup {e},
         arming' = {}, \A b \in arming : b[1] = e
  PROVE  Timers' /\ Agree'
<1>1. /\ deadline' = [deadline EXCEPT ![e] = a.at] /\ deadline \in [Waits -> Int]
      /\ a.kind \in {"none", "token", "timeout"} /\ a.at \in Int
  BY DEF AddBoundEvent, TypeOK, HistTypes, Handles
<1>2. Armed' = created' /\ Armed \subseteq Armed' /\ e \in Armed'
  BY DEF Armed
<1>3. \A d \in Waits : deadline'[d] = IF d = e THEN a.at ELSE deadline[d]
  BY <1>1
<1>4. /\ \A ev \in time_events : ev.id \in Waits /\ ev.id # e
      /\ pending_bound_events \subseteq Waits \ {e}
      /\ registered \in Seq(Waits) /\ \A i \in DOMAIN registered : registered[i] \in Waits \ {e}
  <2>1. \A ev \in time_events : ev.id \in Waits /\ ev.id # e
    BY DEF TypeOK, TimeTypes, TimeEvents, Timers
  <2>2. pending_bound_events \subseteq Waits \ {e}
    BY DEF TypeOK, BoundTypes, Timers
  <2>3. registered \in Seq(Waits)
    BY DEF TypeOK, BoundTypes
  <2>4. \A i \in DOMAIN registered : registered[i] \in Waits \ {e}
    BY <2>3 DEF Timers
  <2> QED  BY <2>1, <2>2, <2>3, <2>4
<1> DEFINE new == [id |-> e, wake |-> a.at, trigger |-> TRUE, valid |-> TRUE]
<1>5. CASE a.kind = "none"
  <2>1. UNCHANGED <<pending_bound_events, time_events, registered>> /\ a.at = Never
    BY <1>5 DEF AddBoundEvent
  <2>2. Timers'
    BY <1>2, <1>3, <1>4, <2>1 DEF Timers
  <2>3. Agree'
    BY <1>3, <1>4, <2>1 DEF Agree, ArmedTimeout
  <2> QED  BY <2>2, <2>3
<1>6. CASE a.kind = "token"
  <2>1. /\ registered' = Append(registered, e) /\ time_events' = time_events
        /\ pending_bound_events' = pending_bound_events \cup {e} /\ a.at = Never
    BY <1>6 DEF AddBoundEvent
  <2>2. \A i \in DOMAIN registered' :
          (i \in DOMAIN registered /\ registered'[i] = registered[i]) \/ registered'[i] = e
    BY <1>4, <2>1
  <2>3. \A i \in DOMAIN registered' :
          registered'[i] \in Armed' /\ deadline'[registered'[i]] = Never
    BY <1>2, <1>3, <1>4, <2>1, <2>2 DEF Timers
  <2>4. Timers'
    BY <1>2, <1>3, <1>4, <2>1, <2>3 DEF Timers
  <2>5. Agree'
    BY <1>3, <1>4, <2>1 DEF Agree, ArmedTimeout
  <2> QED  BY <2>4, <2>5
<1>7. CASE a.kind = "timeout"
  <2>1. /\ time_events' = time_events \cup {new} /\ registered' = registered
        /\ pending_bound_events' = pending_bound_events \cup {e} /\ a.at # Never
    BY <1>7 DEF AddBoundEvent
  <2>2. new.id = e /\ new.wake = a.at /\ new.trigger /\ new.valid
    OBVIOUS
  <2> HIDE DEF new
  <2>3. \A ev \in time_events' : ev.id \in Armed' /\ ev.wake = deadline'[ev.id]
    BY <1>2, <1>3, <1>4, <2>1, <2>2 DEF Timers
  <2>4. \A ev, o \in time_events' : ev.trigger /\ o.trigger /\ ev.id = o.id => ev = o
    BY <1>4, <2>1, <2>2 DEF Timers
  <2>5. Timers'
    BY <1>2, <1>3, <1>4, <2>1, <2>3, <2>4 DEF Timers
  <2>6. \A d \in Waits : ArmedTimeout(d)' <=> d = e \/ ArmedTimeout(d)
    BY <2>1, <2>2 DEF ArmedTimeout
  <2>7. Agree'
    BY <1>3, <1>4, <2>1, <2>6 DEF Agree
  <2> QED  BY <2>5, <2>7
<1> QED  BY <1>1, <1>5, <1>6, <1>7

\* The clock's loop removes the event on top of the heap; a timeout that is due and
\* armed triggers its bound event.
LEMMA TimersFire ==
  ASSUME TypeOK, Timers, Agree, TimerStep
  PROVE  Timers' /\ Agree'
<1>1. UNCHANGED <<created, arming, registered, deadline>>
  BY DEF TimerStep, coVars, tokenVars, histVars
<1>2. PICK ev \in time_events :
        /\ time_events' = time_events \ {ev}
        /\ \/ ~ev.valid /\ UNCHANGED boundVars
           \/ ev.valid /\ ev.trigger /\ TriggerBoundEvent(ev.id)
           \/ ev.valid /\ ~ev.trigger /\ UNCHANGED boundVars
  BY DEF TimerStep, Earliest
<1>3. pending_bound_events' \subseteq pending_bound_events
  BY <1>2 DEF TriggerBoundEvent, boundVars
<1>4. Timers'
  BY <1>1, <1>2, <1>3 DEF Timers, Armed
<1>5. CASE ev.valid /\ ev.trigger /\ TriggerBoundEvent(ev.id)
  <2>1. ev.id \in Waits /\ ev.id \in pending_bound_events
    BY <1>5 DEF Agree, ArmedTimeout, TypeOK, TimeTypes, TimeEvents
  <2>2. pending_bound_events' = pending_bound_events \ {ev.id}
    BY <1>5, <2>1 DEF TriggerBoundEvent
  <2>3. \A e \in Waits : ArmedTimeout(e)' <=> ArmedTimeout(e) /\ e # ev.id
    BY <1>2, <1>5 DEF Timers, ArmedTimeout
  <2>4. Agree'
    BY <1>1, <2>2, <2>3 DEF Agree
  <2> QED  BY <1>4, <2>4
<1>6. CASE ~(ev.valid /\ ev.trigger) /\ UNCHANGED boundVars
  <2>1. \A e \in Waits : ArmedTimeout(e)' <=> ArmedTimeout(e)
    BY <1>2, <1>6 DEF ArmedTimeout
  <2>2. Agree'
    BY <1>1, <1>6, <2>1 DEF Agree, boundVars
  <2> QED  BY <1>4, <2>2
<1> QED  BY <1>2, <1>5, <1>6

\* RemoveBoundEvent takes the bound events of what the turn resumes anyway, and makes
\* their timeouts invalid.
LEMMA TimersRemove ==
  ASSUME TypeOK, Timers, Agree, NEW ids, RemoveBoundEvent(ids),
         UNCHANGED <<created, arming, registered, deadline>>
  PROVE  Timers' /\ Agree'
<1> DEFINE bounds == pending_bound_events \cap ids
           mark(ev) == IF ev.trigger /\ ev.id \in bounds
                       THEN [ev EXCEPT !.valid = FALSE] ELSE ev
<1>1. /\ pending_bound_events' = pending_bound_events \ bounds
      /\ time_events' = {mark(ev) : ev \in time_events}
  BY DEF RemoveBoundEvent
<1>2. ASSUME NEW ev \in time_events
      PROVE  /\ mark(ev).id = ev.id /\ mark(ev).wake = ev.wake
             /\ mark(ev).trigger = ev.trigger
             /\ ev.trigger => (mark(ev).valid <=> ev.valid /\ ev.id \notin bounds)
  <2>1. ev \in TimeEvents
    BY DEF TypeOK, TimeTypes
  <2> QED  BY <2>1 DEF TimeEvents
<1> HIDE DEF mark, bounds
<1>3. \A ev \in time_events' : ev.id \in Armed' /\ ev.wake = deadline'[ev.id]
  BY <1>1, <1>2 DEF Timers, Armed
<1>4. \A ev, o \in time_events' : ev.trigger /\ o.trigger /\ ev.id = o.id => ev = o
  BY <1>1, <1>2 DEF Timers
<1>5. Timers'
  BY <1>1, <1>3, <1>4 DEF Timers, Armed
<1>6. \A e \in Waits : ArmedTimeout(e)' <=> ArmedTimeout(e) /\ e \notin bounds
  BY <1>1, <1>2 DEF ArmedTimeout
<1>7. Agree'
  BY SMTT(60), <1>1, <1>6 DEF Agree
<1> QED  BY <1>5, <1>7

\* Timers and Agree are inductive relative to TypeOK.
LEMMA TimersStep ==
  ASSUME TypeOK, TypeOK', Timers, Agree, [Next]_vars
  PROVE  Timers' /\ Agree'
<1>1. CASE UNCHANGED <<created, arming, registered, deadline, time_events, pending_bound_events>>
  BY <1>1 DEF Timers, Armed, Agree, ArmedTimeout
<1>2. ASSUME NEW e \in IOWaits, NEW f \in Fds, NEW t \in IOType, NEW a \in AbortHandles,
             AddIOEvent(e, f, t, a)
      PROVE  Timers' /\ Agree'
  <2>1. /\ AddBoundEvent(e, a) /\ arming = {} /\ arming' = {} /\ e \in Waits
        /\ e \notin created /\ created' = created \cup {e}
    BY <1>2 DEF AddIOEvent, Running, coVars, Waits
  <2>2. e \notin Armed
    BY <2>1 DEF Armed
  <2> QED  BY <2>1, <2>2, HandleType, TimersAdd
<1>3. ASSUME NEW e \in Sleeps, NEW d \in Delays, AddTimeEvent(e, d)
      PROVE  Timers' /\ Agree'
  <2> DEFINE new == [id |-> e, wake |-> now + d, trigger |-> FALSE, valid |-> TRUE]
  <2>1. /\ e \in Waits \ created /\ created' = created \cup {e} /\ arming = {}
        /\ deadline' = [deadline EXCEPT ![e] = now + d]
        /\ time_events' = time_events \cup {new}
        /\ UNCHANGED <<arming, registered, pending_bound_events>>
    BY <1>3 DEF AddTimeEvent, Running, Waits, coVars, tokenVars, boundVars
  <2>2. new.id = e /\ new.wake = now + d /\ ~new.trigger
    OBVIOUS
  <2> HIDE DEF new
  <2>3. \A c \in Waits : deadline'[c] = IF c = e THEN now + d ELSE deadline[c]
    BY <2>1 DEF TypeOK, HistTypes
  <2>4. /\ Armed = created /\ Armed' = created' /\ \A c \in Armed : c \in Waits /\ c # e
    BY <2>1 DEF Armed, TypeOK, HistTypes
  <2>5. Timers'
    <3>1. \A ev \in time_events' : ev.id \in Armed' /\ ev.wake = deadline'[ev.id]
      BY <2>1, <2>2, <2>3, <2>4 DEF Timers
    <3>2. \A ev, o \in time_events' : ev.trigger /\ o.trigger /\ ev.id = o.id => ev = o
      BY <2>1, <2>2 DEF Timers
    <3>3. \A i \in DOMAIN registered' :
            registered'[i] \in Armed' /\ deadline'[registered'[i]] = Never
      BY <2>1, <2>3, <2>4 DEF Timers
    <3> QED  BY <2>1, <2>4, <3>1, <3>2, <3>3 DEF Timers
  <2>6. \A c \in Waits : ArmedTimeout(c)' <=> ArmedTimeout(c)
    BY <2>1, <2>2 DEF ArmedTimeout
  <2>7. e \notin pending_bound_events
    BY <2>4 DEF Timers
  <2>8. Agree'
    BY <2>1, <2>3, <2>6, <2>7 DEF Agree
  <2> QED  BY <2>5, <2>8
<1>4. ASSUME NEW e \in UserWaits, NEW a \in AbortHandles, AddUserEvent(e, a)
      PROVE  Timers' /\ Agree'
  <2>1. /\ e \notin created /\ created' = created \cup {e} /\ arming = {}
        /\ arming' \subseteq {<<e, a>>}
        /\ UNCHANGED <<registered, deadline, time_events, pending_bound_events>>
    BY <1>4 DEF AddUserEvent, Running, tokenVars, timeVars, boundVars
  <2>2. a.kind = "timeout" <=> a.at # Never
    BY HandleType
  <2>3. Armed \subseteq Armed'
    BY <2>1 DEF Armed
  <2>4. Timers'
    BY <2>1, <2>2, <2>3 DEF Timers
  <2>5. Agree'
    BY <2>1 DEF Agree, ArmedTimeout
  <2> QED  BY <2>4, <2>5
<1>5. CASE ArmUserEvent
  <2>1. PICK a \in arming : a[1] \in UserWaits /\ a[2] \in Handles /\ AddBoundEvent(a[1], a[2])
    BY <1>5, Arms
  <2>2. arming' = {} /\ created' = created
    BY <1>5 DEF ArmUserEvent
  <2>3. /\ a[1] \in created /\ (a[2].kind = "timeout" <=> a[2].at # Never)
        /\ \A b \in arming : b[1] = a[1]
    BY DEF Timers
  <2>4. a[1] \notin Armed /\ a[1] \in Waits
    BY <2>1 DEF Armed, Waits
  <2> QED  BY <2>1, <2>2, <2>3, <2>4, TimersAdd
<1>6. CASE Trim
  <2>1. PICK gone \in SUBSET {ev \in time_events : ~ev.valid} : time_events' = time_events \ gone
    BY <1>6 DEF Trim, TrimTimeEvents
  <2>2. UNCHANGED <<created, arming, registered, deadline, pending_bound_events>>
    BY <1>6 DEF Trim, coVars, tokenVars, histVars, boundVars
  <2>3. Timers'
    BY <2>1, <2>2 DEF Timers, Armed
  <2>4. \A e \in Waits : ArmedTimeout(e)' <=> ArmedTimeout(e)
    BY <2>1 DEF ArmedTimeout
  <2> QED  BY <2>2, <2>3, <2>4 DEF Agree
<1>7. CASE TimerStep
  BY <1>7, TimersFire
<1>8. CASE CollectUserEvents
  <2>1. PICK ids : RemoveBoundEvent(ids)
    BY <1>8 DEF CollectUserEvents
  <2>2. UNCHANGED <<created, arming, registered, deadline>>
    BY <1>8 DEF CollectUserEvents, coVars, tokenVars, histVars
  <2> QED  BY <2>1, <2>2, TimersRemove
<1>9. CASE Cancel
  <2>1. /\ registered # <<>> /\ registered \in Seq(Waits) /\ registered' = Tail(registered)
        /\ TriggerBoundEvent(Head(registered))
        /\ UNCHANGED <<created, arming, deadline, time_events>>
    BY <1>9 DEF Cancel, TypeOK, BoundTypes, coVars, timeVars
  <2>2. /\ 1 \in DOMAIN registered /\ Head(registered) = registered[1]
        /\ \A i \in DOMAIN registered' : i + 1 \in DOMAIN registered
                                         /\ registered'[i] = registered[i + 1]
    BY <2>1
  <2>3. pending_bound_events' \in {pending_bound_events, pending_bound_events \ {registered[1]}}
    BY <2>1, <2>2 DEF TriggerBoundEvent, boundVars
  <2>4. Timers'
    BY <2>1, <2>2, <2>3 DEF Timers, Armed
  <2>5. deadline[registered[1]] = Never
    BY <2>2 DEF Timers
  <2>6. Agree'
    BY <2>1, <2>3, <2>5 DEF Agree, ArmedTimeout
  <2> QED  BY <2>4, <2>6
<1> QED
  BY <1>1, <1>2, <1>3, <1>4, <1>5, <1>6, <1>7, <1>8, <1>9
  DEF Next, vars, Coroutine, Loop, Register, RemoveAllIOEvents, Suspend, CloseResume,
      CloseErase, CloseEnd, Resume, TrimFails, PopIOEvent, IODone, TimersDone,
      PopBoundEvent, EndWait, EpollWait, Signal, Unsupported, TriggerUserEvent,
      NotifyEventLoop, Tick, Terminated, coVars, tokenVars, histVars, boundVars, timeVars

\* A timeout is armed in the heap exactly as long as its bound event is pending: none
\* that lost the race against readiness, a notification or Cancel stays behind armed,
\* and none is dropped before its time.
THEOREM TimeoutsStayArmed == Spec => []TimeoutsArmed
<1>1. Init => Timers /\ Agree
  BY DEF Init, Timers, Armed, Agree, ArmedTimeout
<1>2. TypeOK /\ Agree => TimeoutsArmed
  <2> SUFFICES ASSUME TypeOK, Agree
               PROVE  TimeoutsArmed
    OBVIOUS
  <2>1. \A ev \in time_events : ev.id \in Waits
    BY DEF TypeOK, TimeTypes, TimeEvents
  <2>2. pending_bound_events \subseteq Waits
    BY DEF TypeOK, BoundTypes
  <2> QED  BY <2>1, <2>2 DEF Agree, ArmedTimeout, TimeoutsArmed
<1> QED  BY <1>1, <1>2, TimersStep, TypeCorrect, PTL DEF Spec

\* The heap's events are due at the deadlines the awaiters computed, and a wait that a
\* token guards has no deadline.
THEOREM TimersAtDeadlines ==
  Spec => [](/\ \A ev \in time_events : ev.id \in created /\ ev.wake = deadline[ev.id]
             /\ \A i \in DOMAIN registered : deadline[registered[i]] = Never)
<1>1. Init => Timers /\ Agree
  BY DEF Init, Timers, Armed, Agree, ArmedTimeout
<1>2. Timers => /\ \A ev \in time_events : ev.id \in created /\ ev.wake = deadline[ev.id]
                /\ \A i \in DOMAIN registered : deadline[registered[i]] = Never
  BY DEF Timers, Armed
<1> QED  BY <1>1, <1>2, TimersStep, TypeCorrect, PTL DEF Spec

-----------------------------------------------------------------------------
(* Where a wait is: Poller's OneHome and InterruptTruthful, for every      *)
(* value of the constants.                                                 *)
(*                                                                         *)
(* Both hold without condition for the waits that are no socket waits.     *)
(* PopBoundEvent reads through an iterator that erase() has invalidated    *)
(* (epoll.cc:453) and hands out another event if the one it took was in    *)
(* the middle of its queue, so for socket waits they rest on ShortQueues:  *)
(* no direction of a descriptor ever has more than two coroutines waiting. *)

ShortQueues == \A f \in Fds, t \in IOType : Len(io_events[f][t]) <= 2

\* e occurs at most once.
Once(q, e) == \A i, j \in DOMAIN q : q[i] = e /\ q[j] = e => i = j

InTriggered(e) == e \in Range(triggered_user_events)
InTodo(e)      == e \in Range(todo_events)

\* A wait for a user event is pending, triggered, in the turn's array, or was resumed.
UserHome(e) ==
  /\ ~(e \in pending_user_events /\ InTriggered(e))
  /\ ~(e \in pending_user_events /\ InTodo(e)) /\ ~(InTriggered(e) /\ InTodo(e))
  /\ e \in pending_user_events \/ InTriggered(e) \/ InTodo(e) => e \in created
  /\ resumes[e] = IF /\ e \in created /\ e \notin pending_user_events
                     /\ ~InTriggered(e) /\ ~InTodo(e) THEN 1 ELSE 0
  /\ InTriggered(e) => e \in notified
  /\ Once(triggered_user_events, e) /\ Once(todo_events, e)

\* A sleep is in the heap, in the turn's array, or was resumed.
SleepHome(e) ==
  /\ ~(InHeap(e) /\ InTodo(e)) /\ (InHeap(e) \/ InTodo(e) => e \in created)
  /\ resumes[e] = IF e \in created /\ ~InHeap(e) /\ ~InTodo(e) THEN 1 ELSE 0
  /\ \A ev, o \in time_events : ~ev.trigger /\ ~o.trigger /\ ev.id = e /\ o.id = e => ev = o
  /\ Once(todo_events, e)

\* A wait on a socket is in one queue of one descriptor, in the turn's array, or was
\* resumed; that of the front event of a walk has been.
QueuedAt(e, f, t) == e \in Range(io_events[f][t])
InQueue(e)        == \E f \in Fds, t \in IOType : QueuedAt(e, f, t)
Walked(e)         == pc = "nested" /\ e = ClosingEvent
IOHome(e) ==
  /\ ~(InQueue(e) /\ InTodo(e)) /\ (InQueue(e) \/ InTodo(e) => e \in created)
  /\ resumes[e] = IF e \in created /\ ~InTodo(e) /\ (InQueue(e) => Walked(e)) THEN 1 ELSE 0
  /\ \A f, g \in Fds, u, v \in IOType :
       QueuedAt(e, f, u) /\ QueuedAt(e, g, v) => f = g /\ u = v
  /\ \A f \in Fds, u \in IOType : Once(io_events[f][u], e)
  /\ Once(todo_events, e)

\* What is no timeout in the heap is a sleep, and valid.
SleepEvents == \A ev \in time_events : ~ev.trigger => ev.valid /\ ev.id \in Sleeps

HomeInv ==
  /\ SleepEvents
  /\ \A e \in UserWaits : UserHome(e)
  /\ \A e \in Sleeps : SleepHome(e)
IOHomeInv == \A e \in IOWaits : IOHome(e)

\* The wait was cancelled, or its deadline is over.
Reached(e) == /\ e \in Armed
              /\ e \in cancelled \/ (deadline[e] # Never /\ deadline[e] <= now)

TruthInv(S) ==
  /\ \A e \in Range(triggered_bound_events) : Reached(e)
  /\ \A e \in interrupted \cap S : Reached(e) /\ e \notin fired /\ e \notin user_events
  /\ pending_user_events \cap fired = {} /\ fired \subseteq created

-----------------------------------------------------------------------------
(* Sequences in which an event occurs at most once.                        *)

\* Appending an event that is not there.
LEMMA OnceAppend ==
  ASSUME NEW S, NEW q \in Seq(S), NEW x, NEW e, Once(q, e), x = e => e \notin Range(q)
  PROVE  Once(Append(q, x), e)
<1> DEFINE r == Append(q, x)
<1>1. /\ Len(q) \in Nat /\ DOMAIN q = 1 .. Len(q) /\ DOMAIN r = 1 .. Len(q) + 1
      /\ r[Len(q) + 1] = x /\ \A i \in 1 .. Len(q) : r[i] = q[i]
  BY AppendProperties
<1>2. \A i \in DOMAIN r : i \in DOMAIN q \/ i = Len(q) + 1
  BY <1>1
<1> HIDE DEF r
<1>3. \A i \in DOMAIN q : q[i] = e => x # e
  BY DEF Range
<1>4. Once(r, e)
  BY <1>1, <1>2, <1>3 DEF Once
<1> QED  BY <1>4 DEF r

\* The tail has all but the head.
LEMMA OnceTail ==
  ASSUME NEW S, NEW q \in Seq(S), q # <<>>, NEW e, Once(q, e)
  PROVE  /\ Once(Tail(q), e) /\ Head(q) \in Range(q)
         /\ e \in Range(Tail(q)) <=> e \in Range(q) /\ e # Head(q)
<1> DEFINE r == Tail(q)
<1>1. /\ Len(q) \in Nat \ {0} /\ DOMAIN q = 1 .. Len(q) /\ DOMAIN r = 1 .. Len(q) - 1
      /\ \A i \in 1 .. Len(q) - 1 : r[i] = q[i + 1]
      /\ Head(q) = q[1]
  OBVIOUS
<1> HIDE DEF r
<1>2. /\ 1 \in DOMAIN q
      /\ \A i \in DOMAIN r : i + 1 \in DOMAIN q /\ r[i] = q[i + 1] /\ i + 1 # 1 /\ i \in Nat
      /\ \A i \in DOMAIN q : i = 1 \/ (i - 1 \in DOMAIN r /\ r[i - 1] = q[i])
  BY <1>1
<1>3. Once(r, e)
  <2> SUFFICES ASSUME NEW i \in DOMAIN r, NEW j \in DOMAIN r, r[i] = e, r[j] = e
               PROVE  i = j
    BY DEF Once
  <2>1. i + 1 = j + 1
    BY <1>2 DEF Once
  <2> QED  BY <1>2, <2>1
<1>4. e \in Range(r) => e \in Range(q) /\ e # q[1]
  BY <1>2 DEF Range, Once
<1>5. ASSUME e \in Range(q), e # q[1]
      PROVE  e \in Range(r)
  <2>1. PICK i \in DOMAIN q : q[i] = e
    BY <1>5 DEF Range
  <2>2. i - 1 \in DOMAIN r /\ r[i - 1] = e
    BY <1>2, <1>5, <2>1
  <2> QED  BY <2>2 DEF Range
<1> QED  BY <1>1, <1>2, <1>3, <1>4, <1>5 DEF r, Range

\* The two parts of a split have it once between them.
LEMMA OnceSplit ==
  ASSUME NEW S, NEW q \in Seq(S), NEW n \in 0 .. Len(q), NEW e, Once(q, e)
  PROVE  LET a == SubSeq(q, 1, n)  b == SubSeq(q, n + 1, Len(q))
         IN  /\ Once(a, e) /\ Once(b, e) /\ ~(e \in Range(a) /\ e \in Range(b))
             /\ e \in Range(q) <=> e \in Range(a) \/ e \in Range(b)
<1> DEFINE a == SubSeq(q, 1, n)  b == SubSeq(q, n + 1, Len(q))
<1>1. Len(q) \in Nat /\ DOMAIN q = 1 .. Len(q) /\ n \in Nat /\ n <= Len(q)
  OBVIOUS
<1>2. DOMAIN a = 1 .. n /\ \A i \in 1 .. n : a[i] = q[i]
  BY <1>1
<1>3. DOMAIN b = 1 .. Len(q) - n /\ \A i \in 1 .. Len(q) - n : b[i] = q[n + i]
  BY <1>1
<1>4. Range(q) \subseteq Range(a) \cup Range(b)
  BY CollectRange
<1> HIDE DEF a, b
<1>5. /\ \A i \in DOMAIN a : i \in DOMAIN q /\ a[i] = q[i] /\ i \in Nat /\ i <= n
      /\ \A i \in DOMAIN b : n + i \in DOMAIN q /\ b[i] = q[n + i] /\ i \in Nat /\ n < n + i
  BY <1>1, <1>2, <1>3
<1>6. Once(a, e)
  BY <1>5 DEF Once
<1>7. Once(b, e)
  <2> SUFFICES ASSUME NEW i \in DOMAIN b, NEW j \in DOMAIN b, b[i] = e, b[j] = e
               PROVE  i = j
    BY DEF Once
  <2>1. n + i = n + j
    BY <1>5 DEF Once
  <2> QED  BY <1>1, <1>5, <2>1
<1>8. ~(e \in Range(a) /\ e \in Range(b))
  <2> SUFFICES ASSUME NEW i \in DOMAIN a, NEW j \in DOMAIN b, a[i] = e, b[j] = e
               PROVE  FALSE
    BY DEF Range
  <2>1. i = n + j
    BY <1>5 DEF Once
  <2> QED  BY <1>1, <1>5, <2>1
<1>9. Range(a) \subseteq Range(q) /\ Range(b) \subseteq Range(q)
  BY <1>5 DEF Range
<1> QED  BY <1>4, <1>6, <1>7, <1>8, <1>9 DEF a, b

\* Putting together what has it once between them.
LEMMA OnceConcat ==
  ASSUME NEW S, NEW a \in Seq(S), NEW b \in Seq(S), NEW e, Once(a, e), Once(b, e),
         ~(e \in Range(a) /\ e \in Range(b))
  PROVE  Once(a \o b, e) /\ Range(a \o b) = Range(a) \cup Range(b) /\ a \o b \in Seq(S)
<1> DEFINE c == a \o b
<1>1. /\ c \in Seq(S) /\ Len(a) \in Nat /\ Len(b) \in Nat
      /\ DOMAIN a = 1 .. Len(a) /\ DOMAIN b = 1 .. Len(b) /\ DOMAIN c = 1 .. Len(a) + Len(b)
      /\ \A i \in 1 .. Len(a) + Len(b) : c[i] = IF i <= Len(a) THEN a[i] ELSE b[i - Len(a)]
  BY ConcatProperties
<1> HIDE DEF c
<1>2. /\ \A i \in DOMAIN c : \/ i \in DOMAIN a /\ c[i] = a[i]
                             \/ i - Len(a) \in DOMAIN b /\ c[i] = b[i - Len(a)] /\ i \in Int
      /\ \A i \in DOMAIN a : i \in DOMAIN c /\ c[i] = a[i]
  BY <1>1
<1>3. \A i \in DOMAIN b : i + Len(a) \in DOMAIN c /\ c[i + Len(a)] = b[i]
  <2> SUFFICES ASSUME NEW i \in DOMAIN b
               PROVE  i + Len(a) \in DOMAIN c /\ c[i + Len(a)] = b[i]
    OBVIOUS
  <2>1. i + Len(a) \in 1 .. Len(a) + Len(b) /\ ~(i + Len(a) <= Len(a)) /\ (i + Len(a)) - Len(a) = i
    BY <1>1
  <2> QED  BY <1>1, <2>1
<1>4. Range(c) = Range(a) \cup Range(b)
  <2>1. Range(a) \subseteq Range(c) /\ Range(b) \subseteq Range(c)
    BY <1>2, <1>3 DEF Range
  <2>2. Range(c) \subseteq Range(a) \cup Range(b)
    BY <1>2 DEF Range
  <2> QED  BY <2>1, <2>2
<1>5. Once(c, e)
  <2> SUFFICES ASSUME NEW i \in DOMAIN c, NEW j \in DOMAIN c, c[i] = e, c[j] = e
               PROVE  i = j
    BY DEF Once
  <2>1. CASE i \in DOMAIN a /\ c[i] = a[i] /\ j \in DOMAIN a /\ c[j] = a[j]
    BY <2>1 DEF Once
  <2>2. CASE /\ i - Len(a) \in DOMAIN b /\ c[i] = b[i - Len(a)] /\ i \in Int
             /\ j - Len(a) \in DOMAIN b /\ c[j] = b[j - Len(a)] /\ j \in Int
    <3>1. i - Len(a) = j - Len(a)
      BY <2>2 DEF Once
    <3> QED  BY <1>1, <2>2, <3>1
  <2> QED  BY <1>2, <2>1, <2>2 DEF Range
<1> QED  BY <1>1, <1>4, <1>5 DEF c

\* A sequence of one event, or of none.
LEMMA OnceShort ==
  ASSUME NEW e
  PROVE  Once(<<>>, e) /\ Range(<<>>) = {} /\ \A x : Once(<<x>>, e) /\ Range(<<x>>) = {x}
BY DEF Once, Range

\* An erasure.
LEMMA OnceWithout ==
  ASSUME NEW S, NEW q \in Seq(S), NEW i \in DOMAIN q, NEW e, Once(q, e)
  PROVE  /\ Once(Without(q, i), e)
         /\ e \in Range(Without(q, i)) <=> e \in Range(q) /\ e # q[i]
<1> DEFINE r == Without(q, i)
<1>1. /\ r \in Seq(S) /\ Len(r) = Len(q) - 1
      /\ \A j \in 1 .. Len(q) - 1 : r[j] = IF j < i THEN q[j] ELSE q[j + 1]
  BY WithoutType
<1>2. Len(q) \in Nat /\ DOMAIN q = 1 .. Len(q) /\ i \in 1 .. Len(q) /\ DOMAIN r = 1 .. Len(q) - 1
  BY <1>1
<1> HIDE DEF r
<1> DEFINE at(j) == IF j < i THEN j ELSE j + 1
<1>3. \A j \in DOMAIN r : at(j) \in DOMAIN q /\ r[j] = q[at(j)] /\ at(j) # i
  BY <1>1, <1>2
<1>4. \A j, k \in DOMAIN r : at(j) = at(k) => j = k
  BY <1>2
<1>5. \A k \in DOMAIN q \ {i} : \E j \in DOMAIN r : at(j) = k
  <2> SUFFICES ASSUME NEW k \in DOMAIN q \ {i}
               PROVE  \E j \in DOMAIN r : at(j) = k
    OBVIOUS
  <2>1. CASE k < i
    BY <1>2, <2>1
  <2>2. CASE k > i
    <3>1. k - 1 \in DOMAIN r /\ at(k - 1) = k
      BY <1>2, <2>2
    <3> QED  BY <3>1
  <2> QED  BY <1>2, <2>1, <2>2
<1> HIDE DEF at
<1>6. Once(r, e)
  BY <1>3, <1>4 DEF Once
<1>7. e \in Range(r) => e \in Range(q) /\ e # q[i]
  BY <1>3 DEF Range, Once
<1>8. e \in Range(q) /\ e # q[i] => e \in Range(r)
  BY SMTT(60), <1>3, <1>5 DEF Range
<1> QED  BY <1>6, <1>7, <1>8 DEF r

-----------------------------------------------------------------------------
(* An interruption is true.                                                *)

\* What Reached says of a wait stays true.
LEMMA ReachedStays ==
  ASSUME TypeOK, Timers, [Next]_vars, NEW e, Reached(e)
  PROVE  Reached(e)'
<1>1. e \in created /\ e \in Waits /\ now \in Nat /\ deadline \in [Waits -> Int]
  BY DEF Reached, Armed, TypeOK, HistTypes, TimeTypes
<1>2. CASE UNCHANGED <<created, arming, cancelled, deadline, now>>
  BY <1>2 DEF Reached, Armed
<1>3. ASSUME NEW c \in IOWaits, NEW f \in Fds, NEW t \in IOType, NEW a \in AbortHandles,
             AddIOEvent(c, f, t, a)
      PROVE  Reached(e)'
  <2>1. /\ c \notin created /\ created' = created \cup {c} /\ arming = {} /\ arming' = {}
        /\ deadline' = [deadline EXCEPT ![c] = a.at] /\ UNCHANGED <<cancelled, now>>
    BY <1>3 DEF AddIOEvent, AddBoundEvent, Running, coVars
  <2> QED  BY <1>1, <2>1 DEF Reached, Armed
<1>4. ASSUME NEW c \in Sleeps, NEW d \in Delays, AddTimeEvent(c, d)
      PROVE  Reached(e)'
  <2>1. /\ c \notin created /\ created' = created \cup {c} /\ arming = {} /\ arming' = {}
        /\ deadline' = [deadline EXCEPT ![c] = now + d] /\ UNCHANGED <<cancelled, now>>
    BY <1>4 DEF AddTimeEvent, Running, coVars
  <2> QED  BY <1>1, <2>1 DEF Reached, Armed
<1>5. ASSUME NEW c \in UserWaits, NEW a \in AbortHandles, AddUserEvent(c, a)
      PROVE  Reached(e)'
  <2>1. /\ c \notin created /\ created' = created \cup {c} /\ arming' \subseteq {<<c, a>>}
        /\ UNCHANGED <<cancelled, now, deadline>>
    BY <1>5 DEF AddUserEvent
  <2>2. \A b \in arming' : b[1] = c
    BY <2>1
  <2> QED  BY <1>1, <2>1, <2>2 DEF Reached, Armed
<1>6. CASE ArmUserEvent
  <2>1. PICK a \in arming : AddBoundEvent(a[1], a[2])
    BY <1>6, Arms
  <2>2. arming' = {} /\ UNCHANGED <<created, cancelled, now>>
    BY <1>6 DEF ArmUserEvent
  <2>3. deadline' = [deadline EXCEPT ![a[1]] = a[2].at] /\ a[1] # e
    BY <2>1 DEF AddBoundEvent, Reached, Armed
  <2> QED  BY <1>1, <2>2, <2>3 DEF Reached, Armed
<1>7. CASE Cancel \/ Tick
  <2>1. /\ UNCHANGED <<created, arming, deadline>> /\ cancelled \subseteq cancelled'
        /\ now' \in {now, now + 1}
    BY <1>7 DEF Cancel, Tick, coVars, histVars
  <2> QED  BY <1>1, <2>1 DEF Reached, Armed
<1> QED
  BY <1>2, <1>3, <1>4, <1>5, <1>6, <1>7
  DEF Next, vars, Coroutine, Loop, Register, RemoveAllIOEvents, Suspend, CloseResume,
      CloseErase, CloseEnd, Resume, Trim, TrimFails, PopIOEvent, IODone, TimerStep, TimersDone,
      CollectUserEvents, PopBoundEvent, EndWait, EpollWait, Signal, Unsupported,
      TriggerUserEvent, NotifyEventLoop, Terminated, coVars, histVars

\* The tail's range is part of the sequence's.
LEMMA TailRange ==
  ASSUME NEW S, NEW q \in Seq(S), q # <<>>
  PROVE  Range(Tail(q)) \subseteq Range(q) /\ Head(q) \in Range(q)
<1>1. /\ \A i \in DOMAIN Tail(q) : i + 1 \in DOMAIN q /\ Tail(q)[i] = q[i + 1]
      /\ 1 \in DOMAIN q /\ Head(q) = q[1]
  BY SMTT(60)
<1> QED  BY <1>1 DEF Range

\* Only a wait that was cancelled or whose deadline is over is triggered.
LEMMA TriggeredReached ==
  ASSUME TypeOK, Timers, Agree, [Next]_vars,
         \A e \in Range(triggered_bound_events) : Reached(e)
  PROVE  \A e \in Range(triggered_bound_events') : Reached(e)'
<1>1. triggered_bound_events \in Seq(Waits)
  BY DEF TypeOK, BoundTypes
<1>2. ASSUME NEW c, Reached(c)',
             Range(triggered_bound_events') \subseteq Range(triggered_bound_events) \cup {c}
      PROVE  \A e \in Range(triggered_bound_events') : Reached(e)'
  BY <1>2, ReachedStays
<1>3. CASE Range(triggered_bound_events') \subseteq Range(triggered_bound_events)
  BY <1>3, ReachedStays
<1>4. CASE TimerStep
  <2>1. PICK ev \in time_events :
          \/ UNCHANGED triggered_bound_events
          \/ ev.valid /\ Due(ev) /\ triggered_bound_events' = Append(triggered_bound_events, ev.id)
             /\ ev.id \in pending_bound_events /\ ev.trigger
    BY <1>4 DEF TimerStep, TriggerBoundEvent, Earliest, boundVars
  <2>2. CASE UNCHANGED triggered_bound_events
    BY <1>3, <2>2
  <2>3. CASE /\ ev.valid /\ Due(ev) /\ triggered_bound_events' = Append(triggered_bound_events, ev.id)
             /\ ev.id \in pending_bound_events /\ ev.trigger
    <3>1. PICK c : c = ev.id
      OBVIOUS
    <3>2. UNCHANGED <<created, arming, cancelled, deadline, now>>
      BY <1>4 DEF TimerStep, coVars, histVars
    <3>3. c \in Armed /\ deadline[c] # Never /\ deadline[c] <= now
      <4>1. ArmedTimeout(c)
        BY <2>3, <3>1 DEF ArmedTimeout
      <4>2. c \in Waits /\ c \in Armed /\ deadline[c] = ev.wake /\ now >= ev.wake
        BY <2>3, <3>1 DEF Timers, Due, Armed, TypeOK, HistTypes
      <4>3. now \in Int /\ deadline[c] \in Int
        BY <4>2 DEF TypeOK, TimeTypes, HistTypes
      <4> QED  BY <4>1, <4>2, <4>3 DEF Agree
    <3>4. Reached(c)'
      BY <3>2, <3>3 DEF Reached, Armed
    <3> QED  BY <1>1, <1>2, <2>3, <3>1, <3>4, AppendRange
  <2> QED  BY <2>1, <2>2, <2>3
<1>5. CASE Cancel
  <2>1. PICK c : c = Head(registered)
    OBVIOUS
  <2>2. /\ registered # <<>> /\ registered \in Seq(Waits)
        /\ TriggerBoundEvent(c) /\ cancelled' = cancelled \cup {c}
        /\ UNCHANGED <<created, arming>>
    BY <1>5, <2>1 DEF Cancel, coVars, TypeOK, BoundTypes
  <2>3. c \in Armed
    BY <2>1, <2>2 DEF Timers
  <2>4. Reached(c)'
    BY <2>2, <2>3 DEF Reached, Armed
  <2>5. \/ UNCHANGED triggered_bound_events
        \/ triggered_bound_events' = Append(triggered_bound_events, c)
    BY <2>2 DEF TriggerBoundEvent, boundVars
  <2> QED  BY <1>1, <1>2, <1>3, <2>4, <2>5, AppendRange
<1>6. CASE PopBoundEvent
  BY <1>1, <1>3, <1>6, TailRange DEF PopBoundEvent
<1>7. CASE UNCHANGED triggered_bound_events
  BY SMTT(60), <1>3, <1>7
<1> QED
  BY <1>4, <1>5, <1>6, <1>7
  DEF Next, vars, Coroutine, Loop, AddIOEvent, AddTimeEvent, AddUserEvent, ArmUserEvent,
      Register, RemoveAllIOEvents, Suspend, CloseResume,
      CloseErase, CloseEnd, Resume, Trim, TrimFails, PopIOEvent, IODone, TimersDone,
      CollectUserEvents, EndWait, EpollWait, Signal, Unsupported,
      TriggerUserEvent, NotifyEventLoop, Tick, Terminated, boundVars

\* TruthInv is inductive: without condition for the waits for user events, and for all
\* waits while the queues are short.
LEMMA TruthStep ==
  ASSUME TypeOK, Timers, Agree, NEW S, S \subseteq UserWaits \/ ShortQueues,
         TruthInv(S), [Next]_vars
  PROVE  TruthInv(S)'
<1>1. (\A e \in Range(triggered_bound_events) : Reached(e))'
  BY TriggeredReached DEF TruthInv
<1>2. ASSUME NEW e \in interrupted \cap S, e \notin fired', e \notin user_events'
      PROVE  Reached(e)' /\ e \notin fired' /\ e \notin user_events'
  BY <1>2, ReachedStays DEF TruthInv
<1>3. CASE UNCHANGED <<interrupted, fired, pending_user_events, user_events, created>>
  BY <1>1, <1>2, <1>3 DEF TruthInv
<1>4. ASSUME NEW c \in Waits, c \notin created, created' = created \cup {c},
             pending_user_events' \subseteq pending_user_events \cup {c},
             user_events' \subseteq user_events \cup {c}, UNCHANGED <<interrupted, fired>>
      PROVE  TruthInv(S)'
  <2>1. \A e \in interrupted \cap S : e # c
    BY <1>4 DEF TruthInv, Reached, Armed
  <2>2. \A e \in interrupted \cap S : e \notin fired' /\ e \notin user_events'
    BY <1>4, <2>1 DEF TruthInv
  <2> QED  BY <1>1, <1>2, <1>4, <2>2 DEF TruthInv
<1>5. ASSUME NEW c \in UserWaits, TriggerUserEvent(c)
      PROVE  TruthInv(S)'
  <2>1. /\ c \in created /\ UNCHANGED <<created, interrupted, user_events>>
        /\ \/ UNCHANGED <<fired, pending_user_events>>
           \/ /\ c \in user_events /\ fired' = fired \cup {c}
              /\ pending_user_events' = pending_user_events \ {c}
    BY <1>5 DEF TriggerUserEvent, todoVars
  <2>2. \A e \in interrupted \cap S : e \notin fired' /\ e \notin user_events'
    BY <2>1 DEF TruthInv
  <2> QED  BY <1>1, <1>2, <2>1, <2>2 DEF TruthInv
<1>6. CASE CollectUserEvents
  <2>1. /\ user_events' \subseteq user_events
        /\ UNCHANGED <<interrupted, fired, pending_user_events, created>>
    BY <1>6 DEF CollectUserEvents, histVars
  <2>2. \A e \in interrupted \cap S : e \notin fired' /\ e \notin user_events'
    BY <2>1 DEF TruthInv
  <2> QED  BY <1>1, <1>2, <2>1, <2>2 DEF TruthInv
<1>7. CASE PopBoundEvent
  <2>1. PICK e : e = Head(triggered_bound_events)
    OBVIOUS
  <2>2. /\ triggered_bound_events \in Seq(Waits) /\ triggered_bound_events # <<>>
        /\ UNCHANGED <<fired, created>>
    BY <1>7 DEF PopBoundEvent, TypeOK, BoundTypes, histVars
  <2>3. Reached(e) /\ e \in Waits
    BY <2>1, <2>2, TailRange DEF TruthInv
  <2>4. \/ UNCHANGED <<interrupted, pending_user_events, user_events>>
        \/ PopBoundIOEvent(e) \/ PopBoundUserEvent(e)
    BY <1>7, <2>1 DEF PopBoundEvent, todoVars
  <2>5. CASE UNCHANGED <<interrupted, pending_user_events, user_events>>
    BY <1>3, <2>2, <2>5
  <2>6. CASE PopBoundUserEvent(e)
    <3>1. /\ e \in pending_user_events /\ pending_user_events' = pending_user_events \ {e}
          /\ user_events' = user_events \ {e} /\ interrupted' = interrupted \cup {e}
      BY <2>6 DEF PopBoundUserEvent
    <3>2. e \notin fired' /\ Reached(e)'
      BY <2>2, <2>3, <3>1, ReachedStays DEF TruthInv
    <3>3. \A c \in interrupted' \cap S : Reached(c)' /\ c \notin fired' /\ c \notin user_events'
      BY <1>2, <2>2, <3>1, <3>2 DEF TruthInv
    <3> QED  BY <1>1, <2>2, <3>1, <3>3 DEF TruthInv
  <2>7. CASE PopBoundIOEvent(e)
    <3>1. PICK popped \in IOWaits : /\ interrupted' = interrupted \cup {popped}
                                    /\ ShortQueues => popped = e
      BY <2>3, <2>7, PopBoundIOEventEffect DEF ShortQueues
    <3>2. UNCHANGED <<pending_user_events, user_events>>
      BY <2>7 DEF PopBoundIOEvent
    <3>3. popped \notin UserWaits /\ popped \notin fired /\ popped \notin user_events
      BY PollerAssumption DEF TypeOK, HistTypes, UserTypes
    <3>4. Reached(e)'
      BY <2>3, ReachedStays
    <3>5. \A c \in interrupted' \cap S : Reached(c)' /\ c \notin fired' /\ c \notin user_events'
      BY <1>2, <2>2, <3>1, <3>2, <3>3, <3>4 DEF TruthInv
    <3> QED  BY <1>1, <2>2, <3>2, <3>5 DEF TruthInv
  <2> QED  BY <2>4, <2>5, <2>6, <2>7
<1>8. CASE \/ \E e \in IOWaits, f \in Fds, t \in IOType, a \in AbortHandles : AddIOEvent(e, f, t, a)
           \/ \E e \in Sleeps, d \in Delays : AddTimeEvent(e, d)
           \/ \E e \in UserWaits, a \in AbortHandles : AddUserEvent(e, a)
  BY <1>4, <1>8 DEF AddIOEvent, AddTimeEvent, AddUserEvent, Waits, userVars, todoVars
<1> QED
  BY <1>3, <1>5, <1>6, <1>7, <1>8
  DEF Next, vars, Coroutine, Loop, ArmUserEvent, Register, RemoveAllIOEvents, Suspend,
      CloseResume, CloseErase, CloseEnd, Resume, Trim, TrimFails, PopIOEvent, IODone,
      TimerStep, TimersDone, EndWait, EpollWait, Signal, Unsupported, Cancel,
      NotifyEventLoop, Tick, Terminated, userVars, todoVars, histVars

\* InterruptTruthful for the waits in S.
TruthfulFor(S) ==
  \A e \in interrupted \cap S :
    /\ e \notin fired
    /\ e \in cancelled \/ (deadline[e] # Never /\ deadline[e] <= now)

\* A coroutine that waits for a lock, a condition or an executor is told that it was
\* interrupted only if its deadline is over or its token was cancelled, and never when
\* TriggerUserEvent had accepted its notification.
THEOREM UserInterruptsTruthful == Spec => []TruthfulFor(UserWaits)
<1>1. Init => Timers /\ Agree /\ TruthInv(UserWaits)
  BY DEF Init, Timers, Armed, Agree, ArmedTimeout, TruthInv, Range
<1>2. TypeOK /\ Timers /\ Agree /\ TruthInv(UserWaits) /\ [Next]_vars => TruthInv(UserWaits)'
  BY TruthStep
<1>3. TruthInv(UserWaits) => TruthfulFor(UserWaits)
  BY DEF TruthInv, TruthfulFor, Reached
<1> QED  BY <1>1, <1>2, <1>3, TimersStep, TypeCorrect, PTL DEF Spec

\* The same for every wait, the waits on sockets included, as long as no direction of a
\* descriptor has more than two coroutines waiting: what PopBoundEvent reads behind its
\* erase() is then the event it erased.
THEOREM InterruptsTruthful == Spec /\ []ShortQueues => []InterruptTruthful
<1>1. Init => Timers /\ Agree /\ TruthInv(Waits)
  BY DEF Init, Timers, Armed, Agree, ArmedTimeout, TruthInv, Range
<1>2. TypeOK /\ Timers /\ Agree /\ ShortQueues /\ TruthInv(Waits) /\ [Next]_vars
        => TruthInv(Waits)'
  BY TruthStep
<1>3. TypeOK /\ TruthInv(Waits) => InterruptTruthful
  BY DEF TruthInv, InterruptTruthful, Reached, TypeOK, TodoTypes
<1> QED  BY <1>1, <1>2, <1>3, TimersStep, TypeCorrect, PTL DEF Spec

-----------------------------------------------------------------------------
(* Every wait has one home.                                                *)

\* What PopIOEvent puts into the turn's array.
LEMMA PopIOEventTodo ==
  ASSUME TypeOK, Watched, NEW f \in Fds, PopIOEvent(f), NEW e, Once(todo_events, e),
         \A t \in hits[f] : e = Head(io_events[f][t]) =>
           /\ ~InTodo(e)
           /\ \A u \in hits[f] : e = Head(io_events[f][u]) => u = t
  PROVE  /\ Once(todo_events, e)'
         /\ InTodo(e)' <=> InTodo(e) \/ \E t \in hits[f] : e = Head(io_events[f][t])
<1> DEFINE h(t) == IF t \in hits[f] THEN <<Head(io_events[f][t])>> ELSE <<>>
<1>1. todo_events \in Seq(Waits)
  BY DEF TypeOK, TodoTypes
<1>2. todo_events' = (todo_events \o h("READ")) \o h("WRITE")
  BY DEF PopIOEvent, IOType
<1>3. ASSUME NEW t \in IOType
      PROVE  /\ h(t) \in Seq(Waits) /\ Once(h(t), e)
             /\ e \in Range(h(t)) <=> t \in hits[f] /\ e = Head(io_events[f][t])
  <2>1. CASE t \in hits[f]
    <3>1. io_events[f][t] # <<>> /\ io_events[f][t] \in Seq(IOWaits)
      BY <2>1 DEF Watched, Existing, TypeOK, IOTypes
    <3>2. Head(io_events[f][t]) \in Waits
      BY <3>1 DEF Waits
    <3> QED  BY SMTT(60), <2>1, <3>2, OnceShort
  <2>2. CASE t \notin hits[f]
    BY <2>2, OnceShort
  <2> QED  BY <2>1, <2>2
<1>4. hits[f] \subseteq IOType /\ "READ" \in IOType /\ "WRITE" \in IOType
      /\ \A t \in IOType : t = "READ" \/ t = "WRITE"
  BY DEF TypeOK, LoopTypes, IOType
<1> HIDE DEF h
<1>5. ~(e \in Range(todo_events) /\ e \in Range(h("READ")))
  BY <1>3, <1>4 DEF InTodo
<1>6. /\ Once(todo_events \o h("READ"), e) /\ todo_events \o h("READ") \in Seq(Waits)
      /\ Range(todo_events \o h("READ")) = Range(todo_events) \cup Range(h("READ"))
  BY <1>1, <1>3, <1>4, <1>5, OnceConcat
<1>7. ~(e \in Range(todo_events \o h("READ")) /\ e \in Range(h("WRITE")))
  <2>1. ~("READ" = "WRITE")
    OBVIOUS
  <2>2. ~(e \in Range(h("READ")) /\ e \in Range(h("WRITE")))
    BY <1>3, <1>4, <2>1
  <2>3. ~(e \in Range(todo_events) /\ e \in Range(h("WRITE")))
    BY <1>3, <1>4 DEF InTodo
  <2> QED  BY <1>6, <2>2, <2>3
<1>8. /\ Once(todo_events', e)
      /\ Range(todo_events') = Range(todo_events) \cup Range(h("READ")) \cup Range(h("WRITE"))
  <2> DEFINE c == todo_events \o h("READ")  w == h("WRITE")
  <2>1. /\ c \in Seq(Waits) /\ w \in Seq(Waits) /\ Once(c, e) /\ Once(w, e)
        /\ ~(e \in Range(c) /\ e \in Range(w)) /\ todo_events' = c \o w
        /\ Range(c) = Range(todo_events) \cup Range(h("READ"))
    BY <1>2, <1>3, <1>4, <1>6, <1>7
  <2> HIDE DEF c, w
  <2>2. Once(c \o w, e) /\ Range(c \o w) = Range(c) \cup Range(w)
    BY <2>1, OnceConcat
  <2>3. Range(todo_events') = Range(todo_events) \cup Range(h("READ")) \cup Range(w)
    BY <2>1, <2>2
  <2> QED  BY <2>1, <2>2, <2>3 DEF w
<1> QED  BY <1>3, <1>4, <1>8 DEF Once, InTodo

\* An event of another kind appended to the turn's array makes no difference to e.
LEMMA TodoAppend ==
  ASSUME TypeOK, NEW c \in Waits, todo_events' = Append(todo_events, c), NEW e,
         Once(todo_events, e), c = e => ~InTodo(e)
  PROVE  /\ Once(todo_events, e)'
         /\ InTodo(e)' <=> InTodo(e) \/ c = e
<1>1. Once(Append(todo_events, c), e) /\ Range(Append(todo_events, c)) = Range(todo_events) \cup {c}
  BY OnceAppend, AppendRange DEF TypeOK, TodoTypes, InTodo
<1> QED  BY <1>1 DEF Once, InTodo

\* Resume takes the head of the turn's array.
LEMMA TodoResume ==
  ASSUME TypeOK, Control, Resume, NEW e \in Waits, Once(todo_events, e)
  PROVE  \E h \in Waits :
           /\ InTodo(h)
           /\ \A c \in Waits : resumes'[c] = IF c = h THEN resumes[c] + 1 ELSE resumes[c]
           /\ Once(todo_events, e)' /\ (InTodo(e)' <=> InTodo(e) /\ e # h)
<1>1. /\ todo_events # <<>> /\ todo_events \in Seq(Waits) /\ todo_events' = Tail(todo_events)
      /\ resumes' = [resumes EXCEPT ![Head(todo_events)] = @ + 1]
      /\ resumes \in [Waits -> Nat]
  BY DEF Resume, Control, TypeOK, TodoTypes, HistTypes
<1>2. PICK h \in Waits : h = Head(todo_events)
  BY <1>1
<1>3. \A c \in Waits : resumes'[c] = IF c = h THEN resumes[c] + 1 ELSE resumes[c]
  BY <1>1, <1>2
<1>4. /\ Once(Tail(todo_events), e) /\ h \in Range(todo_events)
      /\ e \in Range(Tail(todo_events)) <=> e \in Range(todo_events) /\ e # h
  BY <1>1, <1>2, OnceTail
<1> QED  BY <1>1, <1>3, <1>4 DEF Once, InTodo

\* CloseResume runs the coroutine of the event the walk is at, a socket wait.
LEMMA CloseResumes ==
  ASSUME TypeOK, Control, CloseResume
  PROVE  \E c \in IOWaits :
           /\ c = ClosingEvent /\ closing \in Fds /\ ClosingType \in IOType
           /\ c \in Range(io_events[closing][ClosingType])
           /\ \A e \in Waits : resumes'[e] = IF e = c THEN resumes[e] + 1 ELSE resumes[e]
<1>1. closing \in Fds /\ Existing(closing) # {}
  BY DEF CloseResume, Control, TypeOK, LoopTypes
<1>2. /\ ClosingType \in IOType /\ io_events[closing][ClosingType] # <<>>
      /\ io_events[closing][ClosingType] \in Seq(IOWaits)
  BY <1>1, ClosingAt
<1>3. PICK c \in IOWaits : c = ClosingEvent /\ c \in Range(io_events[closing][ClosingType])
  BY <1>2, TailRange DEF ClosingEvent
<1>4. resumes' = [resumes EXCEPT ![c] = @ + 1] /\ resumes \in [Waits -> Nat]
  BY <1>3 DEF CloseResume, TypeOK, HistTypes
<1> QED  BY <1>1, <1>2, <1>3, <1>4

\* CollectUserEvents moves a prefix of the triggered user events into the turn's array.
LEMMA CollectMoves ==
  ASSUME TypeOK, CollectUserEvents, NEW e, Once(triggered_user_events, e),
         Once(todo_events, e), ~(InTriggered(e) /\ InTodo(e))
  PROVE  /\ Once(triggered_user_events, e)' /\ Once(todo_events, e)'
         /\ ~(InTriggered(e)' /\ InTodo(e)')
         /\ InTriggered(e)' \/ InTodo(e)' <=> InTriggered(e) \/ InTodo(e)
         /\ InTriggered(e)' => InTriggered(e)
<1> DEFINE q == triggered_user_events
<1>1. PICK n \in 0 .. Len(q) :
        /\ SubSeq(q, 1, n) \in Seq(UserWaits)
        /\ todo_events' = todo_events \o SubSeq(q, 1, n)
        /\ triggered_user_events' = SubSeq(q, n + 1, Len(q))
  BY CollectEffect
<1> DEFINE a == SubSeq(q, 1, n)  b == SubSeq(q, n + 1, Len(q))
<1>2. /\ Once(a, e) /\ Once(b, e) /\ ~(e \in Range(a) /\ e \in Range(b))
      /\ e \in Range(q) <=> e \in Range(a) \/ e \in Range(b)
  BY OnceSplit DEF TypeOK, UserTypes
<1>3. todo_events \in Seq(Waits) /\ a \in Seq(Waits)
  <2>1. a \in Seq(UserWaits)
    BY <1>1
  <2> HIDE DEF a
  <2>2. a \in Seq(Waits)
    BY <2>1 DEF Waits
  <2> QED  BY <2>2 DEF TypeOK, TodoTypes
<1>4. Once(todo_events \o a, e) /\ Range(todo_events \o a) = Range(todo_events) \cup Range(a)
  <2>1. ~(e \in Range(todo_events) /\ e \in Range(a))
    BY <1>2 DEF InTriggered, InTodo
  <2> HIDE DEF a
  <2> QED  BY <1>2, <1>3, <2>1, OnceConcat
<1> HIDE DEF a, b
<1>5. /\ Once(triggered_user_events', e) /\ Once(todo_events', e)
      /\ ~(e \in Range(triggered_user_events') /\ e \in Range(todo_events'))
      /\ e \in Range(triggered_user_events') \/ e \in Range(todo_events')
           <=> e \in Range(q) \/ e \in Range(todo_events)
      /\ e \in Range(triggered_user_events') => e \in Range(q)
  BY <1>1, <1>2, <1>4 DEF a, b, InTriggered, InTodo
<1> QED  BY <1>5 DEF Once, InTodo, InTriggered

\* Steps that leave the user events alone as far as e is concerned.
LEMMA UserFrame ==
  ASSUME NEW e, UserHome(e), (e \in created') = (e \in created), resumes'[e] = resumes[e],
         notified \subseteq notified', (e \in pending_user_events') = (e \in pending_user_events),
         triggered_user_events' = triggered_user_events,
         InTodo(e)' = InTodo(e), Once(todo_events, e)'
  PROVE  UserHome(e)'
<1>1. InTriggered(e)' = InTriggered(e) /\ Once(triggered_user_events, e)'
  BY DEF InTriggered, UserHome, Once, Range
<1> QED  BY <1>1 DEF UserHome

\* A wait for a user event keeps one home.
LEMMA UserHomeStep ==
  ASSUME TypeOK, Control, Watched, Woken, SleepEvents, NEW e \in UserWaits, UserHome(e),
         [Next]_vars
  PROVE  UserHome(e)'
<1>1. /\ e \in Waits /\ e \notin IOWaits /\ e \notin Sleeps /\ resumes[e] \in Nat
      /\ Once(todo_events, e) /\ Once(triggered_user_events, e)
  BY PollerAssumption DEF Waits, TypeOK, HistTypes, UserHome
<1>2. CASE UNCHANGED <<created, resumes, notified, pending_user_events,
                       triggered_user_events, todo_events>>
  BY <1>1, <1>2, UserFrame DEF InTodo, Range, Once
<1>3. ASSUME NEW c \in UserWaits, NEW a \in AbortHandles, AddUserEvent(c, a)
      PROVE  UserHome(e)'
  <2>1. /\ c \notin created /\ created' = created \cup {c}
        /\ pending_user_events' = pending_user_events \cup {c}
        /\ UNCHANGED <<triggered_user_events, todo_events, notified, resumes>>
    BY <1>3 DEF AddUserEvent, todoVars
  <2>2. /\ InTodo(e)' = InTodo(e) /\ Once(todo_events, e)'
        /\ InTriggered(e)' = InTriggered(e) /\ Once(triggered_user_events, e)'
    BY <1>1, <2>1 DEF InTodo, InTriggered, Range, Once
  <2> QED  BY <2>1, <2>2 DEF UserHome
<1>4. CASE \/ \E c \in IOWaits, f \in Fds, t \in IOType, a \in AbortHandles : AddIOEvent(c, f, t, a)
           \/ \E c \in Sleeps, d \in Delays : AddTimeEvent(c, d)
  <2>1. /\ (e \in created') = (e \in created)
        /\ UNCHANGED <<resumes, notified, pending_user_events, triggered_user_events, todo_events>>
    BY <1>1, <1>4 DEF AddIOEvent, AddTimeEvent, userVars, todoVars
  <2> QED  BY <1>1, <2>1, UserFrame DEF InTodo, Range, Once
<1>5. CASE CloseResume
  <2>1. resumes'[e] = resumes[e]
    BY <1>1, <1>5, CloseResumes
  <2>2. UNCHANGED <<created, notified, pending_user_events, triggered_user_events, todo_events>>
    BY <1>5 DEF CloseResume, userVars, todoVars
  <2> QED  BY <1>1, <2>1, <2>2, UserFrame DEF InTodo, Range, Once
<1>6. CASE Resume
  <2>1. PICK h \in Waits :
          /\ InTodo(h) /\ resumes'[e] = IF e = h THEN resumes[e] + 1 ELSE resumes[e]
          /\ Once(todo_events, e)' /\ (InTodo(e)' <=> InTodo(e) /\ e # h)
    BY <1>1, <1>6, TodoResume
  <2>2. UNCHANGED <<created, notified, pending_user_events, triggered_user_events>>
    BY <1>6 DEF Resume, userVars
  <2>3. InTriggered(e)' = InTriggered(e) /\ Once(triggered_user_events, e)'
    BY <1>1, <2>2 DEF InTriggered, Range, Once
  <2> QED  BY <2>1, <2>2, <2>3 DEF UserHome
<1>7. ASSUME NEW f \in Fds, PopIOEvent(f)
      PROVE  UserHome(e)'
  <2>1. \A t \in hits[f] : e # Head(io_events[f][t])
    <3>1. \A t \in hits[f] : io_events[f][t] # <<>> /\ io_events[f][t] \in Seq(IOWaits)
      BY DEF Watched, Existing, TypeOK, IOTypes
    <3>2. \A t \in hits[f] : Head(io_events[f][t]) \in IOWaits
      BY <3>1
    <3> QED  BY <1>1, <3>2
  <2>2. Once(todo_events, e)' /\ (InTodo(e)' <=> InTodo(e))
    BY <1>1, <1>7, <2>1, PopIOEventTodo
  <2>3. UNCHANGED <<created, resumes, notified, pending_user_events, triggered_user_events>>
    BY <1>7 DEF PopIOEvent, userVars, histVars
  <2>4. InTriggered(e)' = InTriggered(e) /\ Once(triggered_user_events, e)'
    BY <1>1, <2>3 DEF InTriggered, Range, Once
  <2> QED  BY <2>2, <2>3, <2>4 DEF UserHome
<1>8. ASSUME NEW c \in Waits, c # e, todo_events' = Append(todo_events, c),
             UNCHANGED <<created, resumes, notified, triggered_user_events>>,
             (e \in pending_user_events') = (e \in pending_user_events)
      PROVE  UserHome(e)'
  <2>1. Once(todo_events, e)' /\ (InTodo(e)' <=> InTodo(e))
    BY <1>1, <1>8, TodoAppend
  <2>2. InTriggered(e)' = InTriggered(e) /\ Once(triggered_user_events, e)'
    BY <1>1, <1>8 DEF InTriggered, Range, Once
  <2> QED  BY <1>8, <2>1, <2>2 DEF UserHome
<1>9. CASE TimerStep
  <2>1. /\ \/ UNCHANGED todo_events
           \/ \E ev \in time_events : ~ev.trigger /\ todo_events' = Append(todo_events, ev.id)
        /\ UNCHANGED <<created, resumes, notified, pending_user_events, triggered_user_events>>
    BY <1>9 DEF TimerStep, Earliest, histVars
  <2>2. \A ev \in time_events : ~ev.trigger => ev.id \in Waits /\ ev.id # e
    BY <1>1 DEF SleepEvents, Waits
  <2> QED  BY <1>2, <1>8, <2>1, <2>2
<1>10. CASE CollectUserEvents
  <2>1. UNCHANGED <<created, resumes, notified, pending_user_events>>
    BY <1>10 DEF CollectUserEvents, histVars
  <2>2. /\ Once(triggered_user_events, e)' /\ Once(todo_events, e)'
        /\ ~(InTriggered(e)' /\ InTodo(e)')
        /\ InTriggered(e)' \/ InTodo(e)' <=> InTriggered(e) \/ InTodo(e)
        /\ InTriggered(e)' => InTriggered(e)
    BY <1>1, <1>10, CollectMoves DEF UserHome
  <2> QED  BY <2>1, <2>2 DEF UserHome
<1>11. CASE PopBoundEvent
  <2>1. PICK c : c = Head(triggered_bound_events)
    OBVIOUS
  <2>2. c \in Waits
    BY <1>11, <2>1 DEF PopBoundEvent, TypeOK, BoundTypes
  <2>3. UNCHANGED <<created, resumes, notified, triggered_user_events>>
    BY <1>11 DEF PopBoundEvent, histVars
  <2>4. \/ UNCHANGED <<todo_events, pending_user_events>>
        \/ PopBoundIOEvent(c) \/ PopBoundUserEvent(c)
    BY <1>11, <2>1 DEF PopBoundEvent, todoVars
  <2>5. CASE PopBoundIOEvent(c)
    <3>1. PICK popped \in IOWaits : todo_events' = Append(todo_events, popped)
      BY <2>2, <2>5, PopBoundIOEventEffect
    <3>2. UNCHANGED pending_user_events /\ popped # e /\ popped \in Waits
      BY <1>1, <2>5 DEF PopBoundIOEvent, Waits
    <3> QED  BY <1>8, <2>3, <3>1, <3>2
  <2>6. CASE PopBoundUserEvent(c)
    <3>1. /\ c \in pending_user_events /\ pending_user_events' = pending_user_events \ {c}
          /\ todo_events' = Append(todo_events, c)
      BY <2>6 DEF PopBoundUserEvent
    <3>2. CASE c # e
      BY <1>8, <2>2, <2>3, <3>1, <3>2
    <3>3. CASE c = e
      <4>1. Once(todo_events, e)' /\ InTodo(e)'
        BY <1>1, <2>2, <3>1, <3>3, TodoAppend DEF UserHome
      <4>2. InTriggered(e)' = InTriggered(e) /\ Once(triggered_user_events, e)'
        BY <1>1, <2>3 DEF InTriggered, Range, Once
      <4> QED  BY <2>3, <3>1, <3>3, <4>1, <4>2 DEF UserHome
    <3> QED  BY <3>2, <3>3
  <2> QED  BY <1>2, <2>3, <2>4, <2>5, <2>6
<1>12. ASSUME NEW c \in UserWaits, TriggerUserEvent(c)
       PROVE  UserHome(e)'
  <2>1. /\ c \in created /\ c \notin notified /\ notified' = notified \cup {c}
        /\ UNCHANGED <<created, resumes, todo_events>>
        /\ \/ UNCHANGED <<pending_user_events, triggered_user_events>>
           \/ /\ c \in user_events /\ pending_user_events' = pending_user_events \ {c}
              /\ triggered_user_events' = Append(triggered_user_events, c)
    BY <1>12 DEF TriggerUserEvent, todoVars
  <2>2. InTodo(e)' = InTodo(e) /\ Once(todo_events, e)'
    BY <1>1, <2>1 DEF InTodo, Range, Once
  <2>3. CASE UNCHANGED <<pending_user_events, triggered_user_events>>
    BY <2>1, <2>2, <2>3, UserFrame
  <2>4. CASE /\ c \in user_events /\ pending_user_events' = pending_user_events \ {c}
             /\ triggered_user_events' = Append(triggered_user_events, c)
    <3>1. triggered_user_events \in Seq(UserWaits)
      BY DEF TypeOK, UserTypes
    <3>2. c = e => e \in pending_user_events /\ ~InTriggered(e)
      BY <2>1, <2>4 DEF Woken, UserHome, InTriggered
    <3>3. Once(triggered_user_events, e)' /\ (InTriggered(e)' <=> InTriggered(e) \/ e = c)
      <4>1. /\ Once(Append(triggered_user_events, c), e)
            /\ Range(Append(triggered_user_events, c)) = Range(triggered_user_events) \cup {c}
        BY SMTT(60), <1>1, <3>1, <3>2, OnceAppend, AppendRange DEF InTriggered
      <4> QED  BY <2>4, <4>1 DEF Once, InTriggered
    <3> QED  BY <2>1, <2>2, <2>4, <3>2, <3>3 DEF UserHome
  <2> QED  BY <2>1, <2>3, <2>4
<1> QED
  BY <1>2, <1>3, <1>4, <1>5, <1>6, <1>7, <1>9, <1>10, <1>11, <1>12
  DEF Next, vars, Coroutine, Loop, ArmUserEvent, Register, RemoveAllIOEvents, Suspend,
      CloseErase, CloseEnd, Trim, TrimFails, IODone, TimersDone, EndWait, EpollWait, Signal,
      Unsupported, Cancel, NotifyEventLoop, Tick, Terminated, userVars, todoVars, histVars

\* The time events that are no timeouts.
Untimed(evs) == {ev \in evs : ~ev.trigger}

\* AddTimeEvent adds one of them, TimerStep takes one that is due, and no other step makes
\* a difference to them.
LEMMA UntimedStep ==
  ASSUME TypeOK, SleepEvents, [Next]_vars
  PROVE  \/ Untimed(time_events') = Untimed(time_events)
         \/ \E c \in Sleeps, d \in Delays : AddTimeEvent(c, d)
         \/ TimerStep
<1>1. CASE UNCHANGED time_events
  BY <1>1
<1>2. ASSUME NEW c, NEW a, AddBoundEvent(c, a)
      PROVE  Untimed(time_events') = Untimed(time_events)
  <2> DEFINE new == [id |-> c, wake |-> a.at, trigger |-> TRUE, valid |-> TRUE]
  <2>1. time_events' \in {time_events, time_events \cup {new}}
    BY <1>2 DEF AddBoundEvent
  <2>2. new.trigger
    OBVIOUS
  <2> HIDE DEF new
  <2> QED  BY <2>1, <2>2 DEF Untimed
<1>3. CASE Trim
  <2>1. PICK gone \in SUBSET {ev \in time_events : ~ev.valid} : time_events' = time_events \ gone
    BY <1>3 DEF Trim, TrimTimeEvents
  <2> QED  BY <2>1 DEF Untimed, SleepEvents
<1>4. CASE CollectUserEvents
  <2>1. PICK ids : RemoveBoundEvent(ids)
    BY <1>4 DEF CollectUserEvents
  <2> DEFINE mark(ev) == IF ev.trigger /\ ev.id \in pending_bound_events \cap ids
                         THEN [ev EXCEPT !.valid = FALSE] ELSE ev
  <2>2. time_events' = {mark(ev) : ev \in time_events}
    BY <2>1 DEF RemoveBoundEvent
  <2>3. \A ev \in time_events : /\ ~ev.trigger => mark(ev) = ev
                                /\ ev.trigger => mark(ev).trigger
    BY DEF TypeOK, TimeTypes, TimeEvents
  <2> HIDE DEF mark
  <2> QED  BY <2>2, <2>3 DEF Untimed
<1>5. CASE ArmUserEvent
  BY <1>2, <1>5 DEF ArmUserEvent
<1>6. CASE \E c \in IOWaits, f \in Fds, t \in IOType, a \in AbortHandles : AddIOEvent(c, f, t, a)
  BY <1>2, <1>6 DEF AddIOEvent
<1> QED
  BY <1>1, <1>3, <1>4, <1>5, <1>6
  DEF Next, vars, Coroutine, Loop, AddUserEvent, Register, RemoveAllIOEvents, Suspend,
      CloseResume, CloseErase, CloseEnd, Resume, TrimFails, PopIOEvent, IODone, TimersDone,
      PopBoundEvent, EndWait, EpollWait, Signal, Unsupported, TriggerUserEvent, Cancel,
      NotifyEventLoop, Tick, Terminated, timeVars

\* What the heap holds besides timeouts are sleeps, all valid.
LEMMA SleepEventsStep ==
  ASSUME TypeOK, SleepEvents, [Next]_vars
  PROVE  SleepEvents'
<1>1. CASE Untimed(time_events') = Untimed(time_events)
  BY <1>1 DEF Untimed, SleepEvents
<1>2. ASSUME NEW c \in Sleeps, NEW d \in Delays, AddTimeEvent(c, d)
      PROVE  SleepEvents'
  <2> DEFINE new == [id |-> c, wake |-> now + d, trigger |-> FALSE, valid |-> TRUE]
  <2>1. time_events' = time_events \cup {new} /\ new.valid /\ new.id = c
    BY <1>2 DEF AddTimeEvent
  <2> HIDE DEF new
  <2> QED  BY <2>1 DEF SleepEvents
<1>3. CASE TimerStep
  <2>1. time_events' \subseteq time_events
    BY <1>3 DEF TimerStep
  <2> QED  BY <2>1 DEF SleepEvents
<1> QED  BY <1>1, <1>2, <1>3, UntimedStep

\* The heap has e once, or not at all.
HeapOnce(e) == \A ev, o \in time_events : ~ev.trigger /\ ~o.trigger /\ ev.id = e /\ o.id = e => ev = o

\* Steps that leave the heap's sleeps alone, and the turn's array as far as e is concerned.
LEMMA SleepFrame ==
  ASSUME NEW e, SleepHome(e), (e \in created') = (e \in created), resumes'[e] = resumes[e],
         Untimed(time_events') = Untimed(time_events),
         InTodo(e)' = InTodo(e), Once(todo_events, e)'
  PROVE  SleepHome(e)'
<1>1. InHeap(e)' = InHeap(e) /\ HeapOnce(e)'
  BY DEF InHeap, SleepHome, Untimed, HeapOnce
<1> QED  BY <1>1 DEF SleepHome, HeapOnce

\* A sleep keeps one home.
LEMMA SleepHomeStep ==
  ASSUME TypeOK, Control, Watched, SleepEvents, NEW e \in Sleeps, SleepHome(e), [Next]_vars
  PROVE  SleepHome(e)'
<1>1. /\ e \in Waits /\ e \notin IOWaits /\ e \notin UserWaits /\ resumes[e] \in Nat
      /\ Once(todo_events, e)
  BY PollerAssumption DEF Waits, TypeOK, HistTypes, SleepHome
<1>2. ASSUME NEW c \in Sleeps, NEW d \in Delays, AddTimeEvent(c, d)
      PROVE  SleepHome(e)'
  <2> DEFINE new == [id |-> c, wake |-> now + d, trigger |-> FALSE, valid |-> TRUE]
  <2>1. /\ c \notin created /\ created' = created \cup {c}
        /\ time_events' = time_events \cup {new} /\ new.id = c /\ ~new.trigger
        /\ UNCHANGED <<resumes, todo_events>>
    BY <1>2 DEF AddTimeEvent, todoVars
  <2> HIDE DEF new
  <2>2. InTodo(e)' = InTodo(e) /\ Once(todo_events, e)'
    BY <1>1, <2>1 DEF InTodo, Range, Once
  <2>3. InHeap(e)' <=> InHeap(e) \/ c = e
    BY <2>1 DEF InHeap
  <2>4. HeapOnce(e)'
    BY <2>1 DEF HeapOnce, SleepHome, InHeap
  <2> QED  BY <2>1, <2>2, <2>3, <2>4 DEF SleepHome, HeapOnce
<1>3. CASE TimerStep
  <2>1. PICK ev \in time_events :
          /\ time_events' = time_events \ {ev}
          /\ \/ UNCHANGED todo_events /\ (ev.trigger \/ ~ev.valid)
             \/ ~ev.trigger /\ todo_events' = Append(todo_events, ev.id)
    BY <1>3 DEF TimerStep, Earliest
  <2>2. UNCHANGED <<created, resumes>>
    BY <1>3 DEF TimerStep, histVars
  <2>3. CASE UNCHANGED todo_events /\ (ev.trigger \/ ~ev.valid)
    <3>1. Untimed(time_events') = Untimed(time_events)
      BY <2>1, <2>3 DEF Untimed, SleepEvents
    <3>2. InTodo(e)' = InTodo(e) /\ Once(todo_events, e)'
      BY <1>1, <2>3 DEF InTodo, Range, Once
    <3> QED  BY <2>2, <3>1, <3>2, SleepFrame
  <2>4. CASE ~ev.trigger /\ todo_events' = Append(todo_events, ev.id)
    <3>1. HeapOnce(e)' /\ (InHeap(e)' <=> InHeap(e) /\ ev.id # e)
      BY <2>1, <2>4 DEF SleepHome, HeapOnce, InHeap
    <3>2. ev.id = e => InHeap(e) /\ ~InTodo(e)
      BY <2>4 DEF InHeap, SleepHome
    <3>3. PICK c \in Waits : c = ev.id
      BY <2>4 DEF SleepEvents, Waits
    <3>4. Once(todo_events, e)' /\ (InTodo(e)' <=> InTodo(e) \/ ev.id = e)
      BY <1>1, <2>4, <3>2, <3>3, TodoAppend
    <3> QED  BY <2>2, <3>1, <3>2, <3>4 DEF SleepHome, HeapOnce
  <2> QED  BY <2>1, <2>3, <2>4
<1>4. ASSUME Untimed(time_events') = Untimed(time_events)
      PROVE  SleepHome(e)'
  <2>1. CASE UNCHANGED <<created, resumes, todo_events>>
    BY <1>1, <1>4, <2>1, SleepFrame DEF InTodo, Range, Once
  <2>2. CASE \/ \E c \in IOWaits, f \in Fds, t \in IOType, a \in AbortHandles : AddIOEvent(c, f, t, a)
             \/ \E c \in UserWaits, a \in AbortHandles : AddUserEvent(c, a)
    <3>1. (e \in created') = (e \in created) /\ UNCHANGED <<resumes, todo_events>>
      BY <1>1, <2>2 DEF AddIOEvent, AddUserEvent, todoVars
    <3> QED  BY <1>1, <1>4, <3>1, SleepFrame DEF InTodo, Range, Once
  <2>3. CASE CloseResume
    <3>1. resumes'[e] = resumes[e]
      BY <1>1, <2>3, CloseResumes
    <3>2. UNCHANGED <<created, todo_events>>
      BY <2>3 DEF CloseResume, todoVars
    <3> QED  BY <1>1, <1>4, <3>1, <3>2, SleepFrame DEF InTodo, Range, Once
  <2>4. CASE Resume
    <3>1. PICK h \in Waits :
            /\ InTodo(h) /\ resumes'[e] = IF e = h THEN resumes[e] + 1 ELSE resumes[e]
            /\ Once(todo_events, e)' /\ (InTodo(e)' <=> InTodo(e) /\ e # h)
      BY <1>1, <2>4, TodoResume
    <3>2. UNCHANGED created
      BY <2>4 DEF Resume
    <3>3. InHeap(e)' = InHeap(e) /\ HeapOnce(e)'
      BY <1>4 DEF InHeap, SleepHome, Untimed, HeapOnce
    <3> QED  BY <3>1, <3>2, <3>3 DEF SleepHome, HeapOnce
  <2>5. ASSUME NEW f \in Fds, PopIOEvent(f)
        PROVE  SleepHome(e)'
    <3>1. \A t \in hits[f] : e # Head(io_events[f][t])
      <4>1. \A t \in hits[f] : io_events[f][t] # <<>> /\ io_events[f][t] \in Seq(IOWaits)
        BY DEF Watched, Existing, TypeOK, IOTypes
      <4>2. \A t \in hits[f] : Head(io_events[f][t]) \in IOWaits
        BY <4>1
      <4> QED  BY <1>1, <4>2
    <3>2. Once(todo_events, e)' /\ (InTodo(e)' <=> InTodo(e))
      BY <1>1, <2>5, <3>1, PopIOEventTodo
    <3>3. UNCHANGED <<created, resumes>>
      BY <2>5 DEF PopIOEvent, histVars
    <3>4. InHeap(e)' = InHeap(e) /\ HeapOnce(e)'
      BY <1>4 DEF InHeap, SleepHome, Untimed, HeapOnce
    <3> QED  BY <3>2, <3>3, <3>4 DEF SleepHome, HeapOnce
  <2>6. CASE CollectUserEvents
    <3>1. UNCHANGED <<created, resumes>>
      BY <2>6 DEF CollectUserEvents, histVars
    <3>2. ~InTriggered(e) /\ Once(triggered_user_events, e)
      BY <1>1 DEF InTriggered, Range, Once, TypeOK, UserTypes
    <3>3. Once(todo_events, e)' /\ (InTodo(e)' <=> InTodo(e))
      BY <1>1, <2>6, <3>2, CollectMoves
    <3>4. InHeap(e)' = InHeap(e) /\ HeapOnce(e)'
      BY <1>4 DEF InHeap, SleepHome, Untimed, HeapOnce
    <3> QED  BY <3>1, <3>3, <3>4 DEF SleepHome, HeapOnce
  <2>7. CASE PopBoundEvent
    <3>1. UNCHANGED <<created, resumes>>
      BY <2>7 DEF PopBoundEvent, histVars
    <3>2. PICK c : c = Head(triggered_bound_events)
      OBVIOUS
    <3>3. c \in Waits
      BY <2>7, <3>2 DEF PopBoundEvent, TypeOK, BoundTypes
    <3>4. UNCHANGED todo_events \/ PopBoundIOEvent(c) \/ PopBoundUserEvent(c)
      BY <2>7, <3>2 DEF PopBoundEvent, todoVars
    <3>5. \/ UNCHANGED todo_events
          \/ \E p \in IOWaits \cup UserWaits : todo_events' = Append(todo_events, p)
      BY <3>3, <3>4, PopBoundIOEventEffect DEF PopBoundUserEvent, TypeOK, UserTypes
    <3>6. Once(todo_events, e)' /\ (InTodo(e)' <=> InTodo(e))
      <4>1. CASE UNCHANGED todo_events
        BY <1>1, <4>1 DEF InTodo, Range, Once
      <4>2. ASSUME NEW p \in IOWaits \cup UserWaits, todo_events' = Append(todo_events, p)
            PROVE  Once(todo_events, e)' /\ (InTodo(e)' <=> InTodo(e))
        BY <1>1, <4>2, TodoAppend DEF Waits
      <4> QED  BY <3>5, <4>1, <4>2
    <3>7. InHeap(e)' = InHeap(e) /\ HeapOnce(e)'
      BY <1>4 DEF InHeap, SleepHome, Untimed, HeapOnce
    <3> QED  BY <3>1, <3>6, <3>7 DEF SleepHome, HeapOnce
  <2> QED
    BY <1>2, <1>3, <2>1, <2>2, <2>3, <2>4, <2>5, <2>6, <2>7
    DEF Next, vars, Coroutine, Loop, ArmUserEvent, Register, RemoveAllIOEvents, Suspend,
        CloseErase, CloseEnd, Trim, TrimFails, IODone, TimersDone, EndWait, EpollWait, Signal,
        Unsupported, TriggerUserEvent, Cancel, NotifyEventLoop, Tick, Terminated, todoVars,
        histVars
<1> QED  BY <1>2, <1>3, <1>4, UntimedStep

\* Steps that make no difference to the queues, and none to the turn's array as far as e
\* is concerned.
LEMMA IOFrame ==
  ASSUME NEW e, IOHome(e), (e \in created') = (e \in created), resumes'[e] = resumes[e],
         io_events' = io_events, Walked(e)' = Walked(e),
         InTodo(e)' = InTodo(e), Once(todo_events, e)'
  PROVE  IOHome(e)'
<1>1. /\ InQueue(e)' = InQueue(e)
      /\ \A f \in Fds, t \in IOType : QueuedAt(e, f, t)' = QueuedAt(e, f, t)
      /\ \A f \in Fds, t \in IOType : Once(io_events[f][t], e)'
  BY DEF InQueue, QueuedAt, IOHome, Once, Range
<1> QED  BY <1>1 DEF IOHome

\* The walk stays where it is while the coroutine it has resumed runs.
LEMMA WalkStays ==
  ASSUME TypeOK, Control, [Next]_vars, NEW e
  PROVE  Walked(e)' = Walked(e) \/ CloseResume \/ CloseErase
<1>1. ASSUME pc # "nested", pc' # "nested"
      PROVE  Walked(e)' = Walked(e)
  BY <1>1 DEF Walked
<1>2. ASSUME pc = "nested", pc' = "nested", closing' = closing,
             io_events'[closing] = io_events[closing]
      PROVE  Walked(e)' = Walked(e)
  BY <1>2 DEF Walked, ClosingEvent, ClosingType, Existing
<1>3. ASSUME NEW c \in IOWaits, NEW f \in Fds, NEW t \in IOType, NEW a \in AbortHandles,
             AddIOEvent(c, f, t, a)
      PROVE  Walked(e)' = Walked(e)
  <2>1. pc' = pc /\ closing' = closing /\ f # closing
    BY <1>3 DEF AddIOEvent, coVars
  <2>2. io_events' = [io_events EXCEPT ![f][t] = Append(io_events[f][t], c)]
    BY <1>3 DEF AddIOEvent
  <2>3. closing \in Fds => io_events'[closing] = io_events[closing]
    BY <2>1, <2>2 DEF TypeOK, IOTypes
  <2>4. pc = "nested" => closing \in Fds
    BY DEF Control, TypeOK, LoopTypes
  <2> QED  BY <1>1, <1>2, <2>1, <2>3, <2>4
<1>4. pc = "nested" =>
        \/ pc' = "nested" /\ closing' = closing /\ io_events' = io_events
        \/ CloseErase
        \/ \E c \in IOWaits, f \in Fds, t \in IOType, a \in AbortHandles : AddIOEvent(c, f, t, a)
  BY SMTT(60) DEF Next, vars, Coroutine, Loop, AddTimeEvent, AddUserEvent, ArmUserEvent,
      Register, RemoveAllIOEvents, Suspend, CloseResume,
      CloseEnd, Resume, Trim, TrimFails, PopIOEvent, IODone, TimerStep, TimersDone,
      CollectUserEvents, PopBoundEvent, EndWait, EpollWait, Signal, Unsupported,
      TriggerUserEvent, Cancel, NotifyEventLoop, Tick, Terminated, coVars, ioVars
<1>5. pc' = "nested" => pc = "nested" \/ CloseResume
  BY DEF Next, vars, Coroutine, Loop, AddIOEvent, AddTimeEvent, AddUserEvent, ArmUserEvent,
      Register, RemoveAllIOEvents, Suspend, CloseErase,
      CloseEnd, Resume, Trim, TrimFails, PopIOEvent, IODone, TimerStep, TimersDone,
      CollectUserEvents, PopBoundEvent, EndWait, EpollWait, Signal, Unsupported,
      TriggerUserEvent, Cancel, NotifyEventLoop, Tick, Terminated
<1> QED  BY <1>1, <1>2, <1>3, <1>4, <1>5

\* A wait on a socket keeps one home, as long as no queue has more than two events.
LEMMA IOHomeStep ==
  ASSUME TypeOK, Control, Watched, SleepEvents, ShortQueues, NEW e \in IOWaits, IOHome(e),
         [Next]_vars
  PROVE  IOHome(e)'
<1>1. /\ e \in Waits /\ e \notin Sleeps /\ e \notin UserWaits /\ resumes[e] \in Nat
      /\ Once(todo_events, e) /\ \A f \in Fds, t \in IOType : Once(io_events[f][t], e)
      /\ \A f \in Fds, t \in IOType : io_events[f][t] \in Seq(IOWaits)
  BY PollerAssumption DEF Waits, TypeOK, HistTypes, IOTypes, IOHome
<1>2. ASSUME NEW c \in IOWaits, NEW f \in Fds, NEW t \in IOType, NEW a \in AbortHandles,
             AddIOEvent(c, f, t, a)
      PROVE  IOHome(e)'
  <2>1. /\ c \notin created /\ created' = created \cup {c} /\ f # closing
        /\ UNCHANGED <<resumes, todo_events, pc, closing>>
    BY <1>2 DEF AddIOEvent, todoVars, coVars
  <2>2. InTodo(e)' = InTodo(e) /\ Once(todo_events, e)'
    BY <1>1, <2>1 DEF InTodo, Range, Once
  <2>3. \A g \in Fds, u \in IOType :
          io_events'[g][u] = IF g = f /\ u = t THEN Append(io_events[f][t], c)
                             ELSE io_events[g][u]
    BY <1>2, AddIOEventEffect
  <2>4. c = e => \A g \in Fds, u \in IOType : ~QueuedAt(e, g, u)
    BY <2>1 DEF IOHome, InQueue
  <2>5. Once(Append(io_events[f][t], c), e)
        /\ Range(Append(io_events[f][t], c)) = Range(io_events[f][t]) \cup {c}
    BY <1>1, <2>4, OnceAppend, AppendRange DEF QueuedAt
  <2>6. \A g \in Fds, u \in IOType :
          /\ Once(io_events'[g][u], e)
          /\ e \in Range(io_events'[g][u]) <=>
               e \in Range(io_events[g][u]) \/ (c = e /\ g = f /\ u = t)
    BY <1>1, <2>3, <2>5
  <2>7. \A g \in Fds, u \in IOType :
          /\ Once(io_events[g][u], e)'
          /\ QueuedAt(e, g, u)' <=> QueuedAt(e, g, u) \/ (c = e /\ g = f /\ u = t)
    BY <2>6 DEF Once, QueuedAt
  <2>8. InQueue(e)' <=> InQueue(e) \/ c = e
    BY <2>7 DEF InQueue
  <2>9. Walked(e)' = Walked(e)
    <3>1. ~CloseResume /\ ~CloseErase
      BY <2>1 DEF CloseResume, CloseErase
    <3> QED  BY <3>1, WalkStays
  <2>10. Walked(e) => e \in created
    <3>1. ASSUME Walked(e)
          PROVE  e \in Range(io_events[closing][ClosingType]) /\ closing \in Fds /\ ClosingType \in IOType
      <4>1. closing \in Fds /\ Existing(closing) # {}
        BY <3>1 DEF Walked, Control, TypeOK, LoopTypes
      <4> QED  BY <3>1, <4>1, ClosingAt, TailRange DEF Walked, ClosingEvent
    <3> QED  BY <3>1 DEF IOHome, InQueue, QueuedAt
  <2>11. \A g, h \in Fds, u, v \in IOType : QueuedAt(e, g, u)' /\ QueuedAt(e, h, v)' => g = h /\ u = v
    BY <2>4, <2>7 DEF IOHome
  <2> QED  BY <2>1, <2>2, <2>7, <2>8, <2>9, <2>10, <2>11 DEF IOHome
<1>3. CASE CloseResume
  <2>1. PICK c \in IOWaits :
          /\ c = ClosingEvent /\ closing \in Fds /\ ClosingType \in IOType
          /\ c \in Range(io_events[closing][ClosingType])
          /\ resumes'[e] = IF e = c THEN resumes[e] + 1 ELSE resumes[e]
    BY <1>1, <1>3, CloseResumes
  <2>2. pc = "closing" /\ pc' = "nested" /\ UNCHANGED <<created, io_events, todo_events, closing>>
    BY <1>3 DEF CloseResume, ioVars, todoVars
  <2>3. ~Walked(e) /\ (Walked(e)' <=> e = c)
    BY <2>1, <2>2 DEF Walked, ClosingEvent, ClosingType, Existing
  <2>4. e = c => InQueue(e)
    BY <2>1 DEF InQueue, QueuedAt
  <2>5. /\ InQueue(e)' = InQueue(e) /\ InTodo(e)' = InTodo(e) /\ Once(todo_events, e)'
        /\ \A f \in Fds, t \in IOType : QueuedAt(e, f, t)' = QueuedAt(e, f, t)
        /\ \A f \in Fds, t \in IOType : Once(io_events[f][t], e)'
    BY <1>1, <2>2 DEF InQueue, QueuedAt, InTodo, Once, Range
  <2> QED  BY <2>1, <2>2, <2>3, <2>4, <2>5 DEF IOHome
<1>4. CASE CloseErase
  <2>1. /\ closing \in Fds /\ ClosingType \in IOType /\ io_events[closing][ClosingType] # <<>>
        /\ \A g \in Fds, u \in IOType :
             io_events'[g][u] = IF g = closing /\ u = ClosingType
                                THEN Tail(io_events[closing][ClosingType])
                                ELSE io_events[g][u]
    BY <1>4, CloseEraseEffect
  <2>2. /\ pc = "nested" /\ pc' = "closing" /\ UNCHANGED <<created, resumes, todo_events>>
    BY <1>4 DEF CloseErase, todoVars, histVars
  <2>3. PICK c, f, t : c = ClosingEvent /\ f = closing /\ t = ClosingType
    OBVIOUS
  <2>4. /\ Once(Tail(io_events[f][t]), e) /\ c \in Range(io_events[f][t])
        /\ e \in Range(Tail(io_events[f][t])) <=> e \in Range(io_events[f][t]) /\ e # c
    BY <1>1, <2>1, <2>3, OnceTail DEF ClosingEvent
  <2>5. \A g \in Fds, u \in IOType :
          /\ Once(io_events'[g][u], e)
          /\ e \in Range(io_events'[g][u]) <=>
               e \in Range(io_events[g][u]) /\ ~(g = f /\ u = t /\ e = c)
    BY <1>1, <2>1, <2>3, <2>4
  <2>6. \A g \in Fds, u \in IOType :
          /\ Once(io_events[g][u], e)'
          /\ QueuedAt(e, g, u)' <=> QueuedAt(e, g, u) /\ ~(g = f /\ u = t /\ e = c)
    BY <2>5 DEF Once, QueuedAt
  <2>7. e = c => QueuedAt(e, f, t)
    BY <2>4 DEF QueuedAt
  <2>8. InQueue(e)' <=> InQueue(e) /\ e # c
    BY <2>1, <2>3, <2>6, <2>7 DEF InQueue, IOHome
  <2>9. (Walked(e) <=> e = c) /\ ~Walked(e)'
    BY <2>2, <2>3 DEF Walked
  <2>10. InTodo(e)' = InTodo(e) /\ Once(todo_events, e)'
    BY <1>1, <2>2 DEF InTodo, Range, Once
  <2>11. \A g, h \in Fds, u, v \in IOType : QueuedAt(e, g, u)' /\ QueuedAt(e, h, v)' => g = h /\ u = v
    BY <2>6 DEF IOHome
  <2>12. e = c => InQueue(e)
    BY <2>1, <2>3, <2>7 DEF InQueue
  <2> QED  BY <2>2, <2>6, <2>8, <2>9, <2>10, <2>11, <2>12 DEF IOHome
<1>5. ASSUME NEW f \in Fds, PopIOEvent(f)
      PROVE  IOHome(e)'
  <2>1. /\ pc = "io" /\ pc' = "io" /\ UNCHANGED <<created, resumes>>
    BY <1>5 DEF PopIOEvent, histVars
  <2>2. hits[f] \subseteq IOType
    BY DEF TypeOK, LoopTypes
  <2>3. \A g \in Fds, t \in IOType :
          /\ g = f /\ t \in hits[f] =>
               /\ io_events[f][t] # <<>> /\ io_events'[f][t] = Tail(io_events[f][t])
          /\ ~(g = f /\ t \in hits[f]) => io_events'[g][t] = io_events[g][t]
    BY <1>5, PopIOEventEffect
  <2> DEFINE Taken(t) == t \in hits[f] /\ e = Head(io_events[f][t])
  <2>4. ASSUME NEW g \in Fds, NEW t \in IOType
        PROVE  /\ Once(io_events'[g][t], e)
               /\ e \in Range(io_events'[g][t]) <=>
                    e \in Range(io_events[g][t]) /\ ~(g = f /\ Taken(t))
               /\ g = f /\ Taken(t) => e \in Range(io_events[f][t])
    <3>1. CASE g = f /\ t \in hits[f]
      BY <1>1, <2>3, <3>1, OnceTail
    <3>2. CASE ~(g = f /\ t \in hits[f])
      BY <1>1, <2>3, <3>2
    <3> QED  BY <3>1, <3>2
  <2> HIDE DEF Taken
  <2>5. \A g \in Fds, t \in IOType :
          /\ Once(io_events[g][t], e)'
          /\ QueuedAt(e, g, t)' <=> QueuedAt(e, g, t) /\ ~(g = f /\ Taken(t))
          /\ g = f /\ Taken(t) => QueuedAt(e, f, t)
    BY <2>4 DEF Once, QueuedAt
  <2>6. \A t \in IOType : Taken(t) => /\ InQueue(e) /\ ~InTodo(e)
                                      /\ \A u \in IOType : Taken(u) => u = t
    BY <2>5 DEF InQueue, IOHome
  <2>7. Once(todo_events, e)' /\ (InTodo(e)' <=> InTodo(e) \/ \E t \in IOType : Taken(t))
    <3>1. \A t \in hits[f] : e = Head(io_events[f][t]) =>
            ~InTodo(e) /\ \A u \in hits[f] : e = Head(io_events[f][u]) => u = t
      BY <2>2, <2>6 DEF Taken
    <3>2. Once(todo_events, e)'
          /\ (InTodo(e)' <=> InTodo(e) \/ \E t \in hits[f] : e = Head(io_events[f][t]))
      BY <1>1, <1>5, <3>1, PopIOEventTodo
    <3> QED  BY <2>2, <3>2 DEF Taken
  <2>8. InQueue(e)' <=> InQueue(e) /\ ~\E t \in IOType : Taken(t)
    BY <2>5, <2>6 DEF InQueue, IOHome
  <2>9. ~Walked(e) /\ ~Walked(e)'
    BY <2>1 DEF Walked
  <2>10. \A g, h \in Fds, u, v \in IOType : QueuedAt(e, g, u)' /\ QueuedAt(e, h, v)' => g = h /\ u = v
    BY <2>5 DEF IOHome
  <2> QED  BY <2>1, <2>5, <2>6, <2>7, <2>8, <2>9, <2>10 DEF IOHome
<1>6. ASSUME NEW c \in Waits, PopBoundEvent, PopBoundIOEvent(c)
      PROVE  IOHome(e)'
  <2>1. /\ pc = "bound" /\ pc' = "bound" /\ UNCHANGED <<created, resumes>>
    BY <1>6 DEF PopBoundEvent, histVars
  <2>2. PICK f \in Fds, t \in IOType : \E i \in DOMAIN io_events[f][t] :
          /\ io_events[f][t][i] = c /\ interesting_fds' = interesting_fds \cup {f}
          /\ total_io_events' \in Int
          /\ \A g \in Fds, u \in IOType :
               io_events'[g][u] = IF g = f /\ u = t THEN Without(io_events[f][t], i)
                                  ELSE io_events[g][u]
          /\ \A g \in Fds \ {f} : Existing(g)' = Existing(g)
          /\ \E popped \in AfterErase(io_events[f][t], i) :
               /\ popped \in IOWaits /\ popped \in Range(io_events[f][t])
               /\ Len(io_events[f][t]) <= 2 => popped = c
               /\ interrupted' = interrupted \cup {popped}
               /\ todo_events' = Append(todo_events, popped)
    BY <1>6, PopBoundIOEventEffect, Zenon
  <2>3. PICK i \in DOMAIN io_events[f][t] :
          /\ io_events[f][t][i] = c /\ todo_events' = Append(todo_events, c)
          /\ \A g \in Fds, u \in IOType :
               io_events'[g][u] = IF g = f /\ u = t THEN Without(io_events[f][t], i)
                                  ELSE io_events[g][u]
    BY <2>2 DEF ShortQueues
  <2>4. /\ Once(Without(io_events[f][t], i), e) /\ c \in Range(io_events[f][t])
        /\ e \in Range(Without(io_events[f][t], i)) <=> e \in Range(io_events[f][t]) /\ e # c
    BY <1>1, <2>3, OnceWithout DEF Range
  <2>5. \A g \in Fds, u \in IOType :
          /\ Once(io_events'[g][u], e)
          /\ e \in Range(io_events'[g][u]) <=>
               e \in Range(io_events[g][u]) /\ ~(g = f /\ u = t /\ e = c)
    BY <1>1, <2>3, <2>4
  <2>6. \A g \in Fds, u \in IOType :
          /\ Once(io_events[g][u], e)'
          /\ QueuedAt(e, g, u)' <=> QueuedAt(e, g, u) /\ ~(g = f /\ u = t /\ e = c)
    BY <2>5 DEF Once, QueuedAt
  <2>7. e = c => QueuedAt(e, f, t) /\ InQueue(e) /\ ~InTodo(e)
    BY <2>4 DEF QueuedAt, InQueue, IOHome
  <2>8. InQueue(e)' <=> InQueue(e) /\ e # c
    BY <2>6, <2>7 DEF InQueue, IOHome
  <2>9. Once(todo_events, e)' /\ (InTodo(e)' <=> InTodo(e) \/ c = e)
    BY <1>1, <2>3, <2>7, TodoAppend
  <2>10. ~Walked(e) /\ ~Walked(e)'
    BY <2>1 DEF Walked
  <2>11. \A g, h \in Fds, u, v \in IOType : QueuedAt(e, g, u)' /\ QueuedAt(e, h, v)' => g = h /\ u = v
    BY <2>6 DEF IOHome
  <2> QED  BY <2>1, <2>6, <2>7, <2>8, <2>9, <2>10, <2>11 DEF IOHome
<1>7. ASSUME ~CloseResume, ~CloseErase, UNCHANGED io_events,
             (e \in created') = (e \in created), resumes'[e] = resumes[e],
             InTodo(e)' = InTodo(e), Once(todo_events, e)'
      PROVE  IOHome(e)'
  BY <1>7, WalkStays, IOFrame
<1>8. CASE Resume
  <2>1. PICK h \in Waits :
          /\ InTodo(h) /\ resumes'[e] = IF e = h THEN resumes[e] + 1 ELSE resumes[e]
          /\ Once(todo_events, e)' /\ (InTodo(e)' <=> InTodo(e) /\ e # h)
    BY <1>1, <1>8, TodoResume
  <2>2. pc = "resume" /\ pc' = "run" /\ UNCHANGED <<created, io_events>>
    BY <1>8 DEF Resume, ioVars
  <2>3. ~Walked(e) /\ ~Walked(e)'
    BY <2>2 DEF Walked
  <2>4. /\ InQueue(e)' = InQueue(e)
        /\ \A f \in Fds, t \in IOType : QueuedAt(e, f, t)' = QueuedAt(e, f, t)
        /\ \A f \in Fds, t \in IOType : Once(io_events[f][t], e)'
    BY <1>1, <2>2 DEF InQueue, QueuedAt, Once, Range
  <2> QED  BY <2>1, <2>2, <2>3, <2>4 DEF IOHome
<1>9. CASE UNCHANGED <<io_events, created, resumes, todo_events>>
  BY <1>1, <1>3, <1>4, <1>7, <1>9 DEF InTodo, Range, Once
<1>10. CASE \/ \E c \in UserWaits, a \in AbortHandles : AddUserEvent(c, a)
            \/ \E c \in Sleeps, d \in Delays : AddTimeEvent(c, d)
  <2>1. (e \in created') = (e \in created) /\ UNCHANGED <<resumes, todo_events, io_events, pc>>
    BY <1>1, <1>10 DEF AddTimeEvent, AddUserEvent, todoVars, ioVars
  <2> QED  BY <1>1, <1>3, <1>4, <1>7, <2>1 DEF InTodo, Range, Once
<1>11. ASSUME NEW p \in UserWaits \cup Sleeps, todo_events' = Append(todo_events, p),
              UNCHANGED <<io_events, created, resumes>>
       PROVE  IOHome(e)'
  <2>1. Once(todo_events, e)' /\ (InTodo(e)' <=> InTodo(e))
    BY <1>1, <1>11, TodoAppend DEF Waits
  <2> QED  BY <1>3, <1>4, <1>7, <1>11, <2>1 DEF InTodo
<1>12. CASE TimerStep
  <2>1. /\ \/ UNCHANGED todo_events
           \/ \E ev \in time_events : ~ev.trigger /\ todo_events' = Append(todo_events, ev.id)
        /\ UNCHANGED <<created, resumes, io_events>>
    BY <1>12 DEF TimerStep, Earliest, histVars, ioVars
  <2>2. \A ev \in time_events : ~ev.trigger => ev.id \in Sleeps
    BY DEF SleepEvents
  <2> QED  BY <1>9, <1>11, <2>1, <2>2
<1>13. CASE CollectUserEvents
  <2>1. UNCHANGED <<created, resumes, io_events>>
    BY <1>13 DEF CollectUserEvents, histVars, ioVars
  <2>2. ~InTriggered(e) /\ Once(triggered_user_events, e)
    BY <1>1 DEF InTriggered, Range, Once, TypeOK, UserTypes
  <2>3. Once(todo_events, e)' /\ (InTodo(e)' <=> InTodo(e))
    BY <1>1, <1>13, <2>2, CollectMoves
  <2> QED  BY <1>3, <1>4, <1>7, <2>1, <2>3 DEF InTodo
<1>14. CASE PopBoundEvent
  <2>1. PICK c : c = Head(triggered_bound_events)
    OBVIOUS
  <2>2. c \in Waits /\ UNCHANGED <<created, resumes>>
    BY <1>14, <2>1 DEF PopBoundEvent, TypeOK, BoundTypes, histVars
  <2>3. \/ UNCHANGED <<todo_events, io_events>>
        \/ PopBoundIOEvent(c)
        \/ PopBoundUserEvent(c)
    BY <1>14, <2>1 DEF PopBoundEvent, todoVars
  <2>4. CASE PopBoundUserEvent(c)
    <3>1. c \in UserWaits /\ todo_events' = Append(todo_events, c) /\ UNCHANGED io_events
      BY <2>4 DEF PopBoundUserEvent, TypeOK, UserTypes
    <3> QED  BY <1>11, <2>2, <3>1
  <2> QED  BY <1>6, <1>9, <1>14, <2>2, <2>3, <2>4
<1> QED
  BY <1>2, <1>3, <1>4, <1>5, <1>8, <1>9, <1>10, <1>12, <1>13, <1>14
  DEF Next, vars, Coroutine, Loop, ArmUserEvent, Register, RemoveAllIOEvents, Suspend,
      CloseEnd, Trim, TrimIOEvents, TrimFails, IODone, TimersDone, EndWait, EpollWait, Signal,
      Unsupported, TriggerUserEvent, Cancel, NotifyEventLoop, Tick, Terminated, ioVars,
      todoVars, histVars

-----------------------------------------------------------------------------
(* The theorems.                                                           *)

\* Every home but the io events' is kept, relative to Poller's other invariants.
LEMMA HomeStep ==
  ASSUME TypeOK, Control, Watched, Woken, HomeInv, [Next]_vars
  PROVE  HomeInv'
<1>1. SleepEvents'
  BY SleepEventsStep DEF HomeInv
<1>2. \A e \in UserWaits : UserHome(e)'
  BY UserHomeStep DEF HomeInv
<1>3. \A e \in Sleeps : SleepHome(e)'
  BY SleepHomeStep DEF HomeInv
<1> QED  BY <1>1, <1>2, <1>3 DEF HomeInv

\* Initially nothing is anywhere.
LEMMA HomeInit ==
  ASSUME Init
  PROVE  HomeInv /\ IOHomeInv
<1> USE DEF Init
<1>1. \A e \in Waits : resumes[e] = 0 /\ ~InTodo(e) /\ ~InTriggered(e) /\ ~InHeap(e)
  BY DEF InTodo, InTriggered, InHeap, Range
<1>2. \A e : Once(todo_events, e) /\ Once(triggered_user_events, e)
  BY DEF Once
<1>3. HomeInv
  BY <1>1, <1>2 DEF HomeInv, SleepEvents, UserHome, SleepHome, Waits
<1>4. \A f \in Fds, t \in IOType : io_events[f][t] = <<>>
  OBVIOUS
<1>5. \A e : \A f \in Fds, t \in IOType : ~QueuedAt(e, f, t) /\ Once(io_events[f][t], e)
  BY <1>4 DEF QueuedAt, Range, Once
<1>6. ASSUME NEW e \in IOWaits
      PROVE  IOHome(e)
  <2>1. ~InQueue(e) /\ e \notin created /\ resumes[e] = 0 /\ ~InTodo(e)
    BY <1>1, <1>5 DEF InQueue, Waits
  <2>2. \A f, g \in Fds, u, v \in IOType : ~(QueuedAt(e, f, u) /\ QueuedAt(e, g, v))
    BY <1>5
  <2> QED  BY <1>2, <1>5, <2>1, <2>2 DEF IOHome
<1> QED  BY <1>3, <1>6 DEF IOHomeInv

\* The places of a wait, kind by kind.
LEMMA PlacesOf ==
  ASSUME TypeOK, SleepEvents, NEW e
  PROVE  /\ e \in UserWaits => Places(e) =
              (IF e \in pending_user_events THEN {"pending"} ELSE {}) \cup
              (IF InTriggered(e) THEN {"triggered"} ELSE {}) \cup
              (IF InTodo(e) THEN {"todo"} ELSE {})
         /\ e \in Sleeps => Places(e) =
              (IF InHeap(e) THEN {"time"} ELSE {}) \cup (IF InTodo(e) THEN {"todo"} ELSE {})
         /\ e \in IOWaits => Places(e) =
              (IF InQueue(e) /\ ~Walked(e) THEN {"io"} ELSE {}) \cup
              (IF InTodo(e) THEN {"todo"} ELSE {})
<1>1. e \in Queued <=> InQueue(e)
  BY DEF Queued, InQueue, QueuedAt
<1>2. InQueues(e) <=> InQueue(e) /\ ~Walked(e)
  BY <1>1 DEF InQueues, Walked
<1>3. e \notin IOWaits => ~InQueue(e)
  BY DEF InQueue, QueuedAt, Range, TypeOK, IOTypes
<1>4. e \notin Sleeps => ~InHeap(e)
  BY DEF InHeap, SleepEvents
<1>5. e \notin UserWaits => e \notin pending_user_events /\ ~InTriggered(e)
  BY DEF TypeOK, UserTypes, InTriggered, Range
<1>6. \A p : p \in Places(e) <=> \/ p = "io" /\ InQueue(e) /\ ~Walked(e)
                                 \/ p = "time" /\ InHeap(e)
                                 \/ p = "pending" /\ e \in pending_user_events
                                 \/ p = "triggered" /\ InTriggered(e)
                                 \/ p = "todo" /\ InTodo(e)
  BY <1>2 DEF Places, InTriggered, InTodo
<1>7. /\ e \in UserWaits => e \notin IOWaits /\ e \notin Sleeps
      /\ e \in Sleeps => e \notin IOWaits /\ e \notin UserWaits
      /\ e \in IOWaits => e \notin Sleeps /\ e \notin UserWaits
  BY PollerAssumption
<1>8. CASE e \in UserWaits
  BY <1>3, <1>4, <1>6, <1>7, <1>8
<1>9. CASE e \in Sleeps
  BY <1>3, <1>5, <1>6, <1>7, <1>9
<1>10. CASE e \in IOWaits
  BY <1>4, <1>5, <1>6, <1>7, <1>10
<1> QED  BY <1>7, <1>8, <1>9, <1>10

\* At most one place, and no resumption but from it.
LEMMA HomeCounts ==
  ASSUME TypeOK, HomeInv, NEW e \in created, e \in IOWaits => IOHome(e)
  PROVE  Cardinality(Places(e)) + resumes[e] = 1
<1>1. Cardinality({}) = 0 /\ \A p : Cardinality({p}) = 1
  BY FS_EmptySet, FS_Singleton
<1>2. e \in IOWaits \cup UserWaits \cup Sleeps /\ SleepEvents
  BY DEF TypeOK, HistTypes, Waits, HomeInv
<1>3. \/ Places(e) = {} /\ resumes[e] = 1
      \/ \E p : Places(e) = {p} /\ resumes[e] = 0
  <2>1. CASE e \in UserWaits
    <3>1. UserHome(e)
      BY <2>1 DEF HomeInv
    <3> QED  BY <1>2, <2>1, <3>1, PlacesOf DEF UserHome
  <2>2. CASE e \in Sleeps
    <3>1. SleepHome(e)
      BY <2>2 DEF HomeInv
    <3> QED  BY <1>2, <2>2, <3>1, PlacesOf DEF SleepHome
  <2>3. CASE e \in IOWaits
    BY <1>2, <2>3, PlacesOf DEF IOHome
  <2> QED  BY <1>2, <2>1, <2>2, <2>3
<1>4. CASE Places(e) = {} /\ resumes[e] = 1
  <2>1. Cardinality(Places(e)) = 0
    BY <1>1, <1>4, Zenon
  <2> QED  BY <1>4, <2>1
<1>5. ASSUME NEW p, Places(e) = {p}, resumes[e] = 0
      PROVE  Cardinality(Places(e)) + resumes[e] = 1
  <2>1. Cardinality(Places(e)) = 1
    BY <1>1, <1>5, Zenon
  <2> QED  BY <1>5, <2>1
<1> QED  BY <1>3, <1>4, <1>5

\* A coroutine that sleeps, or waits for a lock, a condition or an executor, has its event
\* in one place until it is resumed, and is resumed once: no order of notification,
\* timeout, cancellation and turn loses it or runs it twice.
THEOREM OneHomeButSockets ==
  Spec => [](\A e \in created \ IOWaits : Cardinality(Places(e)) + resumes[e] = 1)
<1>1. Init => Woken
  BY DEF Init, Woken, Range
<1>2. TypeOK /\ Control /\ Watched /\ [Next]_vars => (TypeOK /\ Control /\ Watched)'
  BY BasicStep
<1>3. TypeOK /\ HomeInv => \A e \in created \ IOWaits : Cardinality(Places(e)) + resumes[e] = 1
  BY HomeCounts
<1> QED  BY <1>1, <1>2, <1>3, BasicInit, HomeInit, WokenStep, HomeStep, PTL DEF Spec

\* Every coroutine, those that wait on sockets included, as long as no direction of a
\* descriptor has more than two of them waiting (epoll.cc:453): readiness, close, timeout
\* and cancellation never lose an event or hand it out twice.
THEOREM OneHomeForAll == Spec /\ []ShortQueues => []OneHome
<1>1. Init => Woken
  BY DEF Init, Woken, Range
<1>2. TypeOK /\ Control /\ Watched /\ [Next]_vars => (TypeOK /\ Control /\ Watched)'
  BY BasicStep
<1>3. TypeOK /\ Control /\ Watched /\ HomeInv /\ ShortQueues /\ IOHomeInv /\ [Next]_vars
        => IOHomeInv'
  BY IOHomeStep DEF IOHomeInv, HomeInv
<1>4. TypeOK /\ HomeInv /\ IOHomeInv => OneHome
  BY HomeCounts DEF OneHome, IOHomeInv
<1> QED  BY <1>1, <1>2, <1>3, <1>4, BasicInit, HomeInit, WokenStep, HomeStep, PTL DEF Spec

-----------------------------------------------------------------------------
(* The count of the waits on sockets.                                      *)

\* A wait on a socket is in one queue at most, once, however long the queues are.
QueueHome(e) ==
  /\ InQueue(e) => e \in created
  /\ \A f, g \in Fds, u, v \in IOType :
       QueuedAt(e, f, u) /\ QueuedAt(e, g, v) => f = g /\ u = v
  /\ \A f \in Fds, u \in IOType : Once(io_events[f][u], e)
QueueInv == \A e \in IOWaits : QueueHome(e)

\* total_io_events_ counts at least the waits that are queued, and exactly those if there
\* is no high descriptor.
CountInv ==
  /\ IsFiniteSet(Queued) /\ total_io_events >= QueuedWaits
  /\ HighFds = {} => total_io_events = QueuedWaits

\* What it counts beyond them are waits that were interrupted.
InterruptedIO == interrupted \cap IOWaits
UncountedInv ==
  /\ IsFiniteSet(InterruptedIO) /\ InterruptedIO \subseteq created
  /\ InterruptedIO \cap Queued = {}
  /\ total_io_events <= QueuedWaits + Cardinality(InterruptedIO)

\* Queued, wait by wait.
LEMMA QueuedIs ==
  ASSUME TypeOK
  PROVE  Queued \subseteq IOWaits /\ \A e : e \in Queued <=> InQueue(e)
<1>1. \A e : e \in Queued <=> InQueue(e)
  BY DEF Queued, InQueue, QueuedAt
<1>2. \A f \in Fds, t \in IOType : Range(io_events[f][t]) \subseteq IOWaits
  BY DEF Range, TypeOK, IOTypes
<1> QED  BY <1>1, <1>2 DEF InQueue, QueuedAt

\* The queues lose the events of a set.
LEMMA QueuesLose ==
  ASSUME TypeOK, TypeOK', QueueInv, NEW Out \in SUBSET Queued, created \subseteq created',
         \A e \in IOWaits, g \in Fds, u \in IOType :
           /\ Once(io_events'[g][u], e)
           /\ e \in Range(io_events'[g][u]) <=> e \in Range(io_events[g][u]) /\ e \notin Out
  PROVE  QueueInv' /\ Queued' = Queued \ Out
<1>1. \A e \in IOWaits, g \in Fds, u \in IOType :
        /\ Once(io_events[g][u], e)'
        /\ QueuedAt(e, g, u)' <=> QueuedAt(e, g, u) /\ e \notin Out
  BY DEF Once, QueuedAt
<1>2. \A e \in IOWaits : InQueue(e)' <=> InQueue(e) /\ e \notin Out
  BY <1>1 DEF InQueue
<1>3. QueueInv'
  BY <1>1, <1>2 DEF QueueInv, QueueHome
<1>4. Queued' \subseteq IOWaits /\ \A e : e \in Queued' <=> InQueue(e)'
  <2>1. \A e : e \in Queued' <=> InQueue(e)'
    BY DEF Queued, InQueue, QueuedAt
  <2>2. \A f \in Fds, t \in IOType : Range(io_events'[f][t]) \subseteq IOWaits
    BY DEF Range, TypeOK, IOTypes
  <2> QED  BY <2>1, <2>2 DEF InQueue, QueuedAt
<1>5. Queued' = Queued \ Out
  BY <1>2, <1>4, QueuedIs
<1> QED  BY <1>3, <1>5

\* AddIOEvent puts a new wait into one queue.
LEMMA QueuesGain ==
  ASSUME TypeOK, TypeOK', QueueInv, NEW c \in IOWaits, NEW f \in Fds, NEW t \in IOType,
         NEW a \in AbortHandles, AddIOEvent(c, f, t, a)
  PROVE  QueueInv' /\ Queued' = Queued \cup {c} /\ c \notin Queued
<1>1. c \notin created /\ created' = created \cup {c}
  BY DEF AddIOEvent
<1>2. \A g \in Fds, u \in IOType : io_events[g][u] \in Seq(IOWaits) /\ ~QueuedAt(c, g, u)
  BY <1>1 DEF QueueInv, QueueHome, InQueue, TypeOK, IOTypes
<1>3. ASSUME NEW e \in IOWaits
      PROVE  QueueHome(e)' /\ (InQueue(e)' <=> InQueue(e) \/ e = c)
  <2>1. \A g \in Fds, u \in IOType :
          io_events'[g][u] = IF g = f /\ u = t THEN Append(io_events[f][t], c)
                             ELSE io_events[g][u]
    BY AddIOEventEffect
  <2>2. \A g \in Fds, u \in IOType : Once(io_events[g][u], e)
    BY DEF QueueInv, QueueHome
  <2>3. Once(Append(io_events[f][t], c), e)
        /\ Range(Append(io_events[f][t], c)) = Range(io_events[f][t]) \cup {c}
    BY <1>2, <2>2, OnceAppend, AppendRange DEF QueuedAt
  <2>4. \A g \in Fds, u \in IOType :
          /\ Once(io_events'[g][u], e)
          /\ e \in Range(io_events'[g][u]) <=>
               e \in Range(io_events[g][u]) \/ (e = c /\ g = f /\ u = t)
    BY <2>1, <2>2, <2>3
  <2>5. \A g \in Fds, u \in IOType :
          /\ Once(io_events[g][u], e)'
          /\ QueuedAt(e, g, u)' <=> QueuedAt(e, g, u) \/ (e = c /\ g = f /\ u = t)
    BY <2>4 DEF Once, QueuedAt
  <2>6. InQueue(e)' <=> InQueue(e) \/ e = c
    BY <2>5 DEF InQueue
  <2>7. \A g, h \in Fds, u, v \in IOType : QueuedAt(e, g, u)' /\ QueuedAt(e, h, v)' => g = h /\ u = v
    BY <1>2, <2>5 DEF QueueInv, QueueHome
  <2> QED  BY <1>1, <2>5, <2>6, <2>7 DEF QueueInv, QueueHome
<1>4. Queued' \subseteq IOWaits /\ \A e : e \in Queued' <=> InQueue(e)'
  <2>1. \A e : e \in Queued' <=> InQueue(e)'
    BY DEF Queued, InQueue, QueuedAt
  <2>2. \A g \in Fds, u \in IOType : Range(io_events'[g][u]) \subseteq IOWaits
    BY DEF Range, TypeOK, IOTypes
  <2> QED  BY <2>1, <2>2 DEF InQueue, QueuedAt
<1>5. Queued' = Queued \cup {c}
  BY <1>3, <1>4, QueuedIs
<1>6. c \notin Queued
  BY <1>2, QueuedIs DEF InQueue
<1> QED  BY <1>3, <1>5, <1>6 DEF QueueInv

\* CloseErase takes the event the walk is at.
LEMMA QueuesClose ==
  ASSUME TypeOK, TypeOK', Control, QueueInv, CloseErase
  PROVE  /\ QueueInv' /\ total_io_events' = total_io_events - 1
         /\ \E c \in Queued : Queued' = Queued \ {c}
<1>1. /\ closing \in Fds /\ ClosingType \in IOType /\ io_events[closing][ClosingType] # <<>>
      /\ \A g \in Fds, u \in IOType :
           io_events'[g][u] = IF g = closing /\ u = ClosingType
                              THEN Tail(io_events[closing][ClosingType])
                              ELSE io_events[g][u]
  BY CloseEraseEffect
<1>2. UNCHANGED created /\ total_io_events' = total_io_events - 1
  BY DEF CloseErase, histVars
<1>3. PICK c, f, t : c = ClosingEvent /\ f = closing /\ t = ClosingType
  OBVIOUS
<1>4. io_events[f][t] \in Seq(IOWaits) /\ \A e \in IOWaits, g \in Fds, u \in IOType : Once(io_events[g][u], e)
  BY <1>1, <1>3 DEF TypeOK, IOTypes, QueueInv, QueueHome
<1>5. c \in Range(io_events[f][t])
  BY <1>1, <1>3, <1>4, TailRange DEF ClosingEvent
<1>6. ASSUME NEW e \in IOWaits, NEW g \in Fds, NEW u \in IOType
      PROVE  /\ Once(io_events'[g][u], e)
             /\ e \in Range(io_events'[g][u]) <=> e \in Range(io_events[g][u]) /\ e \notin {c}
  <2>1. CASE g = f /\ u = t
    BY <1>1, <1>3, <1>4, <2>1, OnceTail DEF ClosingEvent
  <2>2. CASE ~(g = f /\ u = t)
    <3>1. io_events'[g][u] = io_events[g][u]
      BY <1>1, <1>3, <2>2
    <3>2. e = c => e \notin Range(io_events[g][u])
      BY <1>1, <1>3, <1>5, <2>2 DEF QueueInv, QueueHome, QueuedAt
    <3> QED  BY <1>4, <3>1, <3>2
  <2> QED  BY <2>1, <2>2
<1>7. c \in Queued
  BY <1>1, <1>3, <1>5 DEF Queued
<1>8. QueueInv' /\ Queued' = Queued \ {c}
  BY <1>2, <1>6, <1>7, QueuesLose
<1> QED  BY <1>2, <1>7, <1>8

\* PopIOEvent takes one event for every direction that was reported.
LEMMA QueuesPop ==
  ASSUME TypeOK, TypeOK', Watched, QueueInv, IsFiniteSet(Queued), NEW f \in Fds, PopIOEvent(f)
  PROVE  /\ QueueInv' /\ Queued' \subseteq Queued /\ IsFiniteSet(Queued')
         /\ QueuedWaits' = QueuedWaits - Cardinality(hits[f]) /\ Cardinality(hits[f]) \in Nat
<1> DEFINE head(t) == Head(io_events[f][t])
           Out     == {head(t) : t \in hits[f]}
<1>1. hits[f] \subseteq IOType /\ hits[f] # {} /\ UNCHANGED created
  BY DEF PopIOEvent, histVars, TypeOK, LoopTypes
<1>2. \A g \in Fds, t \in IOType :
        /\ g = f /\ t \in hits[f] =>
             /\ io_events[f][t] # <<>> /\ io_events'[f][t] = Tail(io_events[f][t])
        /\ ~(g = f /\ t \in hits[f]) => io_events'[g][t] = io_events[g][t]
  BY PopIOEventEffect
<1>3. \A g \in Fds, u \in IOType : /\ io_events[g][u] \in Seq(IOWaits)
                                   /\ \A e \in IOWaits : Once(io_events[g][u], e)
  BY DEF TypeOK, IOTypes, QueueInv, QueueHome
<1>4. \A t \in hits[f] : head(t) \in Range(io_events[f][t]) /\ head(t) \in IOWaits
  BY <1>1, <1>2, <1>3, TailRange
<1>5. \A t \in hits[f], g \in Fds, u \in IOType :
        head(t) \in Range(io_events[g][u]) => g = f /\ u = t
  BY <1>1, <1>4 DEF QueueInv, QueueHome, QueuedAt
<1>6. ASSUME NEW e \in IOWaits, NEW g \in Fds, NEW u \in IOType
      PROVE  /\ Once(io_events'[g][u], e)
             /\ e \in Range(io_events'[g][u]) <=> e \in Range(io_events[g][u]) /\ e \notin Out
  <2>1. CASE g = f /\ u \in hits[f]
    <3>1. /\ Once(io_events'[g][u], e)
          /\ e \in Range(io_events'[g][u]) <=> e \in Range(io_events[g][u]) /\ e # head(u)
      BY <1>2, <1>3, <2>1, OnceTail
    <3> HIDE DEF head
    <3>2. e \in Range(io_events[g][u]) => (e \in Out <=> e = head(u))
      BY <1>5, <2>1
    <3> QED  BY <3>1, <3>2
  <2>2. CASE ~(g = f /\ u \in hits[f])
    <3> HIDE DEF head
    <3>1. e \in Range(io_events[g][u]) => e \notin Out
      BY <1>5, <2>2
    <3> QED  BY <1>2, <1>3, <2>2, <3>1
  <2> QED  BY <2>1, <2>2
<1> HIDE DEF head
<1>7. Out \subseteq Queued
  BY <1>1, <1>4 DEF Queued
<1>8. QueueInv' /\ Queued' = Queued \ Out
  <2> HIDE DEF Out
  <2> QED  BY <1>1, <1>6, <1>7, QueuesLose
<1>9. CASE hits[f] = IOType
  <2>1. Out = {head("READ"), head("WRITE")} /\ head("READ") # head("WRITE")
    BY <1>4, <1>5, <1>9 DEF IOType
  <2> DEFINE rest == Queued \ {head("READ")}
  <2>2. IsFiniteSet(rest) /\ Cardinality(rest) = Cardinality(Queued) - 1
    BY <1>7, <2>1, FS_RemoveElement
  <2>3. head("WRITE") \in rest /\ Queued' = rest \ {head("WRITE")}
    BY <1>7, <1>8, <2>1
  <2> HIDE DEF rest
  <2>4. IsFiniteSet(Queued') /\ Cardinality(Queued') = Cardinality(rest) - 1
    BY <2>2, <2>3, FS_RemoveElement
  <2>5. Cardinality(hits[f]) = 2
    <3>1. IsFiniteSet({"READ"}) /\ Cardinality({"READ"}) = 1
      BY FS_Singleton
    <3>2. Cardinality({"READ"} \cup {"WRITE"}) = Cardinality({"READ"}) + 1
      BY <3>1, FS_AddElement
    <3>3. IOType = {"READ"} \cup {"WRITE"}
      BY DEF IOType
    <3> QED  BY <1>9, <3>1, <3>2, <3>3
  <2>6. Cardinality(Queued) \in Nat
    BY FS_CardinalityType
  <2> QED  BY <1>8, <2>2, <2>4, <2>5, <2>6 DEF QueuedWaits
<1>10. ASSUME NEW t, hits[f] = {t}
       PROVE  /\ IsFiniteSet(Queued') /\ Cardinality(hits[f]) = 1
              /\ QueuedWaits' = QueuedWaits - Cardinality(hits[f])
  <2>1. Cardinality(hits[f]) = 1
    BY <1>10, FS_Singleton
  <2>2. Out = {head(t)} /\ head(t) \in Queued
    BY <1>7, <1>10
  <2>3. Queued' = Queued \ {head(t)}
    BY <1>8, <2>2
  <2>4. IsFiniteSet(Queued') /\ Cardinality(Queued') = Cardinality(Queued) - 1
    BY <2>2, <2>3, FS_RemoveElement
  <2> QED  BY <2>1, <2>4 DEF QueuedWaits
<1>11. hits[f] = IOType \/ hits[f] = {"READ"} \/ hits[f] = {"WRITE"}
  BY <1>1 DEF IOType
<1>12. Queued' \subseteq Queued
  BY <1>8
<1>13. CASE hits[f] = {"READ"} \/ hits[f] = {"WRITE"}
  <2>1. PICK t : hits[f] = {t}
    BY <1>13
  <2>2. /\ IsFiniteSet(Queued') /\ Cardinality(hits[f]) = 1
        /\ QueuedWaits' = QueuedWaits - Cardinality(hits[f])
    BY <1>10, <2>1, Zenon
  <2>3. Cardinality(hits[f]) \in Nat
    BY <2>2
  <2> QED  BY <1>8, <1>12, <2>2, <2>3, Zenon
<1> QED  BY <1>9, <1>11, <1>13

\* PopBoundEvent takes the wait that was cancelled or timed out.
LEMMA QueuesPopBound ==
  ASSUME TypeOK, TypeOK', QueueInv, NEW c \in Waits, PopBoundIOEvent(c), created' = created
  PROVE  /\ QueueInv' /\ c \in Queued /\ Queued' = Queued \ {c}
         /\ \/ total_io_events' = total_io_events - 1
            \/ HighFds # {} /\ total_io_events' = total_io_events
         /\ \E popped : interrupted' = interrupted \cup {popped} /\ (ShortQueues => popped = c)
<1>1. PICK f \in Fds, t \in IOType : \E i \in DOMAIN io_events[f][t] :
        /\ io_events[f][t][i] = c /\ interesting_fds' = interesting_fds \cup {f}
        /\ total_io_events' \in Int
        /\ \A g \in Fds, u \in IOType :
             io_events'[g][u] = IF g = f /\ u = t THEN Without(io_events[f][t], i)
                                ELSE io_events[g][u]
        /\ \A g \in Fds \ {f} : Existing(g)' = Existing(g)
        /\ \E popped \in AfterErase(io_events[f][t], i) :
             /\ popped \in IOWaits /\ popped \in Range(io_events[f][t])
             /\ Len(io_events[f][t]) <= 2 => popped = c
             /\ interrupted' = interrupted \cup {popped}
             /\ todo_events' = Append(todo_events, popped)
  BY PopBoundIOEventEffect, Zenon
<1>2. PICK i \in DOMAIN io_events[f][t] :
        /\ io_events[f][t][i] = c
        /\ \E popped : interrupted' = interrupted \cup {popped} /\ (ShortQueues => popped = c)
        /\ \A g \in Fds, u \in IOType :
             io_events'[g][u] = IF g = f /\ u = t THEN Without(io_events[f][t], i)
                                ELSE io_events[g][u]
  BY <1>1 DEF ShortQueues
<1>3. \A g \in Fds, u \in IOType : /\ io_events[g][u] \in Seq(IOWaits)
                                   /\ \A e \in IOWaits : Once(io_events[g][u], e)
  BY DEF TypeOK, IOTypes, QueueInv, QueueHome
<1>4. c \in Range(io_events[f][t]) /\ c \in IOWaits
  BY <1>2, <1>3 DEF Range
<1>5. ASSUME NEW e \in IOWaits, NEW g \in Fds, NEW u \in IOType
      PROVE  /\ Once(io_events'[g][u], e)
             /\ e \in Range(io_events'[g][u]) <=> e \in Range(io_events[g][u]) /\ e \notin {c}
  <2>1. CASE g = f /\ u = t
    <3>1. /\ Once(Without(io_events[f][t], i), e)
          /\ e \in Range(Without(io_events[f][t], i)) <=> e \in Range(io_events[f][t]) /\ e # c
      BY <1>2, <1>3, OnceWithout
    <3> QED  BY <1>2, <2>1, <3>1
  <2>2. CASE ~(g = f /\ u = t)
    <3>1. io_events'[g][u] = io_events[g][u]
      BY <1>2, <2>2
    <3>2. e = c => e \notin Range(io_events[g][u])
      BY <1>4, <2>2 DEF QueueInv, QueueHome, QueuedAt
    <3> QED  BY <1>3, <3>1, <3>2
  <2> QED  BY <2>1, <2>2
<1>6. c \in Queued
  BY <1>4 DEF Queued
<1>7. QueueInv' /\ Queued' = Queued \ {c}
  BY <1>5, <1>6, QueuesLose
<1>8. \/ total_io_events' = total_io_events - 1
      \/ HighFds # {} /\ total_io_events' = total_io_events
  BY DEF PopBoundIOEvent, TypeOK, IOTypes
<1> QED  BY <1>2, <1>6, <1>7, <1>8

\* The actions that move no wait into or out of a queue leave its count alone.
LEMMA QueuesFrame ==
  ASSUME TypeOK, TypeOK', QueueInv, UNCHANGED io_events, created \subseteq created'
  PROVE  QueueInv' /\ Queued' = Queued /\ QueuedWaits' = QueuedWaits
<1>1. \A e \in IOWaits, g \in Fds, u \in IOType :
        /\ Once(io_events'[g][u], e)
        /\ e \in Range(io_events'[g][u]) <=> e \in Range(io_events[g][u]) /\ e \notin {}
  BY DEF QueueInv, QueueHome
<1>2. QueueInv' /\ Queued' = Queued \ {}
  BY <1>1, QueuesLose
<1> QED  BY <1>2 DEF QueuedWaits

\* How a step changes the waits that are queued, their count and those interrupted.
LEMMA CountMoves ==
  ASSUME TypeOK, TypeOK', Control, Watched, QueueInv, IsFiniteSet(Queued), [Next]_vars
  PROVE  /\ QueueInv' /\ created \subseteq created'
         /\ \/ /\ UNCHANGED total_io_events /\ InterruptedIO' = InterruptedIO
               /\ Queued' = Queued
            \/ \E c \in IOWaits \ created :
                 /\ total_io_events' = total_io_events + 1 /\ InterruptedIO' = InterruptedIO
                 /\ Queued' = Queued \cup {c} /\ c \notin Queued /\ c \in created'
            \/ \E n \in Nat :
                 /\ total_io_events' = total_io_events - n /\ InterruptedIO' = InterruptedIO
                 /\ Queued' \subseteq Queued /\ IsFiniteSet(Queued')
                 /\ QueuedWaits' = QueuedWaits - n
            \/ \E c \in Queued :
                 /\ \/ total_io_events' = total_io_events - 1
                    \/ HighFds # {} /\ total_io_events' = total_io_events
                 /\ Queued' = Queued \ {c}
                 /\ ShortQueues => InterruptedIO' = InterruptedIO \cup {c}
<1>1. created \subseteq created'
  BY DEF Next, vars, Coroutine, Loop, AddIOEvent, AddTimeEvent, AddUserEvent, ArmUserEvent,
      Register, RemoveAllIOEvents, Suspend, CloseResume, CloseErase, CloseEnd, Resume, Trim,
      TrimFails, PopIOEvent, IODone, TimerStep, TimersDone, CollectUserEvents, PopBoundEvent,
      EndWait, EpollWait, Signal, Unsupported, TriggerUserEvent, Cancel, NotifyEventLoop, Tick,
      Terminated, histVars
<1>2. CASE UNCHANGED <<io_events, total_io_events>> /\ InterruptedIO' = InterruptedIO
  BY <1>1, <1>2, QueuesFrame
<1>3. ASSUME NEW c \in IOWaits, NEW f \in Fds, NEW t \in IOType, NEW a \in AbortHandles,
             AddIOEvent(c, f, t, a)
      PROVE  /\ QueueInv' /\ c \notin created /\ c \in created'
             /\ total_io_events' = total_io_events + 1 /\ InterruptedIO' = InterruptedIO
             /\ Queued' = Queued \cup {c} /\ c \notin Queued
  BY <1>3, QueuesGain DEF AddIOEvent, InterruptedIO, todoVars
<1>4. CASE CloseErase
  <2>1. PICK c \in Queued : Queued' = Queued \ {c}
    BY <1>4, QueuesClose
  <2>2. QueueInv' /\ total_io_events' = total_io_events - 1
    BY <1>4, QueuesClose
  <2>3. InterruptedIO' = InterruptedIO
    BY <1>4 DEF CloseErase, InterruptedIO, todoVars
  <2>4. IsFiniteSet(Queued') /\ QueuedWaits' = QueuedWaits - 1 /\ Queued' \subseteq Queued
    BY <2>1, FS_RemoveElement DEF QueuedWaits
  <2>5. 1 \in Nat
    OBVIOUS
  <2> QED  BY <1>1, <2>2, <2>3, <2>4, <2>5, Zenon
<1>5. ASSUME NEW f \in Fds, PopIOEvent(f)
      PROVE  /\ QueueInv'
             /\ \E n \in Nat :
                  /\ total_io_events' = total_io_events - n /\ InterruptedIO' = InterruptedIO
                  /\ Queued' \subseteq Queued /\ IsFiniteSet(Queued')
                  /\ QueuedWaits' = QueuedWaits - n
  <2>1. /\ QueueInv' /\ Queued' \subseteq Queued /\ IsFiniteSet(Queued')
        /\ QueuedWaits' = QueuedWaits - Cardinality(hits[f]) /\ Cardinality(hits[f]) \in Nat
    BY <1>5, QueuesPop
  <2>2. total_io_events' = total_io_events - Cardinality(hits[f]) /\ InterruptedIO' = InterruptedIO
    BY <1>5 DEF PopIOEvent, InterruptedIO
  <2> QED  BY <2>1, <2>2, Zenon
<1>6. CASE PopBoundEvent
  <2>1. PICK c : c = Head(triggered_bound_events)
    OBVIOUS
  <2>2. c \in Waits /\ UNCHANGED created
    BY <1>6, <2>1 DEF PopBoundEvent, TypeOK, BoundTypes, histVars
  <2>3. \/ UNCHANGED <<io_events, total_io_events, interrupted>>
        \/ PopBoundIOEvent(c)
        \/ PopBoundUserEvent(c)
    BY <1>6, <2>1 DEF PopBoundEvent, todoVars
  <2>4. CASE UNCHANGED <<io_events, total_io_events, interrupted>>
    BY <1>2, <2>4 DEF InterruptedIO
  <2>5. CASE PopBoundUserEvent(c)
    <3>1. /\ UNCHANGED <<io_events, total_io_events>> /\ interrupted' = interrupted \cup {c}
          /\ c \notin IOWaits
      BY <2>5, PollerAssumption DEF PopBoundUserEvent, TypeOK, UserTypes
    <3> QED  BY <1>2, <3>1 DEF InterruptedIO
  <2>6. CASE PopBoundIOEvent(c)
    <3>1. /\ QueueInv' /\ c \in Queued /\ Queued' = Queued \ {c}
          /\ \/ total_io_events' = total_io_events - 1
             \/ HighFds # {} /\ total_io_events' = total_io_events
          /\ ShortQueues => interrupted' = interrupted \cup {c}
      BY <2>2, <2>6, QueuesPopBound
    <3>2. c \in IOWaits
      BY <3>1, QueuedIs
    <3>3. ShortQueues => InterruptedIO' = InterruptedIO \cup {c}
      BY <3>1, <3>2 DEF InterruptedIO
    <3> QED  BY <1>1, <3>1, <3>3
  <2> QED  BY <2>3, <2>4, <2>5, <2>6
<1>7. CASE UNCHANGED <<io_events, total_io_events, interrupted>>
  BY <1>2, <1>7 DEF InterruptedIO
<1>8. \/ UNCHANGED <<io_events, total_io_events, interrupted>> \/ CloseErase \/ PopBoundEvent
      \/ \E c \in IOWaits, f \in Fds, t \in IOType, a \in AbortHandles : AddIOEvent(c, f, t, a)
      \/ \E f \in Fds : PopIOEvent(f)
  <2>1. UNCHANGED interrupted \/ PopBoundEvent
    BY DEF Next, vars, Coroutine, Loop, AddIOEvent, AddTimeEvent, AddUserEvent, ArmUserEvent,
        Register, RemoveAllIOEvents, Suspend, CloseResume, CloseErase, CloseEnd, Resume, Trim,
        TrimFails, PopIOEvent, IODone, TimerStep, TimersDone, CollectUserEvents,
        EndWait, EpollWait, Signal, Unsupported, TriggerUserEvent, Cancel, NotifyEventLoop, Tick,
        Terminated, todoVars
  <2>2. IOStep \/ UNCHANGED ioVars
    BY IOStepIs
  <2>3. CASE CloseEnd \/ Trim \/ \E f \in Fds : RemoveAllIOEvents(f)
    <3>1. UNCHANGED <<io_events, total_io_events>>
      BY <2>3 DEF CloseEnd, Trim, TrimIOEvents, RemoveAllIOEvents
    <3> QED  BY <2>1, <3>1
  <2> QED  BY <2>1, <2>2, <2>3 DEF IOStep, ioVars
<1>9. CASE \E c \in IOWaits, f \in Fds, t \in IOType, a \in AbortHandles : AddIOEvent(c, f, t, a)
  <2>1. PICK c \in IOWaits, f \in Fds, t \in IOType, a \in AbortHandles : AddIOEvent(c, f, t, a)
    BY <1>9
  <2> QED  BY <1>1, <1>3, <2>1
<1>10. CASE \E f \in Fds : PopIOEvent(f)
  BY <1>1, <1>5, <1>10, Zenon
<1> QED  BY <1>4, <1>6, <1>7, <1>8, <1>9, <1>10

\* The count is kept.
LEMMA CountStep ==
  ASSUME TypeOK, TypeOK', Control, Watched, QueueInv, CountInv, [Next]_vars
  PROVE  QueueInv' /\ CountInv'
<1>1. /\ IsFiniteSet(Queued) /\ QueuedWaits \in Nat
      /\ total_io_events \in Int /\ total_io_events' \in Int
  BY FS_CardinalityType DEF CountInv, QueuedWaits, TypeOK, IOTypes
<1>2. QueueInv'
  BY <1>1, CountMoves
<1>3. CASE Queued' = Queued /\ UNCHANGED total_io_events
  BY <1>2, <1>3 DEF CountInv, QueuedWaits
<1>4. ASSUME NEW c, total_io_events' = total_io_events + 1, Queued' = Queued \cup {c}, c \notin Queued
      PROVE  CountInv'
  <2>1. IsFiniteSet(Queued') /\ QueuedWaits' = QueuedWaits + 1
    BY <1>1, <1>4, FS_AddElement DEF QueuedWaits
  <2> QED  BY <1>1, <1>4, <2>1 DEF CountInv
<1>5. ASSUME NEW n \in Nat, total_io_events' = total_io_events - n, IsFiniteSet(Queued'),
             QueuedWaits' = QueuedWaits - n
      PROVE  CountInv'
  BY <1>1, <1>5 DEF CountInv
<1>6. ASSUME NEW c \in Queued, Queued' = Queued \ {c},
             \/ total_io_events' = total_io_events - 1
             \/ HighFds # {} /\ total_io_events' = total_io_events
      PROVE  CountInv'
  <2>1. IsFiniteSet(Queued') /\ QueuedWaits' = QueuedWaits - 1
    BY <1>1, <1>6, FS_RemoveElement DEF QueuedWaits
  <2> QED  BY <1>1, <1>6, <2>1 DEF CountInv
<1>7. \/ Queued' = Queued /\ UNCHANGED total_io_events
      \/ \E c : /\ total_io_events' = total_io_events + 1 /\ Queued' = Queued \cup {c}
                /\ c \notin Queued
      \/ \E n \in Nat : /\ total_io_events' = total_io_events - n /\ IsFiniteSet(Queued')
                        /\ QueuedWaits' = QueuedWaits - n
      \/ \E c \in Queued : /\ Queued' = Queued \ {c}
                           /\ \/ total_io_events' = total_io_events - 1
                              \/ HighFds # {} /\ total_io_events' = total_io_events
  BY <1>1, CountMoves, Zenon
<1> QED  BY <1>2, <1>3, <1>4, <1>5, <1>6, <1>7, Zenon

\* So is its upper bound, while the queues are short.
LEMMA UncountedStep ==
  ASSUME TypeOK, TypeOK', Control, Watched, QueueInv, CountInv, ShortQueues, UncountedInv,
         [Next]_vars
  PROVE  UncountedInv'
<1>1. /\ IsFiniteSet(Queued) /\ QueuedWaits \in Nat
      /\ IsFiniteSet(InterruptedIO) /\ Cardinality(InterruptedIO) \in Nat
      /\ total_io_events \in Int /\ total_io_events' \in Int
  BY FS_CardinalityType DEF CountInv, UncountedInv, QueuedWaits, TypeOK, IOTypes
<1>2. created \subseteq created'
  BY <1>1, CountMoves
<1>3. CASE Queued' = Queued /\ UNCHANGED total_io_events /\ InterruptedIO' = InterruptedIO
  BY <1>2, <1>3 DEF UncountedInv, QueuedWaits
<1>4. ASSUME NEW c \in IOWaits \ created, total_io_events' = total_io_events + 1,
             Queued' = Queued \cup {c}, c \notin Queued, InterruptedIO' = InterruptedIO
      PROVE  UncountedInv'
  <2>1. IsFiniteSet(Queued') /\ QueuedWaits' = QueuedWaits + 1
    BY <1>1, <1>4, FS_AddElement DEF QueuedWaits
  <2>2. total_io_events' <= QueuedWaits' + Cardinality(InterruptedIO')
    BY <1>1, <1>4, <2>1 DEF UncountedInv
  <2>3. InterruptedIO' \subseteq created' /\ InterruptedIO' \cap Queued' = {}
    BY <1>2, <1>4 DEF UncountedInv
  <2> QED  BY <1>1, <1>4, <2>2, <2>3 DEF UncountedInv
<1>5. ASSUME NEW n \in Nat, total_io_events' = total_io_events - n, Queued' \subseteq Queued,
             QueuedWaits' = QueuedWaits - n, InterruptedIO' = InterruptedIO
      PROVE  UncountedInv'
  <2>1. total_io_events' <= QueuedWaits' + Cardinality(InterruptedIO')
    BY <1>1, <1>5 DEF UncountedInv
  <2>2. InterruptedIO' \subseteq created' /\ InterruptedIO' \cap Queued' = {}
    BY <1>2, <1>5 DEF UncountedInv
  <2> QED  BY <1>1, <1>5, <2>1, <2>2 DEF UncountedInv
<1>6. ASSUME NEW c \in Queued, Queued' = Queued \ {c}, InterruptedIO' = InterruptedIO \cup {c},
             total_io_events' = total_io_events - 1 \/ total_io_events' = total_io_events
      PROVE  UncountedInv'
  <2>1. QueuedWaits' = QueuedWaits - 1
    BY <1>1, <1>6, FS_RemoveElement DEF QueuedWaits
  <2>2. c \notin InterruptedIO /\ c \in created
    BY QueuedIs DEF UncountedInv, QueueInv, QueueHome
  <2>3. IsFiniteSet(InterruptedIO') /\ Cardinality(InterruptedIO') = Cardinality(InterruptedIO) + 1
    BY <1>1, <1>6, <2>2, FS_AddElement
  <2>4. total_io_events' <= QueuedWaits' + Cardinality(InterruptedIO')
    BY <1>1, <1>6, <2>1, <2>3 DEF UncountedInv
  <2>5. InterruptedIO' \subseteq created' /\ InterruptedIO' \cap Queued' = {}
    BY <1>2, <1>6, <2>2 DEF UncountedInv
  <2> QED  BY <2>3, <2>4, <2>5 DEF UncountedInv
<1>7. \/ Queued' = Queued /\ UNCHANGED total_io_events /\ InterruptedIO' = InterruptedIO
      \/ \E c \in IOWaits \ created :
           /\ total_io_events' = total_io_events + 1 /\ InterruptedIO' = InterruptedIO
           /\ Queued' = Queued \cup {c} /\ c \notin Queued
      \/ \E n \in Nat :
           /\ total_io_events' = total_io_events - n /\ InterruptedIO' = InterruptedIO
           /\ Queued' \subseteq Queued /\ QueuedWaits' = QueuedWaits - n
      \/ \E c \in Queued :
           /\ total_io_events' = total_io_events - 1 \/ total_io_events' = total_io_events
           /\ Queued' = Queued \ {c} /\ InterruptedIO' = InterruptedIO \cup {c}
  BY <1>1, CountMoves, Zenon
<1> QED  BY <1>3, <1>4, <1>5, <1>6, <1>7, Zenon

\* No wait is queued or counted to begin with.
LEMMA CountInit ==
  ASSUME Init
  PROVE  QueueInv /\ CountInv /\ UncountedInv
<1>1. \A f \in Fds, t \in IOType : io_events[f][t] = <<>> /\ Range(io_events[f][t]) = {}
  BY DEF Init, Range
<1>2. \A f \in Fds, t \in IOType : \A e : ~QueuedAt(e, f, t)
  BY <1>1 DEF QueuedAt
<1>3. Queued = {}
  BY <1>1 DEF Queued
<1>4. QueueInv
  BY <1>1, <1>2 DEF QueueInv, QueueHome, InQueue, Once
<1>5. InterruptedIO = {} /\ total_io_events = 0 /\ created = {}
  BY DEF Init, InterruptedIO
<1>6. IsFiniteSet({}) /\ Cardinality({}) = 0
  BY FS_EmptySet
<1> QED  BY <1>3, <1>4, <1>5, <1>6 DEF CountInv, UncountedInv, QueuedWaits

\* total_io_events_ never falls behind the waits on sockets, whatever is reported, closed,
\* cancelled or timed out: a loop does not end while a coroutine waits on a socket, nor
\* stay for one that is gone unless the descriptor was a high one.
THEOREM WaitsAreCounted ==
  Spec => [](/\ total_io_events >= QueuedWaits
             /\ HighFds = {} => total_io_events = QueuedWaits)
<1>1. TypeOK /\ Control /\ Watched /\ [Next]_vars => (TypeOK /\ Control /\ Watched)'
  BY BasicStep
<1>2. TypeOK /\ TypeOK' /\ Control /\ Watched /\ QueueInv /\ CountInv /\ [Next]_vars
        => (QueueInv /\ CountInv)'
  BY CountStep
<1>3. CountInv => total_io_events >= QueuedWaits /\ (HighFds = {} => total_io_events = QueuedWaits)
  BY DEF CountInv
<1> QED  BY <1>1, <1>2, <1>3, BasicInit, CountInit, PTL DEF Spec

\* EpollInSync: the kernel watches what is waited for, and the count of the waits exceeds
\* them by interrupted ones at most, as long as no direction of a descriptor has more than
\* two coroutines waiting (PopBoundEvent then marks the event that it takes).
THEOREM EpollStaysInSync == Spec /\ []ShortQueues => []EpollInSync
<1>1. TypeOK /\ Control /\ Watched /\ [Next]_vars => (TypeOK /\ Control /\ Watched)'
  BY BasicStep
<1>2. TypeOK /\ TypeOK' /\ Control /\ Watched /\ QueueInv /\ CountInv /\ [Next]_vars
        => (QueueInv /\ CountInv)'
  BY CountStep
<1>3. TypeOK /\ TypeOK' /\ Control /\ Watched /\ QueueInv /\ CountInv /\ ShortQueues
        /\ UncountedInv /\ [Next]_vars => UncountedInv'
  BY UncountedStep
<1>4. ASSUME TypeOK, Watched, CountInv, UncountedInv
      PROVE  EpollInSync
  <2>1. pc = "wait" => \A f \in Fds \ HighFds : epoll_set[f] = Existing(f)
    BY <1>4 DEF Watched, Deaf
  <2>2. QueuedWaits \in Nat /\ Cardinality(InterruptedIO) \in Nat /\ total_io_events \in Int
    BY <1>4, FS_CardinalityType DEF CountInv, UncountedInv, QueuedWaits, TypeOK, IOTypes
  <2>3. Uncounted = IF HighFds = {} THEN 0 ELSE Cardinality(InterruptedIO)
    BY DEF Uncounted, InterruptedIO
  <2>4. total_io_events \in QueuedWaits .. (QueuedWaits + Uncounted)
    BY <1>4, <2>2, <2>3 DEF CountInv, UncountedInv
  <2> QED  BY <2>1, <2>4 DEF EpollInSync
<1> QED  BY <1>1, <1>2, <1>3, <1>4, BasicInit, CountInit, PTL DEF Spec

-----------------------------------------------------------------------------
(* RunUntilComplete returns when nobody waits.                             *)

\* What IsPollerDone has seen stays so: nobody enters a loop that is done.
Drained ==
  /\ pc \in {"trim", "done"} => todo_events = <<>>
  /\ pc = "done" => /\ total_io_events = 0 /\ time_events = {}
                    /\ pending_user_events = {} /\ triggered_user_events = <<>>

LEMMA DrainedStep ==
  ASSUME Control, Drained, [Next]_vars
  PROVE  Drained'
<1>1. CASE Trim
  <2>1. /\ pc = "trim" /\ pc' \in {"done", "wait"}
        /\ pc' = "done" => IsPollerDone(time_events')
        /\ UNCHANGED <<todo_events, total_io_events, pending_user_events, triggered_user_events>>
    BY <1>1 DEF Trim, TrimIOEvents, todoVars
  <2> QED  BY <2>1 DEF Drained, IsPollerDone
<1>2. CASE pc' \notin {"trim", "done"}
  BY <1>2 DEF Drained
<1>3. CASE Suspend \/ EndWait
  BY <1>3 DEF Drained, Suspend, EndWait, todoVars
<1>4. CASE UNCHANGED <<pc, todo_events>> /\ pc # "done"
  BY <1>4 DEF Drained
<1>5. CASE UNCHANGED vars
  BY <1>5 DEF Drained, vars, todoVars, ioVars, timeVars, userVars
<1>6. CASE ArmUserEvent
  <2>1. arming # {} /\ UNCHANGED <<pc, todo_events>>
    BY <1>6 DEF ArmUserEvent, todoVars
  <2> QED  BY <1>4, <2>1 DEF Control
<1> QED
  BY <1>1, <1>2, <1>3, <1>4, <1>5, <1>6
  DEF Next, Coroutine, Loop, AddIOEvent, AddTimeEvent, AddUserEvent,
      Running, Register, RemoveAllIOEvents, CloseResume, CloseErase, CloseEnd, Resume,
      TrimFails, PopIOEvent, IODone, TimerStep, TimersDone, CollectUserEvents, PopBoundEvent,
      EpollWait, Signal, Unsupported, TriggerUserEvent, Cancel, NotifyEventLoop, Tick,
      Terminated, Unlocked, todoVars

\* A loop that is done has nobody waiting in it.
LEMMA DrainedHomes ==
  ASSUME TypeOK, HomeInv, QueueInv, CountInv, Drained, pc = "done"
  PROVE  /\ Queued = {} /\ \A e \in created \ IOWaits : resumes[e] = 1
         /\ \A e \in created \cap IOWaits : IOHome(e) => resumes[e] = 1
<1>1. /\ todo_events = <<>> /\ total_io_events = 0 /\ time_events = {}
      /\ pending_user_events = {} /\ triggered_user_events = <<>>
  BY DEF Drained
<1>2. Queued = {}
  <2>1. IsFiniteSet(Queued) /\ Cardinality(Queued) \in Nat /\ Cardinality(Queued) <= 0
    BY <1>1, FS_CardinalityType DEF CountInv, QueuedWaits
  <2>2. Cardinality(Queued) = 0
    BY <2>1
  <2> QED  BY <2>1, <2>2, FS_EmptySet
<1>3. \A e : ~InQueue(e) /\ ~InTodo(e) /\ ~InHeap(e) /\ ~InTriggered(e)
  <2>1. \A e : ~InQueue(e)
    BY <1>2, QueuedIs
  <2>2. \A e : ~InTodo(e) /\ ~InTriggered(e)
    BY <1>1 DEF InTodo, InTriggered, Range
  <2>3. \A e : ~InHeap(e)
    BY <1>1 DEF InHeap
  <2> QED  BY <2>1, <2>2, <2>3
<1>4. ASSUME NEW e \in created \ IOWaits
      PROVE  resumes[e] = 1
  <2>1. e \in UserWaits \/ e \in Sleeps
    BY DEF TypeOK, HistTypes, Waits
  <2> QED  BY <1>1, <1>3, <2>1 DEF HomeInv, UserHome, SleepHome
<1>5. \A e \in created \cap IOWaits : IOHome(e) => resumes[e] = 1
  BY <1>3 DEF IOHome
<1> QED  BY <1>2, <1>4, <1>5

\* RunUntilComplete returns only when no socket has a waiting coroutine and every coroutine
\* that slept or waited for a lock, a condition or an executor has run: none is lost with it.
THEOREM ReturnsWhenDone ==
  Spec => [](pc = "done" => Queued = {} /\ \A e \in created \ IOWaits : resumes[e] = 1)
<1>1. Init => Woken /\ Drained
  BY DEF Init, Woken, Range, Drained
<1>2. TypeOK /\ Control /\ Watched /\ [Next]_vars => (TypeOK /\ Control /\ Watched)'
  BY BasicStep
<1>3. TypeOK /\ TypeOK' /\ Control /\ Watched /\ QueueInv /\ CountInv /\ [Next]_vars
        => (QueueInv /\ CountInv)'
  BY CountStep
<1>4. TypeOK /\ HomeInv /\ QueueInv /\ CountInv /\ Drained
        => (pc = "done" => Queued = {} /\ \A e \in created \ IOWaits : resumes[e] = 1)
  BY DrainedHomes
<1> QED
  BY <1>1, <1>2, <1>3, <1>4, BasicInit, HomeInit, CountInit, WokenStep, HomeStep, DrainedStep,
     PTL DEF Spec

\* When RunUntilComplete returns, every coroutine has been resumed from every wait.
AllResumed == pc = "done" => \A e \in created : resumes[e] = 1

\* It does so while no direction of a descriptor has more than two coroutines waiting: no
\* wait on a socket is lost with the loop either.
THEOREM ReturnsWhenAllRan == Spec /\ []ShortQueues => []AllResumed
<1>1. Init => Woken /\ Drained
  BY DEF Init, Woken, Range, Drained
<1>2. TypeOK /\ Control /\ Watched /\ [Next]_vars => (TypeOK /\ Control /\ Watched)'
  BY BasicStep
<1>3. TypeOK /\ TypeOK' /\ Control /\ Watched /\ QueueInv /\ CountInv /\ [Next]_vars
        => (QueueInv /\ CountInv)'
  BY CountStep
<1>4. TypeOK /\ Control /\ Watched /\ HomeInv /\ ShortQueues /\ IOHomeInv /\ [Next]_vars
        => IOHomeInv'
  BY IOHomeStep DEF IOHomeInv, HomeInv
<1>5. TypeOK /\ HomeInv /\ IOHomeInv /\ QueueInv /\ CountInv /\ Drained => AllResumed
  BY DrainedHomes DEF AllResumed, IOHomeInv
<1> QED
  BY <1>1, <1>2, <1>3, <1>4, <1>5, BasicInit, HomeInit, CountInit, WokenStep, HomeStep,
     DrainedStep, PTL DEF Spec
=============================================================================
