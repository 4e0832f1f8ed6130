----------------------------- MODULE Dispatcher -----------------------------
(***************************************************************************)
(* CoroutineDispatcher and the dispatching half of EventLoop: loops that   *)
(* produce coroutines hand them, through one CoroutineQueue per consumer,  *)
(* to loops that consume them.  Every loop is a thread.                    *)
(*                                                                         *)
(* lock is global_addition_lock_.  A consumer takes from its own queue     *)
(* without it, so an enqueue is three steps: the item is put into the      *)
(* queue, counted in remained_items_, announced through the consumer's     *)
(* eventfd.  moodycamel::ConcurrentQueue (external) is a set: it keeps no  *)
(* order between producers, and refuses what exceeds its capacity.         *)
(***************************************************************************)
EXTENDS Integers, Sequences, FiniteSets

CONSTANTS
  Tasks,      \* the coroutines to dispatch
  Loops,      \* the event loops; a loop's id is its wake-up handle
  Anyone,        \* no loop: a coroutine dispatched to no consumer in particular
  Producers, Consumers,   \* the loops that may register in either role
  Leaving,    \* the consumers that may deregister
  Targets,    \* the consumers DispatchTo is called for
  Capacity    \* of a CoroutineQueue

Keys == Loops \cup {Anyone}
None == "none"

ASSUME DispatcherAssumption ==
  /\ Anyone \notin Loops /\ None \notin Keys
  /\ Producers \subseteq Loops /\ Consumers \subseteq Loops
  /\ Leaving \subseteq Consumers /\ Targets \subseteq Consumers
  /\ Capacity \in Nat \ {0}

VARIABLES
  pc,               \* where each loop is in its turn
  event_loop_type,  \* its roles
  alive,            \* its main coroutine has not returned
  to_dispatched,    \* what it has to dispatch, by destination
  to_dispatched_count,
  left, flushing,   \* ProduceCoroutine: destinations to go; in DeResigerProducer
  batch,            \* the enqueue in progress
  consumer_ids, consumer_id_itr, lock,    \* CoroutineDispatcher
  queue, remained_items, event_fd,        \* per consumer
  known,            \* handles GetAvailableDispatchDestinations has returned
  target, ran,      \* history: each task's destination, and where it was resumed
  dropped           \* history: what DeRegister took and could not hand on

loopVars == <<pc, event_loop_type, alive>>
outVars  == <<to_dispatched, to_dispatched_count, left, flushing, batch>>
idVars   == <<consumer_ids, consumer_id_itr, known>>
inVars   == <<queue, remained_items, event_fd>>
histVars == <<target, ran, dropped>>
vars == <<loopVars, outVars, idVars, lock, inVars, histVars>>

NoBatch == [tasks |-> {}, from |-> Anyone, to |-> Anyone, kind |-> "all"]

Init ==
  /\ pc = [l \in Loops |-> "run"]
  /\ event_loop_type = [l \in Loops |-> {}] /\ alive = [l \in Loops |-> TRUE]
  /\ to_dispatched = [l \in Loops |-> [k \in Keys |-> {}]]
  /\ to_dispatched_count = [l \in Loops |-> 0]
  /\ left = [l \in Loops |-> {}] /\ flushing = [l \in Loops |-> FALSE]
  /\ batch = [l \in Loops |-> NoBatch]
  /\ consumer_ids = <<>> /\ consumer_id_itr = 1 /\ lock = None
  /\ queue = [l \in Loops |-> {}] /\ remained_items = [l \in Loops |-> 0]
  /\ event_fd = [l \in Loops |-> FALSE]
  /\ known = {}
  /\ target = [t \in Tasks |-> None] /\ ran = [t \in Tasks |-> None]
  /\ dropped = {}

Registered == {consumer_ids[i] : i \in DOMAIN consumer_ids}

\* An exception that leaves a loop's turn ends the program.
Up == \A l \in Loops : pc[l] # "failed"

At(l, where) == Up /\ pc[l] = where
Goto(l, where) == pc' = [pc EXCEPT ![l] = where]

NonEmpty(l) == {k \in Keys : to_dispatched[l][k] # {}}

-----------------------------------------------------------------------------
(* What coroutines call.                                                   *)

\* Coroutine code runs while pc is "run"; what a coroutine that ConsumeCoroutine
\* resumes calls commutes with the taking and is made before it.
\* Dispatch, and DispatchTo when k is a consumer that was once available.
Dispatch(l, t, k) ==
  /\ At(l, "run") /\ "PRODUCER" \in event_loop_type[l]
  /\ target[t] = None /\ k \in {Anyone} \cup (Targets \cap known)
  /\ target' = [target EXCEPT ![t] = k]
  /\ to_dispatched' = [to_dispatched EXCEPT ![l][k] = @ \cup {t}]
  /\ to_dispatched_count' = [to_dispatched_count EXCEPT ![l] = @ + 1]
  /\ UNCHANGED <<loopVars, left, flushing, batch, idVars, lock, inVars, ran,
                 dropped>>

ResigerProducer(l) ==
  /\ At(l, "run") /\ l \in Producers /\ alive[l] /\ "PRODUCER" \notin event_loop_type[l]
  /\ event_loop_type' = [event_loop_type EXCEPT ![l] = @ \cup {"PRODUCER"}]
  /\ UNCHANGED <<pc, alive, outVars, idVars, lock, inVars, histVars>>

\* The while loop over ProduceCoroutine begins.
DeResigerProducer(l) ==
  /\ At(l, "run") /\ "PRODUCER" \in event_loop_type[l]
  /\ event_loop_type' = [event_loop_type EXCEPT ![l] = @ \ {"PRODUCER"}]
  /\ flushing' = [flushing EXCEPT ![l] = TRUE]
  /\ left' = [left EXCEPT ![l] = NonEmpty(l)]
  /\ Goto(l, "produce")
  /\ UNCHANGED <<alive, to_dispatched, to_dispatched_count, batch, idVars, lock, inVars,
                 histVars>>

\* ResigerConsumer, with CoroutineDispatcher::Register
ResigerConsumer(l) ==
  /\ At(l, "run") /\ l \in Consumers /\ alive[l] /\ lock = None
  /\ "CONSUMER" \notin event_loop_type[l]
  /\ event_loop_type' = [event_loop_type EXCEPT ![l] = @ \cup {"CONSUMER"}]
  /\ consumer_ids' = Append(consumer_ids, l) /\ consumer_id_itr' = 1
  /\ known' = known \cup {l}
  /\ queue' = [queue EXCEPT ![l] = {}]
  /\ remained_items' = [remained_items EXCEPT ![l] = 0]
  /\ UNCHANGED <<pc, alive, outVars, lock, event_fd, histVars>>

\* Mutant: the queue is emptied, whatever was counted.
DequeAllDrops(l, some) ==
  /\ Cardinality(some) = remained_items[l]
  /\ queue' = [queue EXCEPT ![l] = {}]
  /\ remained_items' = [remained_items EXCEPT ![l] = 0]

\* DequeAll: as many as were counted, whichever they are.
DequeAll(l, some) ==
  /\ Cardinality(some) = remained_items[l]
  /\ queue' = [queue EXCEPT ![l] = @ \ some]
  /\ remained_items' = [remained_items EXCEPT ![l] = 0]

ConsumeCoroutine(l) ==
  \E some \in SUBSET queue[l] :
    /\ DequeAll(l, some)
    /\ ran' = [t \in Tasks |-> IF t \in some THEN l ELSE ran[t]]

\* DeResigerConsumer consumes once more and then calls the dispatcher.
DeResigerConsumer(l) ==
  /\ At(l, "run") /\ l \in Leaving /\ "CONSUMER" \in event_loop_type[l]
  /\ event_loop_type' = [event_loop_type EXCEPT ![l] = @ \ {"CONSUMER"}]
  /\ ConsumeCoroutine(l)
  /\ Goto(l, "deregister")
  /\ UNCHANGED <<alive, outVars, idVars, lock, event_fd, target,
                 dropped>>

\* consumer_ids_ without l.  The iterator moves to the consumer after it, or to the
\* first.
Position(l) == CHOOSE i \in DOMAIN consumer_ids : consumer_ids[i] = l
Erased(l)   == SubSeq(consumer_ids, 1, Position(l) - 1)
                 \o SubSeq(consumer_ids, Position(l) + 1, Len(consumer_ids))
EraseId(l) ==
  /\ consumer_ids' = Erased(l)
  /\ consumer_id_itr' = IF Position(l) = Len(consumer_ids) THEN 1 ELSE Position(l)

\* CoroutineDispatcher::DeRegister: what the queue still holds goes to the next
\* consumer, if there is one.
DeRegister(l) ==
  /\ At(l, "deregister") /\ lock = None
  /\ \E rest \in SUBSET queue[l] :
       /\ DequeAll(l, rest)
       /\ \/ /\ rest # {} /\ Len(consumer_ids) > 1
             /\ LET ids == Erased(l)
                    at  == IF Position(l) > Len(ids) THEN 1 ELSE Position(l)
                IN  /\ consumer_ids' = ids
                    /\ consumer_id_itr' = IF at = Len(ids) THEN 1 ELSE at + 1
                    /\ batch' = [batch EXCEPT ![l] =
                         [tasks |-> rest, from |-> Anyone, to |-> ids[at], kind |-> "moved"]]
             /\ lock' = l /\ Goto(l, "put")
             /\ UNCHANGED dropped
          \/ /\ rest = {} \/ Len(consumer_ids) = 1
             /\ EraseId(l)
             /\ Goto(l, "run")
             /\ dropped' = dropped \cup rest
             /\ UNCHANGED <<batch, lock>>
  /\ UNCHANGED <<event_loop_type, alive, to_dispatched, to_dispatched_count, left,
                 flushing, known, event_fd, target, ran>>

\* The main coroutine returns, in no role.
Return(l) ==
  /\ At(l, "run") /\ alive[l] /\ "CONSUMER" \notin event_loop_type[l]
  /\ alive' = [alive EXCEPT ![l] = FALSE]
  /\ UNCHANGED <<pc, event_loop_type, outVars, idVars, lock, inVars, histVars>>

-----------------------------------------------------------------------------
(* EventLoop::Trim: ConsumeCoroutine and ProduceCoroutine.                 *)

\* IsDone: a registered consumer's poller is never done.
IsDone(l) ==
  /\ ~alive[l] /\ "CONSUMER" \notin event_loop_type[l]
  /\ event_loop_type[l] = {} \/ to_dispatched_count[l] = 0

AfterTrim(l) == IF IsDone(l) THEN "done" ELSE "wait"

\* The coroutines suspend: Trim consumes, and goes into ProduceCoroutine if there is
\* something to dispatch.
Trim(l) ==
  /\ At(l, "run")
  /\ IF "CONSUMER" \in event_loop_type[l]
     THEN ConsumeCoroutine(l) ELSE UNCHANGED <<queue, remained_items, ran>>
  /\ \/ /\ "PRODUCER" \in event_loop_type[l] /\ to_dispatched_count[l] # 0
        /\ left' = [left EXCEPT ![l] = NonEmpty(l)]
        /\ Goto(l, "produce")
     \/ /\ "PRODUCER" \notin event_loop_type[l] \/ to_dispatched_count[l] = 0
        /\ Goto(l, AfterTrim(l))
        /\ UNCHANGED left
  /\ UNCHANGED <<event_loop_type, alive, to_dispatched, to_dispatched_count, flushing,
                 batch, idVars, lock, event_fd, target, dropped>>

\* GetNextConsumer, which throws when there is none
GetNextConsumer ==
  consumer_id_itr' = IF consumer_id_itr = Len(consumer_ids) THEN 1 ELSE consumer_id_itr + 1

\* EnqueueAllToAny, EnqueueAllToSpecific and EnqueueToAny begin: the lock is taken
\* and the consumer chosen.
Enqueue(l, tasks, from, kind) ==
  /\ lock = None
  /\ \/ /\ kind = "all" /\ from # Anyone
        /\ batch' = [batch EXCEPT ![l] =
             [tasks |-> tasks, from |-> from, to |-> from, kind |-> kind]]
        /\ lock' = l /\ Goto(l, "put")
        /\ UNCHANGED consumer_id_itr
     \/ /\ (kind = "one" \/ from = Anyone) /\ consumer_ids # <<>>
        /\ batch' = [batch EXCEPT ![l] =
             [tasks |-> tasks, from |-> from, to |-> consumer_ids[consumer_id_itr],
              kind |-> kind]]
        /\ GetNextConsumer
        /\ lock' = l /\ Goto(l, "put")
     \/ /\ (kind = "one" \/ from = Anyone) /\ consumer_ids = <<>>
        /\ Goto(l, "failed")
        /\ UNCHANGED <<batch, lock, consumer_id_itr>>
  /\ UNCHANGED <<event_loop_type, alive, to_dispatched, to_dispatched_count, flushing,
                 consumer_ids, known, inVars, histVars>>

\* The next destination: the coroutines for anyone first.
EnqueueAll(l) ==
  /\ At(l, "produce")
  /\ \E k \in (IF Anyone \in left[l] THEN {Anyone} ELSE left[l]) :
       /\ left' = [left EXCEPT ![l] = @ \ {k}]
       /\ Enqueue(l, to_dispatched[l][k], k, "all")

\* What was refused together is offered one by one, to anyone.
EnqueueToAny(l) ==
  /\ At(l, "single")
  /\ \E t \in to_dispatched[l][batch[l].from] : Enqueue(l, {t}, batch[l].from, "one")
  /\ UNCHANGED left

SinglesDone(l) ==
  /\ At(l, "single") /\ to_dispatched[l][batch[l].from] = {}
  /\ Goto(l, "produce")
  /\ batch' = [batch EXCEPT ![l] = NoBatch]
  /\ UNCHANGED <<event_loop_type, alive, to_dispatched, to_dispatched_count, left,
                 flushing, idVars, lock, inVars, histVars>>

\* Mutant: the item is counted before it is in the queue.
PutCounted(l) ==
  /\ At(l, "put") /\ batch[l].to \in Registered
  /\ remained_items' = [remained_items EXCEPT ![batch[l].to] = @ + Cardinality(batch[l].tasks)]
  /\ Goto(l, "count")
  /\ UNCHANGED <<event_loop_type, alive, outVars, idVars, lock, queue, event_fd, histVars>>

\* try_enqueue and try_enqueue_bulk.  A consumer that has deregistered has no queue.
Fits(l) == Cardinality(queue[batch[l].to]) + Cardinality(batch[l].tasks) <= Capacity

Put(l) ==
  /\ At(l, "put") /\ batch[l].to \in Registered /\ Fits(l)
  /\ queue' = [queue EXCEPT ![batch[l].to] = @ \cup batch[l].tasks]
  /\ Goto(l, "count")
  /\ UNCHANGED <<event_loop_type, alive, outVars, idVars, lock, remained_items, event_fd,
                 histVars>>

\* The queue is full: singles follow a refused batch and end at a refused single;
\* DeRegister does not look at the result.
PutRefused(l) ==
  /\ At(l, "put") /\ batch[l].to \in Registered /\ ~Fits(l)
  /\ lock' = None
  /\ Goto(l, CASE batch[l].kind = "all"   -> "single"
               [] batch[l].kind = "one"   -> "produce"
               [] batch[l].kind = "moved" -> "run")
  /\ dropped' = IF batch[l].kind = "moved" THEN dropped \cup batch[l].tasks ELSE dropped
  /\ batch' = [batch EXCEPT ![l] = IF @.kind = "all" THEN @ ELSE NoBatch]
  /\ UNCHANGED <<event_loop_type, alive, to_dispatched, to_dispatched_count, left,
                 flushing, idVars, inVars, target, ran>>

PutNowhere(l) ==
  /\ At(l, "put") /\ batch[l].to \notin Registered
  /\ Goto(l, "failed")
  /\ UNCHANGED <<event_loop_type, alive, outVars, idVars, lock, inVars, histVars>>

Count(l) ==
  /\ At(l, "count")
  /\ remained_items' = [remained_items EXCEPT ![batch[l].to] = @ + Cardinality(batch[l].tasks)]
  /\ Goto(l, "notify")
  /\ UNCHANGED <<event_loop_type, alive, outVars, idVars, lock, queue, event_fd, histVars>>

\* The producer's list and count after a successful enqueue.
DoneWith(l) ==
  /\ to_dispatched' = [to_dispatched EXCEPT ![l][batch[l].from] = @ \ batch[l].tasks]
  /\ to_dispatched_count' =
       [to_dispatched_count EXCEPT ![l] = @ - Cardinality(batch[l].tasks)]

\* Mutant: the consumer's loop is not woken.
WakeNobody(c) == UNCHANGED event_fd

\* NotifyEventLoop
Wake(c) == event_fd' = [event_fd EXCEPT ![c] = TRUE]

Notify(l) ==
  /\ At(l, "notify")
  /\ Wake(batch[l].to)
  /\ lock' = None
  /\ \/ /\ batch[l].kind = "moved"
        /\ Goto(l, "run")
        /\ UNCHANGED <<to_dispatched, to_dispatched_count>>
     \/ /\ batch[l].kind # "moved"
        /\ DoneWith(l)
        /\ Goto(l, IF batch[l].kind = "one" THEN "single" ELSE "produce")
  /\ batch' = [batch EXCEPT ![l] = IF @.kind = "one" THEN @ ELSE NoBatch]
  /\ UNCHANGED <<event_loop_type, alive, left, flushing, idVars, queue,
                 remained_items, histVars>>

\* The end of ProduceCoroutine, in DeResigerProducer's loop and in Trim.
EndProduce(l) ==
  /\ At(l, "produce") /\ left[l] = {}
  /\ \/ /\ flushing[l] /\ to_dispatched_count[l] > 0
        /\ left' = [left EXCEPT ![l] = NonEmpty(l)]
        /\ UNCHANGED <<pc, flushing>>
     \/ /\ flushing[l] /\ to_dispatched_count[l] = 0
        /\ flushing' = [flushing EXCEPT ![l] = FALSE]
        /\ Goto(l, "run")
        /\ UNCHANGED left
     \/ /\ ~flushing[l]
        /\ Goto(l, AfterTrim(l))
        /\ UNCHANGED <<left, flushing>>
  /\ UNCHANGED <<event_loop_type, alive, to_dispatched, to_dispatched_count, batch,
                 idVars, lock, inVars, histVars>>

\* WaitEvents returns: at once while coroutines are to be dispatched, for the
\* eventfd of a consumer, or for an event of the main coroutine (Poller.tla).
Due(l) == \/ to_dispatched_count[l] # 0
          \/ "CONSUMER" \in event_loop_type[l] /\ event_fd[l]

WaitEvents(l) ==
  /\ At(l, "wait") /\ (Due(l) \/ alive[l])
  /\ event_fd' = [event_fd EXCEPT ![l] = @ /\ "CONSUMER" \notin event_loop_type[l]]
  /\ Goto(l, "run")
  /\ UNCHANGED <<event_loop_type, alive, outVars, idVars, lock, queue, remained_items,
                 histVars>>

Terminated ==
  /\ ~Up \/ \A l \in Loops : pc[l] = "done"
  /\ UNCHANGED vars

Turn(l) ==
  \/ Trim(l) \/ EnqueueAll(l) \/ EnqueueToAny(l)
  \/ SinglesDone(l) \/ Put(l) \/ PutRefused(l) \/ PutNowhere(l) \/ Count(l) \/ Notify(l)
  \/ EndProduce(l) \/ DeRegister(l)

\* Handles that were not dispatched yet are alike, so they are taken in order.
Fresh(t) == \A u \in Tasks : target[u] = None => t <= u

Next ==
  \/ \E l \in Loops :
       \/ \E t \in Tasks, k \in Keys : Fresh(t) /\ Dispatch(l, t, k)
       \/ ResigerProducer(l) \/ DeResigerProducer(l)
       \/ ResigerConsumer(l) \/ DeResigerConsumer(l) \/ Return(l)
       \/ Turn(l) \/ WaitEvents(l)
  \/ Terminated

Spec == Init /\ [][Next]_vars

\* Threads are scheduled, global_addition_lock_ is granted to whoever keeps asking,
\* and WaitEvents returns when it is due.
Fairness == \A l \in Loops : SF_vars(Turn(l)) /\ WF_vars(Due(l) /\ WaitEvents(l))
FairSpec == Spec /\ Fairness

-----------------------------------------------------------------------------
(* Properties.                                                             *)

\* The places of a task.  Until Notify the producer's list still holds what is in
\* the queue already.
Holding(l) == IF pc[l] \in {"count", "notify"} THEN batch[l].tasks ELSE {}
Places(t) ==
  {<<"list", at[1], at[2]>> : at \in {p \in Loops \X Keys :
                                  t \in to_dispatched[p[1]][p[2]] \ Holding(p[1])}}
  \cup {<<"moving", l, l>> : l \in {p \in Loops : pc[p] = "put" /\ batch[p].kind = "moved"
                                                  /\ t \in batch[p].tasks}}
  \cup {<<"queue", l, l>> : l \in {p \in Loops : t \in queue[p]}}
  \cup {<<"ran", l, l>> : l \in {p \in Loops : ran[t] = p}}
  \cup {<<"dropped", t, t>> : x \in {t} \cap dropped}

\* A dispatched coroutine is in one place, a producer's list, a consumer's queue or
\* on its way between two of them, until it is resumed, once: no race of an enqueue,
\* a consumer that takes and a consumer that leaves loses or doubles it.  (Only
\* DeRegister drops coroutines: with no consumer left, or a full one next.)
TaskKept == \A t \in Tasks : target[t] # None => Cardinality(Places(t)) = 1

\* DequeAll, which spins until it has as many as were counted, always finds them.
CountedArePresent == \A l \in Loops : remained_items[l] <= Cardinality(queue[l])

\* A consumer never blocks with a counted coroutine in its queue unless its eventfd
\* is readable or the producer is about to write it.
ConsumerWoken ==
  \A c \in Loops : pc[c] = "wait" /\ remained_items[c] > 0 =>
    event_fd[c] \/ \E l \in Loops : pc[l] = "notify" /\ batch[l].to = c

\* Every dispatched coroutine is resumed, unless the last consumer takes it along
\* or the program ends because there is no consumer.
DispatchedRuns ==
  \A t \in Tasks : target[t] # None ~> (ran[t] # None \/ t \in dropped \/ ~Up)
=============================================================================
