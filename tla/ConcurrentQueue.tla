-------------------------- MODULE ConcurrentQueue --------------------------
(***************************************************************************)
(* moodycamel::ConcurrentQueue as CoroutineQueue (dispatcher.h) uses it:   *)
(* try_enqueue and try_enqueue_bulk of implicit producers, try_dequeue and *)
(* try_dequeue_bulk with a consumer token.  The single calls make the same *)
(* accesses in the same order as the bulk calls do for one item, so an     *)
(* item is a bulk of one.  Items are constructed and moved without         *)
(* exceptions (they are coroutine handles).                                *)
(***************************************************************************)
EXTENDS ProducerHash

CONSTANTS
  BLOCK_SIZE, IMPLICIT_INITIAL_INDEX_SIZE,
  EXPLICIT_CONSUMER_CONSUMPTION_QUOTA_BEFORE_ROTATE,
  Workloads      \* the calls the threads make, and the sizes of pool and hash

IsSequence(s) == s \in Seq({s[i] : i \in DOMAIN s})

\* A call enqueues some items or dequeues up to max of them (DequeAll returns before it
\* calls the queue when there are none to dequeue).
IsCall(call) ==
  \/ call.op = "put" /\ IsSequence(call.items)
  \/ call.op = "take" /\ call.max \in Nat \ {0}

ASSUME QueueAssumption ==
  /\ BLOCK_SIZE \in Nat \ {0, 1} /\ IMPLICIT_INITIAL_INDEX_SIZE \in Nat \ {0}
  /\ \A w \in Workloads :
       /\ w.pool \in 0 .. Blocks /\ w.hash \in 1 .. MaxCapacity /\ w.offset \in [Threads -> Nat]
       /\ DOMAIN w.calls = Threads
       /\ \A t \in Threads : /\ IsSequence(w.calls[t])
                              /\ \A i \in DOMAIN w.calls[t] : IsCall(w.calls[t][i])

VARIABLES
  workload,
  todo,          \* the calls each thread has still to make
  producers,     \* the ImplicitProducer objects
  elements, elementsCompletelyDequeued,   \* the blocks
  token,         \* each thread's ConsumerToken
  globalExplicitConsumerOffset,
  received       \* the items each thread dequeued

queueVars == <<producers, elements, elementsCompletelyDequeued, token,
               globalExplicitConsumerOffset, received>>
vars == <<me, poolVars, hashVars, workload, todo, queueVars>>

INVALID_BLOCK_BASE == 1       \* odd, so never a block's base
Slots == 0 .. IMPLICIT_INITIAL_INDEX_SIZE - 1
Names == 1 .. Cardinality(Threads)        \* of producers

\* After the constructor's new_block_index.
ImplicitProducer ==
  [tailIndex |-> 0, headIndex |-> 0, dequeueOptimisticCount |-> 0, dequeueOvercommit |-> 0,
   tailBlock |-> None, tail |-> IMPLICIT_INITIAL_INDEX_SIZE - 1,
   key |-> [i \in Slots |-> INVALID_BLOCK_BASE], value |-> [i \in Slots |-> None]]

ConsumerToken(initialOffset) ==
  [initialOffset |-> initialOffset, lastKnownGlobalOffset |-> -1,
   itemsConsumedFromCurrent |-> 0, currentProducer |-> None, desiredProducer |-> None]

Idle ==
  [pc |-> "idle", back |-> "idle", block |-> None, head |-> None, refs |-> 0, next |-> None,
   node |-> None, listHead |-> None, inGet |-> FALSE,
   producer |-> None, mainHash |-> 1, newCount |-> 0, failing |-> FALSE,
   items |-> << >>, blocks |-> << >>, freed |-> << >>,
   ptr |-> None, walking |-> FALSE, listTail |-> None, max |-> 0, given |-> 0, promised |-> 0,
   short |-> FALSE, tailIndex |-> 0, overcommit |-> 0, dequeueCount |-> 0, want |-> 0,
   n |-> 0, index |-> 0, end |-> 0, slot |-> 0, count |-> 0]

Init ==
  /\ workload \in Workloads
  /\ BlockPoolInit(workload.pool) /\ ProducerHashInit(workload.hash)
  /\ todo = workload.calls
  /\ me = [t \in Threads |-> [Idle EXCEPT !.failing = workload.failing]]
  /\ producers = [p \in Names |-> ImplicitProducer]
  /\ elements = [b \in 1 .. Blocks |-> [i \in 0 .. BLOCK_SIZE - 1 |-> None]]
  /\ elementsCompletelyDequeued = [b \in 1 .. Blocks |-> 0]
  /\ token = [t \in Threads |-> ConsumerToken(workload.offset[t])]
  /\ globalExplicitConsumerOffset = 0
  /\ received = [t \in Threads |-> << >>]

Base(index) == index - (index % BLOCK_SIZE)
RoundUp(index) == Base(index + BLOCK_SIZE - 1)
Wrap(slot) == slot % IMPLICIT_INITIAL_INDEX_SIZE
\* A thread makes its next call.  The calls of a workload have phases: what is called
\* in one phase has returned before the next begins.
Calling(t, op) ==
  /\ todo[t] # << >> /\ Head(todo[t]).op = op
  /\ \A u \in {v \in Threads : todo[v] # << >>} :
       Head(todo[u]).phase >= Head(todo[t]).phase

\* The call returns; "short" keeps whether it gave less than it should have.
Finish(t, short) ==
  /\ todo' = [todo EXCEPT ![t] = Tail(@)]
  /\ me' = [me EXCEPT ![t] = [Idle EXCEPT !.failing = me[t].failing, !.short = short]]

-----------------------------------------------------------------------------
(* try_enqueue, try_enqueue_bulk: ImplicitProducer::enqueue, enqueue_bulk. *)

MyQueue(t) == producers[me[t].producer]

\* The first index of the next block the items of this call need.
NextBase(t) == RoundUp(MyQueue(t).tailIndex) + BLOCK_SIZE * Len(me[t].blocks)
LacksBlock(t) == NextBase(t) < MyQueue(t).tailIndex + Len(me[t].items)

Enqueue(t) ==
  /\ At(t, "idle") /\ Calling(t, "put")
  /\ Go(t, "search", [me[t] EXCEPT !.items = Head(todo[t]).items])
  /\ UNCHANGED <<todo, queueVars>>

\* insert_block_index_entry, which cannot allocate.
insert_block_index_entry(t) ==
  /\ At(t, "first") /\ LacksBlock(t)
  /\ LET p == me[t].producer
         newTail == Wrap(MyQueue(t).tail + 1)
     IN  IF \/ MyQueue(t).key[newTail] = INVALID_BLOCK_BASE
            \/ MyQueue(t).value[newTail] = None
         THEN /\ producers' = [producers EXCEPT ![p].key[newTail] = NextBase(t),
                                                ![p].tail = newTail]
              /\ Go(t, "requisition", [me[t] EXCEPT !.back = "attach"])
         ELSE Go(t, "unindex", me[t]) /\ UNCHANGED producers
  /\ UNCHANGED <<todo, elements, elementsCompletelyDequeued, token,
                 globalExplicitConsumerOffset, received>>

\* rewind_block_index_tail, and the entry that was its tail is emptied.
Rewound(q, slot) ==
  [q EXCEPT !.tail = Wrap(@ + IMPLICIT_INITIAL_INDEX_SIZE - 1), !.value[slot] = None]

Attach(t) ==
  /\ At(t, "attach")
  /\ LET p == me[t].producer
         b == me[t].block
     IN  IF b = None
         THEN /\ producers' = [producers EXCEPT ![p] = Rewound(@, @.tail)]
              /\ Go(t, "unindex", me[t])
              /\ UNCHANGED elementsCompletelyDequeued
         ELSE /\ elementsCompletelyDequeued' = [elementsCompletelyDequeued EXCEPT ![b] = 0]
              /\ producers' = [producers EXCEPT ![p].value[producers[p].tail] = b]
              /\ Go(t, "first", [me[t] EXCEPT !.blocks = Append(me[t].blocks, b)])
  /\ UNCHANGED <<todo, elements, token, globalExplicitConsumerOffset, received>>

\* get_block_index_index_for_index, for an index whose entry is at most the tail's.
SlotFor(q, tail, index) == Wrap(tail + (Base(index) - q.key[tail]) \div BLOCK_SIZE)

\* A failed bulk takes its blocks off the index again, then frees them.
Unindex(t) ==
  /\ At(t, "unindex") /\ me[t].blocks # << >>
  /\ LET p == me[t].producer
         base == RoundUp(MyQueue(t).tailIndex) + BLOCK_SIZE * Len(me[t].freed)
     IN  producers' = [producers EXCEPT ![p] = Rewound(@, SlotFor(@, @.tail, base))]
  /\ Go(t, "unindex", [me[t] EXCEPT !.blocks = Tail(me[t].blocks),
                       !.freed = Append(me[t].freed, Head(me[t].blocks))])
  /\ UNCHANGED <<todo, elements, elementsCompletelyDequeued, token,
                 globalExplicitConsumerOffset, received>>

add_blocks_to_free_list(t) ==
  /\ At(t, "unindex") /\ me[t].blocks = << >> /\ me[t].freed # << >>
  /\ Go(t, "add", [me[t] EXCEPT !.node = Head(me[t].freed), !.freed = Tail(me[t].freed),
                   !.back = "unindex"])
  /\ UNCHANGED <<todo, queueVars>>

Refused(t) ==
  /\ \/ At(t, "refused")
     \/ At(t, "unindex") /\ me[t].blocks = << >> /\ me[t].freed = << >>
  /\ Finish(t, FALSE)
  /\ UNCHANGED queueVars

\* The items are constructed, then tailIndex is stored.
Publish(t) ==
  /\ At(t, "first") /\ ~LacksBlock(t)
  /\ LET p == me[t].producer
         tail == MyQueue(t).tailIndex
         home(i) == IF Base(i) < RoundUp(tail) THEN MyQueue(t).tailBlock
                    ELSE me[t].blocks[(Base(i) - RoundUp(tail)) \div BLOCK_SIZE + 1]
         new == tail .. tail + Len(me[t].items) - 1
     IN  /\ elements' = [b \in 1 .. Blocks |-> [k \in 0 .. BLOCK_SIZE - 1 |->
              IF \E i \in new : home(i) = b /\ i % BLOCK_SIZE = k
              THEN me[t].items[(CHOOSE i \in new : home(i) = b /\ i % BLOCK_SIZE = k)
                                 - tail + 1]
              ELSE elements[b][k]]]
         /\ producers' = [producers EXCEPT
              ![p].tailIndex = @ + Len(me[t].items),
              ![p].tailBlock = IF me[t].blocks = << >> THEN @
                               ELSE me[t].blocks[Len(me[t].blocks)]]
  /\ Finish(t, FALSE)
  /\ UNCHANGED <<elementsCompletelyDequeued, token, globalExplicitConsumerOffset, received>>

PutStep(t) ==
  \/ Enqueue(t) \/ insert_block_index_entry(t) \/ Attach(t) \/ Unindex(t)
  \/ add_blocks_to_free_list(t) \/ Refused(t) \/ Publish(t)

-----------------------------------------------------------------------------
(* try_dequeue, try_dequeue_bulk: which producer to take from.             *)

\* The items of a set of producers that are published and claimed by nobody.
Present(some) ==
  UNION {{p} \X (producers[p].headIndex .. producers[p].tailIndex - 1) : p \in some}

PlaceIn(list, p) == CHOOSE i \in DOMAIN list : list[i] = p
Place(p) == PlaceIn(producerList, p)

\* next_prod, which goes back to the list's tail as this call loaded it.
NextProd(ptr, listTail) ==
  IF Place(ptr) = Len(producerList) THEN listTail ELSE producerList[Place(ptr) + 1]

\* n times next_prod: n places further on the ring that listTail begins.
Advance(ptr, listTail, n) ==
  LET ring == Len(producerList) + 1 - Place(listTail)
  IN  producerList[Place(listTail) + ((Place(ptr) - Place(listTail) + n) % ring)]

TailOfList == IF producerList = << >> THEN None ELSE Head(producerList)

\* The call, up to the load of producerListTail in the rotation.
Dequeue(t) ==
  /\ At(t, "idle") /\ Calling(t, "take")
  /\ LET asked == [me[t] EXCEPT !.max = Head(todo[t]).max, !.promised = Cardinality(Present(Names))]
     IN  IF \/ token[t].desiredProducer = None
            \/ token[t].lastKnownGlobalOffset # globalExplicitConsumerOffset
         THEN /\ IF token[t].desiredProducer = None /\ producerList = << >>
                 THEN Finish(t, FALSE)
                 ELSE /\ Go(t, "rotate", [asked EXCEPT !.listTail = TailOfList])
                      /\ UNCHANGED todo
         ELSE /\ Go(t, "tail", [asked EXCEPT !.ptr = token[t].currentProducer])
              /\ UNCHANGED todo
  /\ UNCHANGED queueVars

update_current_producer_after_rotation(t) ==
  /\ At(t, "rotate")
  /\ LET k == token[t]
         first == IF k.desiredProducer # None THEN k.desiredProducer
                  ELSE Advance(me[t].listTail, me[t].listTail,
                               producerCount - 1 - (k.initialOffset % producerCount))
         delta == (globalExplicitConsumerOffset - k.lastKnownGlobalOffset) % producerCount
         new == Advance(first, me[t].listTail, delta)
     IN  /\ token' = [token EXCEPT ![t] = [k EXCEPT
              !.desiredProducer = new, !.currentProducer = new,
              !.lastKnownGlobalOffset = globalExplicitConsumerOffset,
              !.itemsConsumedFromCurrent = 0]]
         /\ Go(t, "tail", [me[t] EXCEPT !.ptr = new])
  /\ UNCHANGED <<todo, producers, elements, elementsCompletelyDequeued,
                 globalExplicitConsumerOffset, received>>

\* Mutant: the walk ends at the end of the list.
NextProducerNoWrap(t) ==
  IF Place(me[t].ptr) = Len(producerList) THEN token[t].currentProducer
  ELSE producerList[Place(me[t].ptr) + 1]

NextProducer(t) ==
  NextProd(me[t].ptr, IF me[t].walking THEN me[t].listTail ELSE TailOfList)

Quota(t) ==
  LET consumed == token[t].itemsConsumedFromCurrent + me[t].n
      quota == EXPLICIT_CONSUMER_CONSUMPTION_QUOTA_BEFORE_ROTATE
  IN  IF Head(todo[t]).single THEN consumed = quota ELSE consumed >= quota

\* dequeue_bulk of producer ptr gave n items: the token's counts, the rotation of
\* everyone, and the next producer until the walk is back at the token's own.
Dequeued(t) ==
  /\ At(t, "dequeued")
  /\ LET m == me[t]
         k == token[t]
     IN  /\ token' = [token EXCEPT ![t] =
              IF ~m.walking THEN [k EXCEPT !.itemsConsumedFromCurrent = @ + m.n]
              ELSE IF m.n = 0 THEN k
              ELSE [k EXCEPT !.currentProducer = m.ptr, !.itemsConsumedFromCurrent = m.n]]
         /\ globalExplicitConsumerOffset' = globalExplicitConsumerOffset
              + IF ~m.walking /\ m.n = m.max /\ Quota(t) THEN 1 ELSE 0
         /\ IF m.n = m.max \/ NextProducer(t) = token'[t].currentProducer
            THEN /\ LET promised == IF m.promised < Head(todo[t]).max
                                     THEN m.promised ELSE Head(todo[t]).max
                    IN  Finish(t, m.given < promised)
            ELSE /\ Go(t, "tail", [m EXCEPT !.ptr = NextProducer(t), !.walking = TRUE, !.n = 0,
                        !.listTail = IF m.walking THEN m.listTail ELSE TailOfList,
                        !.max = m.max - m.n])
                 /\ UNCHANGED todo
  /\ UNCHANGED <<producers, elements, elementsCompletelyDequeued, received>>

-----------------------------------------------------------------------------
(* ImplicitProducer::dequeue, dequeue_bulk: how many items, and which.     *)

Theirs(t) == producers[me[t].ptr]
takeVars == <<todo, elements, elementsCompletelyDequeued, token,
              globalExplicitConsumerOffset, received>>

LoadTail(t) ==
  /\ At(t, "tail") /\ Go(t, "over", [me[t] EXCEPT !.tailIndex = Theirs(t).tailIndex])
  /\ UNCHANGED <<takeVars, producers>>

LoadOvercommit(t) ==
  /\ At(t, "over")
  /\ Go(t, "optimistic", [me[t] EXCEPT !.overcommit = Theirs(t).dequeueOvercommit])
  /\ UNCHANGED <<takeVars, producers>>

LoadCount(t) ==
  /\ At(t, "optimistic")
  /\ LET desired == me[t].tailIndex - (Theirs(t).dequeueOptimisticCount - me[t].overcommit)
     IN  IF desired > 0
         THEN Go(t, "claim", [me[t] EXCEPT
                   !.want = IF desired < me[t].max THEN desired ELSE me[t].max])
         ELSE Go(t, "dequeued", [me[t] EXCEPT !.n = 0])
  /\ UNCHANGED <<takeVars, producers>>

Claim(t) ==
  /\ At(t, "claim")
  /\ producers' = [producers EXCEPT ![me[t].ptr].dequeueOptimisticCount = @ + me[t].want]
  /\ Go(t, "again", [me[t] EXCEPT !.dequeueCount = Theirs(t).dequeueOptimisticCount])
  /\ UNCHANGED takeVars

\* The tail is read again: another consumer may have claimed the same items.
LoadAgain(t) ==
  /\ At(t, "again")
  /\ LET actual == Theirs(t).tailIndex - (me[t].dequeueCount - me[t].overcommit)
         n == IF actual <= 0 THEN 0 ELSE IF actual < me[t].want THEN actual ELSE me[t].want
     IN  Go(t, IF n < me[t].want THEN "correct" ELSE "head", [me[t] EXCEPT !.n = n])
  /\ UNCHANGED <<takeVars, producers>>

Correct(t) ==
  /\ At(t, "correct")
  /\ producers' = [producers EXCEPT ![me[t].ptr].dequeueOvercommit = @ + me[t].want - me[t].n]
  /\ Go(t, IF me[t].n = 0 THEN "dequeued" ELSE "head", me[t])
  /\ UNCHANGED takeVars

TakeHead(t) ==
  /\ At(t, "head")
  /\ producers' = [producers EXCEPT ![me[t].ptr].headIndex = @ + me[t].n]
  /\ Go(t, "find", [me[t] EXCEPT !.index = Theirs(t).headIndex,
                    !.end = Theirs(t).headIndex + me[t].n,
                    !.given = me[t].given + me[t].n])
  /\ UNCHANGED takeVars

-----------------------------------------------------------------------------
(* The claimed items, block by block, found through the block index.       *)

\* get_block_index_index_for_index: the load of the index's tail,
FindTail(t) ==
  /\ At(t, "find") /\ Go(t, "key", [me[t] EXCEPT !.slot = Theirs(t).tail])
  /\ UNCHANGED <<takeVars, producers>>

\* then of the tail's key and of the entry, with the two assertions.
FindKey(t) ==
  /\ At(t, "key")
  /\ LET slot == SlotFor(Theirs(t), me[t].slot, me[t].index)
     IN  IF /\ Theirs(t).key[me[t].slot] # INVALID_BLOCK_BASE
            /\ Theirs(t).key[slot] = Base(me[t].index) /\ Theirs(t).value[slot] # None
         THEN Go(t, "move", [me[t] EXCEPT !.slot = slot])
         ELSE Go(t, "assert", me[t])
  /\ UNCHANGED <<takeVars, producers>>

EndIndex(t) == IF me[t].end < Base(me[t].index) + BLOCK_SIZE
               THEN me[t].end ELSE Base(me[t].index) + BLOCK_SIZE

Move(t) ==
  /\ At(t, "move")
  /\ LET block == Theirs(t).value[me[t].slot]
     IN  IF block = None
         THEN Go(t, "assert", me[t]) /\ UNCHANGED received
         ELSE /\ received' = [received EXCEPT ![t] = @ \o
                   [i \in 1 .. EndIndex(t) - me[t].index |->
                     elements[block][(me[t].index + i - 1) % BLOCK_SIZE]]]
              /\ Go(t, "empty", [me[t] EXCEPT !.block = block, !.index = EndIndex(t),
                                 !.count = EndIndex(t) - me[t].index])
  /\ UNCHANGED <<todo, producers, elements, elementsCompletelyDequeued, token,
                 globalExplicitConsumerOffset>>

\* The next block of the items claimed, or the end of dequeue_bulk.
NextBlock(t) ==
  IF me[t].index = me[t].end
  THEN Go(t, "dequeued", me[t])
  ELSE Go(t, "move", [me[t] EXCEPT !.slot = Wrap(me[t].slot + 1)])

\* Mutant: a block is freed with its first items.
NowEmptyEarly(t) == TRUE

\* set_empty, set_many_empty: is the block now empty?
NowEmpty(t) ==
  elementsCompletelyDequeued[me[t].block] + me[t].count = BLOCK_SIZE

set_many_empty(t) ==
  /\ At(t, "empty")
  /\ elementsCompletelyDequeued' =
       [elementsCompletelyDequeued EXCEPT ![me[t].block] = @ + me[t].count]
  /\ IF NowEmpty(t) THEN Go(t, "detach", me[t]) ELSE NextBlock(t)
  /\ UNCHANGED <<todo, producers, elements, token, globalExplicitConsumerOffset, received>>

\* The block leaves the index and is added to the free list.
Detach(t) ==
  /\ At(t, "detach")
  /\ producers' = [producers EXCEPT ![me[t].ptr].value[me[t].slot] = None]
  /\ Go(t, "add", [me[t] EXCEPT !.node = me[t].block, !.back = "freed"])
  /\ UNCHANGED takeVars

Freed(t) ==
  /\ At(t, "freed") /\ NextBlock(t)
  /\ UNCHANGED <<takeVars, producers>>

TakeStep(t) ==
  \/ Dequeue(t) \/ update_current_producer_after_rotation(t) \/ Dequeued(t)
  \/ LoadTail(t) \/ LoadOvercommit(t) \/ LoadCount(t) \/ Claim(t) \/ LoadAgain(t)
  \/ Correct(t) \/ TakeHead(t)
  \/ FindTail(t) \/ FindKey(t) \/ Move(t) \/ set_many_empty(t) \/ Detach(t) \/ Freed(t)

-----------------------------------------------------------------------------

Terminated ==
  /\ \A t \in Threads : At(t, "idle") /\ todo[t] = << >>
  /\ UNCHANGED vars

Step(t) ==
  /\ \/ PoolStep(t) /\ UNCHANGED <<hashVars, todo, queueVars>>
     \/ HashStep(t) /\ UNCHANGED <<poolVars, todo, queueVars>>
     \/ (PutStep(t) \/ TakeStep(t)) /\ UNCHANGED <<poolVars, hashVars>>
  /\ UNCHANGED workload

Next == (\E t \in Threads : Step(t)) \/ Terminated

Spec == Init /\ [][Next]_vars

\* The operating system runs every thread.
FairSpec == Spec /\ \A t \in Threads : WF_vars(Step(t))

-----------------------------------------------------------------------------
(* Properties.                                                             *)

Used == 1 .. workload.pool

\* What the block index of producer p finds at an index.
Found(p, index) ==
  LET q == producers[p]
      hit == {k \in Slots : q.key[k] = Base(index) /\ q.value[k] # None}
  IN  IF hit = {} THEN None ELSE elements[q.value[CHOOSE k \in hit : TRUE]][index % BLOCK_SIZE]

Stretch(p, from, to) == [i \in 1 .. to - from |-> Found(p, from + i - 1)]

\* The producers that the hash tables give thread t.
ProducersOf(t) ==
  UNION {{hashes[h].value[i] : i \in {k \in DOMAIN hashes[h].key : hashes[h].key[k] = t}} :
         h \in DOMAIN hashes}

Abstract == INSTANCE AbstractQueue WITH
  Calls <- {w.calls : w \in Workloads},
  queues <- [t \in Threads |->
              IF ProducersOf(t) = {} THEN << >>
              ELSE LET p == CHOOSE q \in ProducersOf(t) : TRUE
                   IN  Stretch(p, producers[p].headIndex, producers[p].tailIndex)],
  out <- [t \in Threads |-> received[t] \o
            IF me[t].ptr = None THEN << >> ELSE Stretch(me[t].ptr, me[t].index, me[t].end)],
  taken <- [t \in Threads |-> me[t].given]

\* What is in the blocks is a queue per thread: an accepted call adds its items entirely
\* and in order, a refused one nothing, and every item is dequeued once, in the order of
\* its thread; the blocks of an item that is claimed stay as they are until it is moved.
Implements == Abstract!Spec

\* Thread t has block b and nobody else knows of it.
Holds(t, b) ==
  \/ me[t].pc \in {"add", "link", "linknext", "linkrefs", "linkswap", "unlink"}
       /\ me[t].node = b
  \/ At(t, "taken") /\ me[t].head = b
  \/ At(t, "attach") /\ me[t].block = b
  \/ \E i \in DOMAIN me[t].freed : me[t].freed[i] = b

\* A block that somebody wants on the free list while another thread refers to it.
Awaited(b) == freeListRefs[b] > SHOULD_BE_ON_FREELIST /\ \A t \in Threads : ~Holds(t, b)

\* No block is lost or used twice: each is in exactly one place, the unused part of the
\* initial pool, the free list, the flag that has it put there, the hands of one thread
\* or one entry of one block index.
BlocksAccounted ==
  \A b \in Used :
    LET places == {<<"pool">> : x \in {y \in {b} : y > initialBlockPoolIndex}}
                    \cup {<<"list", n>> : n \in {k \in 0 .. Blocks : OnList[k] = b}}
                    \cup {<<"flag">> : x \in {y \in {b} : Awaited(y)}}
                    \cup {<<"thread", t>> : t \in {u \in Threads : Holds(u, b)}}
                    \cup {<<"index", s>> : s \in {r \in Names \X Slots :
                                             producers[r[1]].value[r[2]] = b}}
    IN  Cardinality(places) = 1

OneConsumer ==
  Cardinality({t \in Threads : \E i \in DOMAIN workload.calls[t] :
                                 workload.calls[t][i].op = "take"}) <= 1

\* A queue's only consumer gets the items that were there when it called, up to max,
\* whichever producers hold them and however the producers are rotated: CoroutineQueue's
\* DequeAll spins until it has the items the dispatcher counted.
TakesWhatIsThere == OneConsumer => \A t \in Threads : ~me[t].short

\* A thread keeps its producer while other threads make the hash grow, and no two
\* threads share one.
OwnProducer ==
  \A t \in Threads :
    /\ Cardinality(ProducersOf(t)) <= 1
    /\ \A u \in Threads \ {t} : ProducersOf(t) \cap ProducersOf(u) = {}

\* Every call returns: no thread waits for ever for a resize of the hash, for a
\* reference to a block or for a producer to try.
CallsReturn == <>(\A t \in Threads : todo[t] = << >>)
=============================================================================
