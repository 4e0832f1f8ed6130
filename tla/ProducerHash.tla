---------------------------- MODULE ProducerHash ----------------------------
(***************************************************************************)
(* How a thread that enqueues finds its ImplicitProducer:                  *)
(* get_or_add_implicit_producer with its chain of growing hash tables and  *)
(* the list of producers.  A table's entries are only ever filled, and a   *)
(* thread's key only by that thread (thread exit is not observed: the      *)
(* header leaves MOODYCAMEL_CPP11_THREAD_LOCAL_SUPPORTED undefined), so a   *)
(* walk over the entries is one step.                                      *)
(***************************************************************************)
EXTENDS BlockPool

CONSTANTS
  HashOf,        \* hash_thread_id of each thread
  MaxCapacity    \* bound: the slots of a hash table

ASSUME HashAssumption == HashOf \in [Threads -> Nat] /\ MaxCapacity \in Nat

VARIABLES
  hashes,        \* the tables, each with its keys and values; the last is
                 \* implicitProducerHash, the one before it its prev
  implicitProducerHashCount, implicitProducerHashResizeInProgress,
  producerList,  \* from producerListTail on; producers are named 1, 2, ...
  producerCount

hashVars == <<hashes, implicitProducerHashCount, implicitProducerHashResizeInProgress,
              producerList, producerCount>>

EmptyHash(capacity) ==
  [capacity |-> capacity, key |-> [i \in 0 .. capacity - 1 |-> None],
   value |-> [i \in 0 .. capacity - 1 |-> None]]

ProducerHashInit(size) ==
  /\ hashes = <<EmptyHash(size)>>
  /\ implicitProducerHashCount = 0 /\ implicitProducerHashResizeInProgress = FALSE
  /\ producerList = << >> /\ producerCount = 0

\* The slots in the order in which thread t probes them.
Probe(hash, t, n) == (HashOf[t] + n) % hash.capacity

\* The slot of t's own key, reached before an empty one; None if there is none.
Slot(hash, t) ==
  LET hit == {n \in 0 .. hash.capacity - 1 :
                /\ hash.key[Probe(hash, t, n)] = t
                /\ \A m \in 0 .. n - 1 : hash.key[Probe(hash, t, m)] # None}
  IN  IF hit = {} THEN None ELSE Probe(hash, t, CHOOSE n \in hit : TRUE)

\* The CAS loop that takes the first empty slot from t's hash value on.
Free(hash, t) ==
  {Probe(hash, t, n) : n \in {k \in 0 .. hash.capacity - 1 :
     /\ hash.key[Probe(hash, t, k)] = None
     /\ \A m \in 0 .. k - 1 : hash.key[Probe(hash, t, m)] # None}}

Insert(h, t, producer) ==
  \E i \in Free(hashes[h], t) :
    hashes' = [hashes EXCEPT ![h].key[i] = t, ![h].value[i] = producer]

\* Mutant: only the newest table is searched.
FindNewest(t) ==
  IF Slot(hashes[Len(hashes)], t) = None THEN {} ELSE {Len(hashes)}

\* The newest table that has t.
Find(t) ==
  {h \in DOMAIN hashes : /\ Slot(hashes[h], t) # None
                         /\ \A k \in h + 1 .. Len(hashes) : Slot(hashes[k], t) = None}

\* The search.  A producer found in an older table is added to the newest.
Search(t) ==
  /\ At(t, "search")
  /\ \/ \E h \in Find(t) :
          LET value == hashes[h].value[Slot(hashes[h], t)]
          IN  /\ Go(t, IF h = Len(hashes) THEN "first" ELSE "readd",
                    [me[t] EXCEPT !.producer = value, !.mainHash = Len(hashes)])
     \/ Find(t) = {} /\ Go(t, "count", [me[t] EXCEPT !.mainHash = Len(hashes)])
  /\ UNCHANGED hashVars

Readd(t) ==
  /\ At(t, "readd")
  /\ Insert(me[t].mainHash, t, me[t].producer)
  /\ Go(t, "first", me[t])
  /\ UNCHANGED <<implicitProducerHashCount, implicitProducerHashResizeInProgress,
                 producerList, producerCount>>

CountThread(t) ==
  /\ At(t, "count")
  /\ implicitProducerHashCount' = implicitProducerHashCount + 1
  /\ Go(t, "grow", [me[t] EXCEPT !.newCount = implicitProducerHashCount + 1])
  /\ UNCHANGED <<hashes, implicitProducerHashResizeInProgress, producerList, producerCount>>

Half(h) == hashes[h].capacity \div 2
Quarter(h) == hashes[h].capacity \div 4

\* test_and_set, when the table is half full.
Grow(t) ==
  /\ At(t, "grow")
  /\ IF me[t].newCount >= Half(me[t].mainHash) /\ ~implicitProducerHashResizeInProgress
     THEN implicitProducerHashResizeInProgress' = TRUE /\ Go(t, "resize", me[t])
     ELSE Go(t, "room", me[t]) /\ UNCHANGED implicitProducerHashResizeInProgress
  /\ UNCHANGED <<hashes, implicitProducerHashCount, producerList, producerCount>>

\* The capacity, doubled until newCount is less than half of it.
Doubled(h, newCount) ==
  LET fits == {c \in 1 .. MaxCapacity : /\ \E k \in 1 .. c : c = hashes[h].capacity * 2 ^ k
                                       /\ newCount < c \div 2}
  IN  {c \in fits : \A d \in fits : c <= d}

\* Under the resize flag: the newest table is looked at again and replaced unless
\* another thread has done so.
Resize(t) ==
  /\ At(t, "resize")
  /\ IF me[t].newCount >= Half(Len(hashes))
     THEN /\ \E c \in Doubled(Len(hashes), me[t].newCount) :
               hashes' = Append(hashes, EmptyHash(c))
          /\ Go(t, "resized", [me[t] EXCEPT !.mainHash = Len(hashes) + 1])
     ELSE Go(t, "resized", [me[t] EXCEPT !.mainHash = Len(hashes)]) /\ UNCHANGED hashes
  /\ UNCHANGED <<implicitProducerHashCount, implicitProducerHashResizeInProgress,
                 producerList, producerCount>>

\* Mutant: the flag stays set.
ResizedForGood(t) ==
  /\ At(t, "resized")
  /\ Go(t, "room", me[t])
  /\ UNCHANGED hashVars

Resized(t) ==
  /\ At(t, "resized")
  /\ implicitProducerHashResizeInProgress' = FALSE
  /\ Go(t, "room", me[t])
  /\ UNCHANGED <<hashes, implicitProducerHashCount, producerList, producerCount>>

\* Below three quarters it is added to the table it knows; otherwise it waits for
\* the thread that resizes.
Room(t) ==
  /\ At(t, "room")
  /\ IF me[t].newCount < Half(me[t].mainHash) + Quarter(me[t].mainHash)
     THEN Go(t, "create", me[t])
     ELSE Go(t, "grow", [me[t] EXCEPT !.mainHash = Len(hashes)])
  /\ UNCHANGED hashVars

\* recycle_or_create_producer (no producer is ever inactive) and add_producer:
\* the count first, then the CAS loop that puts the producer at the list's tail.
Create(t) ==
  /\ At(t, "create")
  /\ producerCount' = producerCount + 1
  /\ Go(t, "enlist", [me[t] EXCEPT !.producer = producerCount + 1])
  /\ UNCHANGED <<hashes, implicitProducerHashCount, implicitProducerHashResizeInProgress,
                 producerList>>

Enlist(t) ==
  /\ At(t, "enlist")
  /\ producerList' = <<me[t].producer>> \o producerList
  /\ Go(t, "readd", me[t])
  /\ UNCHANGED <<hashes, implicitProducerHashCount, implicitProducerHashResizeInProgress,
                 producerCount>>

\* An allocation fails, of a table or of a producer: try_enqueue returns false.
AllocationFails(t) ==
  /\ me[t].failing
  /\ \/ /\ At(t, "resize") /\ me[t].newCount >= Half(Len(hashes))
        /\ implicitProducerHashResizeInProgress' = FALSE
     \/ At(t, "create") /\ UNCHANGED implicitProducerHashResizeInProgress
  /\ implicitProducerHashCount' = implicitProducerHashCount - 1
  /\ Go(t, "refused", [me[t] EXCEPT !.failing = FALSE])
  /\ UNCHANGED <<hashes, producerList, producerCount>>

HashStep(t) ==
  \/ Search(t) \/ Readd(t) \/ CountThread(t) \/ Grow(t) \/ Resize(t) \/ Resized(t)
  \/ Room(t) \/ Create(t) \/ Enlist(t) \/ AllocationFails(t)
=============================================================================
