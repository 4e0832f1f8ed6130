-------------------------- MODULE DispatcherProofs --------------------------
(***************************************************************************)
(* Dispatcher for any number of loops, tasks and any capacity: no dispatch *)
(* is lost or doubled, what is counted is there, and no consumer sleeps on *)
(* a counted coroutine.                                                    *)
(*                                                                         *)
(* TaskKept is not inductive as it stands.  An enqueue is three steps of a *)
(* producer, and between them the consumer may take what is in the queue   *)
(* already: what carries the argument is that the three steps belong to    *)
(* the holder of global_addition_lock_ (Locked), that a queue exists only  *)
(* for a registered consumer and is empty when its consumer leaves (Ids,   *)
(* Counted), and that the items in a queue are those counted and those of  *)
(* the one enqueue that has not counted yet (Counted).                     *)
(***************************************************************************)
EXTENDS Dispatcher, SequenceTheorems, FiniteSetTheorems, TLAPS

LoopPoints == {"run", "produce", "single", "put", "count", "notify", "deregister", "wait",
            "done", "failed"}
Batches == [tasks : SUBSET Tasks, from : Keys, to : Keys, kind : {"all", "one", "moved"}]

LoopTypes ==
  /\ pc \in [Loops -> LoopPoints] /\ alive \in [Loops -> BOOLEAN]
  /\ event_loop_type \in [Loops -> SUBSET {"PRODUCER", "CONSUMER"}]
OutTypes ==
  /\ to_dispatched \in [Loops -> [Keys -> SUBSET Tasks]]
  /\ to_dispatched_count \in [Loops -> Int]
  /\ left \in [Loops -> SUBSET Keys] /\ flushing \in [Loops -> BOOLEAN]
  /\ batch \in [Loops -> Batches]
IdTypes ==
  /\ consumer_ids \in Seq(Loops) /\ known \subseteq Loops /\ lock \in Loops \cup {None}
  /\ consumer_id_itr \in Nat \ {0}
  /\ consumer_ids # <<>> => consumer_id_itr \in DOMAIN consumer_ids
InTypes ==
  /\ queue \in [Loops -> SUBSET Tasks] /\ remained_items \in [Loops -> Nat]
  /\ event_fd \in [Loops -> BOOLEAN]
HistTypes ==
  /\ target \in [Tasks -> Keys \cup {None}] /\ ran \in [Tasks -> Loops \cup {None}]
  /\ dropped \subseteq Tasks
TypeOK == LoopTypes /\ OutTypes /\ IdTypes /\ InTypes /\ HistTypes

\* Only what was dispatched is anywhere, finitely many coroutines at a time.
Finite ==
  \A l \in Loops : /\ IsFiniteSet(queue[l]) /\ IsFiniteSet(batch[l].tasks)
                   /\ \A k \in Keys : IsFiniteSet(to_dispatched[l][k])

\* The steps of an enqueue are those of the holder of global_addition_lock_.
Busy(l) == pc[l] \in {"put", "count", "notify"}
Locked == \A l \in Loops : Busy(l) => lock = l

\* An enqueue that cannot fail any more, or that DeRegister began.
Putting(l) == \/ pc[l] \in {"count", "notify"}
              \/ pc[l] = "put" /\ batch[l].kind = "moved"

\* consumer_ids_ names each consumer once, from ResigerConsumer until the dispatcher's
\* DeRegister; a queue that an enqueue has found stays until the lock is released.
Ids ==
  /\ \A i, j \in DOMAIN consumer_ids : consumer_ids[i] = consumer_ids[j] => i = j
  /\ \A l \in Loops :
       l \in Registered <=> "CONSUMER" \in event_loop_type[l] \/ pc[l] = "deregister"
  /\ \A l \in Loops : pc[l] = "deregister" => "CONSUMER" \notin event_loop_type[l]
  /\ \A l \in Loops : Putting(l) => batch[l].to \in Registered
  /\ \A l \in Loops : l \notin Registered => queue[l] = {}

\* An enqueue takes from the producer's list what it offers.
Offered ==
  \A l \in Loops : Busy(l) /\ batch[l].kind # "moved"
    => batch[l].tasks \subseteq to_dispatched[l][batch[l].from]

\* The places of a task that can be told apart.
Listed(t) == \E l \in Loops, k \in Keys : t \in to_dispatched[l][k]
Held(t)   == \E l \in Loops : pc[l] \in {"count", "notify"} /\ t \in batch[l].tasks
Moved(t)  == \E l \in Loops : Busy(l) /\ batch[l].kind = "moved" /\ t \in batch[l].tasks
Moving(t) == \E l \in Loops : pc[l] = "put" /\ batch[l].kind = "moved" /\ t \in batch[l].tasks
Queued(t) == \E l \in Loops : t \in queue[l]
Ran(t)    == ran[t] # None

Home(t) ==
  /\ \A l, m \in Loops, k, j \in Keys :
       t \in to_dispatched[l][k] /\ t \in to_dispatched[m][j] => l = m /\ k = j
  /\ \A l, m \in Loops : t \in queue[l] /\ t \in queue[m] => l = m
  /\ Moved(t) => ~Listed(t)
  /\ Moving(t) => ~Queued(t) /\ ~Ran(t) /\ t \notin dropped
  /\ Listed(t) /\ ~Held(t) => ~Queued(t) /\ ~Ran(t) /\ t \notin dropped
  /\ Held(t) => Queued(t) \/ Ran(t)
  /\ Queued(t) => ~Ran(t) /\ t \notin dropped
  /\ Ran(t) => t \notin dropped
  /\ target[t] # None <=> Listed(t) \/ Moving(t) \/ Queued(t) \/ Ran(t) \/ t \in dropped
Homes == \A t \in Tasks : Home(t)

\* What is in a queue was counted, but for the enqueue that will count it next.
Counted ==
  /\ \A l \in Loops : pc[l] = "count" =>
       remained_items[batch[l].to] + Cardinality(batch[l].tasks) = Cardinality(queue[batch[l].to])
  /\ \A c \in Loops : (\A l \in Loops : pc[l] = "count" => batch[l].to # c)
       => remained_items[c] = Cardinality(queue[c])

\* From the end of its ConsumeCoroutine until it waits, a loop that finds something counted
\* finds its eventfd written too.
Awake ==
  \A c \in Loops :
    /\ remained_items[c] > 0
    /\ \/ pc[c] = "wait"
       \/ ~flushing[c] /\ pc[c] \in {"produce", "single", "put", "count", "notify"}
    => event_fd[c] \/ \E l \in Loops : pc[l] = "notify" /\ batch[l].to = c

-----------------------------------------------------------------------------
(* What the compound actions do.                                           *)

\* An erasure at a position leaves the rest in order.
LEMMA ErasureIs ==
  ASSUME NEW S, NEW q \in Seq(S), NEW i \in 1 .. Len(q)
  PROVE  LET r == SubSeq(q, 1, i - 1) \o SubSeq(q, i + 1, Len(q))
         IN  /\ r \in Seq(S) /\ Len(r) = Len(q) - 1
             /\ \A j \in 1 .. Len(q) - 1 : r[j] = IF j < i THEN q[j] ELSE q[j + 1]
<1>1. Len(q) \in Nat
  OBVIOUS
<1> DEFINE a == SubSeq(q, 1, i - 1)  b == SubSeq(q, i + 1, Len(q))
<1>2. /\ a \in Seq(S) /\ Len(a) = i - 1
      /\ \A j \in 1 .. i - 1 : a[j] = q[j]
  BY <1>1
<1>3. /\ b \in Seq(S) /\ Len(b) = Len(q) - i
      /\ \A j \in 1 .. Len(q) - i : b[j] = q[i + j]
  BY <1>1
<1> HIDE DEF a, b
<1> DEFINE c == a \o b
<1>4. /\ c \in Seq(S) /\ Len(c) = Len(a) + Len(b)
      /\ \A j \in 1 .. Len(a) + Len(b) : c[j] = IF j <= Len(a) THEN a[j] ELSE b[j - Len(a)]
  BY <1>2, <1>3, ConcatProperties
<1> HIDE DEF c
<1>5. Len(c) = Len(q) - 1
  BY <1>1, <1>2, <1>3, <1>4
<1>6. ASSUME NEW j \in 1 .. Len(q) - 1
      PROVE  c[j] = IF j < i THEN q[j] ELSE q[j + 1]
  <2>1. j \in 1 .. Len(a) + Len(b) /\ Len(a) = i - 1
    BY <1>1, <1>2, <1>3
  <2>2. c[j] = IF j <= Len(a) THEN a[j] ELSE b[j - Len(a)]
    BY <1>4, <2>1
  <2>3. c[j] = IF j <= i - 1 THEN a[j] ELSE b[j - (i - 1)]
    BY <2>1, <2>2
  <2>4. CASE j < i
    BY <1>2, <2>3, <2>4
  <2>5. CASE j >= i
    <3>1. j - (i - 1) \in 1 .. Len(q) - i /\ i + (j - (i - 1)) = j + 1
      BY <1>1, <2>5
    <3>2. b[j - (i - 1)] = q[j + 1]
      BY <1>3, <3>1
    <3> QED  BY <2>3, <2>5, <3>2
  <2> QED  BY <2>4, <2>5
<1> QED  BY <1>4, <1>5, <1>6 DEF a, b, c

\* consumer_ids_.erase
LEMMA ErasedIs ==
  ASSUME TypeOK, NEW l \in Registered
  PROVE  /\ Position(l) \in 1 .. Len(consumer_ids) /\ consumer_ids[Position(l)] = l
         /\ Erased(l) \in Seq(Loops) /\ Len(Erased(l)) = Len(consumer_ids) - 1
         /\ \A j \in 1 .. Len(consumer_ids) - 1 :
              Erased(l)[j] = IF j < Position(l) THEN consumer_ids[j] ELSE consumer_ids[j + 1]
<1>1. consumer_ids \in Seq(Loops) /\ DOMAIN consumer_ids = 1 .. Len(consumer_ids)
  BY DEF TypeOK, IdTypes
<1>2. Position(l) \in DOMAIN consumer_ids /\ consumer_ids[Position(l)] = l
  BY DEF Position, Registered
<1> QED  BY <1>1, <1>2, ErasureIs DEF Erased

\* The list without a consumer names every other one, once.
LEMMA ErasedSet ==
  ASSUME TypeOK, Ids, NEW l \in Registered
  PROVE  /\ \A i, j \in DOMAIN Erased(l) : Erased(l)[i] = Erased(l)[j] => i = j
         /\ {Erased(l)[i] : i \in DOMAIN Erased(l)} = Registered \ {l}
<1> DEFINE q == consumer_ids  p == Position(l)  r == Erased(l)
           at(j) == IF j < p THEN j ELSE j + 1
<1>1. /\ q \in Seq(Loops) /\ Len(q) \in Nat /\ DOMAIN q = 1 .. Len(q) /\ p \in 1 .. Len(q)
      /\ q[p] = l /\ DOMAIN r = 1 .. Len(q) - 1
      /\ \A j \in 1 .. Len(q) - 1 : r[j] = IF j < p THEN q[j] ELSE q[j + 1]
  BY ErasedIs DEF TypeOK, IdTypes
<1>2. \A i, j \in DOMAIN q : q[i] = q[j] => i = j
  BY DEF Ids
<1> HIDE DEF q, p, r
<1>3. \A j \in DOMAIN r : at(j) \in DOMAIN q /\ r[j] = q[at(j)] /\ at(j) # p
  BY <1>1
<1>4. \A j, k \in DOMAIN r : at(j) = at(k) => j = k
  BY <1>1
<1>5. ASSUME NEW k \in DOMAIN q \ {p}
      PROVE  \E j \in DOMAIN r : at(j) = k
  <2>1. CASE k < p
    BY <1>1, <2>1
  <2>2. CASE k > p
    <3>1. k - 1 \in DOMAIN r /\ at(k - 1) = k
      BY <1>1, <2>2
    <3> QED  BY <3>1
  <2> QED  BY <1>1, <2>1, <2>2
<1> HIDE DEF at
<1>6. \A i, j \in DOMAIN r : r[i] = r[j] => i = j
  BY <1>2, <1>3, <1>4
<1>7. {r[i] : i \in DOMAIN r} \subseteq {q[i] : i \in DOMAIN q} \ {l}
  BY <1>1, <1>2, <1>3
<1>8. {q[i] : i \in DOMAIN q} \ {l} \subseteq {r[i] : i \in DOMAIN r}
  BY <1>1, <1>3, <1>5
<1> QED  BY <1>6, <1>7, <1>8 DEF Registered, q, r

\* The destination of an enqueue is a loop; the lock is taken, or the exception thrown.
LEMMA EnqueueEffect ==
  ASSUME TypeOK, NEW l \in Loops, NEW tasks \in SUBSET Tasks, NEW from \in Keys,
         NEW kind \in {"all", "one"}, Enqueue(l, tasks, from, kind)
  PROVE  /\ lock = None
         /\ \/ /\ pc' = [pc EXCEPT ![l] = "put"] /\ lock' = l
               /\ \E to \in Loops : batch' = [batch EXCEPT ![l] =
                    [tasks |-> tasks, from |-> from, to |-> to, kind |-> kind]]
            \/ pc' = [pc EXCEPT ![l] = "failed"] /\ UNCHANGED <<batch, lock>>
         /\ consumer_id_itr' \in Nat \ {0}
         /\ consumer_ids # <<>> => consumer_id_itr' \in DOMAIN consumer_ids
         /\ UNCHANGED <<event_loop_type, alive, to_dispatched, to_dispatched_count, flushing,
                        consumer_ids, known, inVars, histVars>>
<1>1. /\ lock = None
      /\ UNCHANGED <<event_loop_type, alive, to_dispatched, to_dispatched_count, flushing,
                     consumer_ids, known, inVars, histVars>>
  BY DEF Enqueue
<1>2. /\ consumer_ids \in Seq(Loops) /\ consumer_id_itr \in Nat \ {0}
      /\ consumer_ids # <<>> => consumer_id_itr \in DOMAIN consumer_ids
  BY DEF TypeOK, IdTypes
<1>3. CASE kind = "all" /\ from # Anyone
  <2>1. from \in Loops
    BY <1>3 DEF Keys
  <2> QED  BY <1>1, <1>2, <1>3, <2>1 DEF Enqueue, Goto
<1>4. CASE (kind = "one" \/ from = Anyone) /\ consumer_ids # <<>>
  <2>1. consumer_ids[consumer_id_itr] \in Loops
    BY <1>2, <1>4
  <2>2. /\ batch' = [batch EXCEPT ![l] =
             [tasks |-> tasks, from |-> from, to |-> consumer_ids[consumer_id_itr],
              kind |-> kind]]
        /\ GetNextConsumer /\ lock' = l /\ pc' = [pc EXCEPT ![l] = "put"]
    BY <1>4 DEF Enqueue, Goto
  <2>3. consumer_id_itr' \in DOMAIN consumer_ids /\ consumer_id_itr' \in Nat \ {0}
    <3>1. /\ Len(consumer_ids) \in Nat \ {0} /\ DOMAIN consumer_ids = 1 .. Len(consumer_ids)
          /\ consumer_id_itr \in 1 .. Len(consumer_ids)
      BY <1>2, <1>4
    <3>2. consumer_id_itr' = IF consumer_id_itr = Len(consumer_ids) THEN 1 ELSE consumer_id_itr + 1
      BY <2>2 DEF GetNextConsumer
    <3>3. CASE consumer_id_itr = Len(consumer_ids)
      BY SMTT(60), <3>1, <3>2, <3>3
    <3>4. CASE consumer_id_itr # Len(consumer_ids)
      <4>1. PICK n, i : n = Len(consumer_ids) /\ i = consumer_id_itr
        OBVIOUS
      <4>2. n \in Nat \ {0} /\ i \in 1 .. n /\ i # n
        BY <3>1, <3>4, <4>1
      <4>3. i + 1 \in 1 .. n /\ i + 1 \in Nat \ {0}
        BY <4>2
      <4> QED  BY <3>1, <3>2, <3>4, <4>1, <4>3
    <3> QED  BY <3>3, <3>4
  <2> QED  BY <1>1, <2>1, <2>2, <2>3
<1>5. CASE (kind = "one" \/ from = Anyone) /\ consumer_ids = <<>>
  BY <1>1, <1>2, <1>5 DEF Enqueue, Goto
<1> QED  BY <1>3, <1>4, <1>5

\* EnqueueAll offers a whole list, EnqueueToAny one coroutine of it.
LEMMA Offers ==
  ASSUME TypeOK, Finite, NEW l \in Loops, EnqueueAll(l) \/ EnqueueToAny(l)
  PROVE  /\ pc[l] \in {"produce", "single"}
         /\ \E from \in Keys, kind \in {"all", "one"}, tasks \in SUBSET Tasks :
              /\ tasks \subseteq to_dispatched[l][from] /\ IsFiniteSet(tasks)
              /\ Enqueue(l, tasks, from, kind)
         /\ left' \in [Loops -> SUBSET Keys]
<1>1. to_dispatched \in [Loops -> [Keys -> SUBSET Tasks]] /\ left \in [Loops -> SUBSET Keys]
      /\ batch[l].from \in Keys
  BY DEF TypeOK, OutTypes, Batches
<1>2. CASE EnqueueAll(l)
  <2>1. PICK k \in left[l] : /\ left' = [left EXCEPT ![l] = @ \ {k}]
                             /\ Enqueue(l, to_dispatched[l][k], k, "all")
    BY <1>2 DEF EnqueueAll
  <2>2. IsFiniteSet(to_dispatched[l][k]) /\ k \in Keys
    BY <1>1, <2>1 DEF Finite
  <2> QED  BY <1>1, <1>2, <2>1, <2>2 DEF EnqueueAll, At
<1>3. CASE EnqueueToAny(l)
  <2>1. PICK t \in to_dispatched[l][batch[l].from] : Enqueue(l, {t}, batch[l].from, "one")
    BY <1>3 DEF EnqueueToAny
  <2>2. IsFiniteSet({t})
    BY FS_Singleton
  <2>3. pc[l] = "single" /\ left' = left
    BY <1>3 DEF EnqueueToAny, At
  <2> QED  BY <1>1, <2>1, <2>2, <2>3
<1> QED  BY <1>2, <1>3

\* The two kinds of enqueue as one step: the lock is taken for coroutines of one list, or
\* there is no consumer.
LEMMA OfferEffect ==
  ASSUME TypeOK, Finite, NEW l \in Loops, EnqueueAll(l) \/ EnqueueToAny(l)
  PROVE  /\ pc[l] \in {"produce", "single"} /\ lock = None
         /\ \/ /\ pc' = [pc EXCEPT ![l] = "put"] /\ lock' = l
               /\ \E b \in Batches :
                    /\ batch' = [batch EXCEPT ![l] = b]
                    /\ b.kind # "moved" /\ b.to \in Loops
                    /\ b.tasks \subseteq to_dispatched[l][b.from] /\ IsFiniteSet(b.tasks)
            \/ pc' = [pc EXCEPT ![l] = "failed"] /\ batch' = batch /\ lock' = lock
         /\ left' \in [Loops -> SUBSET Keys]
         /\ consumer_id_itr' \in Nat \ {0}
         /\ consumer_ids # <<>> => consumer_id_itr' \in DOMAIN consumer_ids
         /\ event_loop_type' = event_loop_type /\ alive' = alive
         /\ to_dispatched' = to_dispatched /\ to_dispatched_count' = to_dispatched_count
         /\ flushing' = flushing /\ consumer_ids' = consumer_ids /\ known' = known
         /\ queue' = queue /\ remained_items' = remained_items /\ event_fd' = event_fd
         /\ target' = target /\ ran' = ran /\ dropped' = dropped
<1>1. /\ pc[l] \in {"produce", "single"} /\ left' \in [Loops -> SUBSET Keys]
      /\ \E from \in Keys, kind \in {"all", "one"}, tasks \in SUBSET Tasks :
              /\ tasks \subseteq to_dispatched[l][from] /\ IsFiniteSet(tasks)
              /\ Enqueue(l, tasks, from, kind)
  BY Offers
<1>2. PICK from \in Keys, kind \in {"all", "one"}, tasks \in SUBSET Tasks :
              /\ tasks \subseteq to_dispatched[l][from] /\ IsFiniteSet(tasks)
              /\ Enqueue(l, tasks, from, kind)
  BY <1>1
<1>3. /\ lock = None
      /\ \/ /\ pc' = [pc EXCEPT ![l] = "put"] /\ lock' = l
            /\ \E to \in Loops : batch' = [batch EXCEPT ![l] =
                 [tasks |-> tasks, from |-> from, to |-> to, kind |-> kind]]
         \/ pc' = [pc EXCEPT ![l] = "failed"] /\ UNCHANGED <<batch, lock>>
      /\ consumer_id_itr' \in Nat \ {0}
      /\ consumer_ids # <<>> => consumer_id_itr' \in DOMAIN consumer_ids
      /\ UNCHANGED <<event_loop_type, alive, to_dispatched, to_dispatched_count, flushing,
                     consumer_ids, known, inVars, histVars>>
  BY <1>2, EnqueueEffect, Zenon
<1>4. ASSUME NEW to \in Loops
      PROVE  LET b == [tasks |-> tasks, from |-> from, to |-> to, kind |-> kind]
             IN  /\ b \in Batches /\ b.kind # "moved" /\ b.to \in Loops
                 /\ b.tasks \subseteq to_dispatched[l][b.from] /\ IsFiniteSet(b.tasks)
  BY <1>2 DEF Batches, Keys
<1>5. CASE /\ pc' = [pc EXCEPT ![l] = "put"] /\ lock' = l
           /\ \E to \in Loops : batch' = [batch EXCEPT ![l] =
                [tasks |-> tasks, from |-> from, to |-> to, kind |-> kind]]
  <2>1. PICK to \in Loops : batch' = [batch EXCEPT ![l] =
                [tasks |-> tasks, from |-> from, to |-> to, kind |-> kind]]
    BY <1>5
  <2>2. \E b \in Batches :
          /\ batch' = [batch EXCEPT ![l] = b]
          /\ b.kind # "moved" /\ b.to \in Loops
          /\ b.tasks \subseteq to_dispatched[l][b.from] /\ IsFiniteSet(b.tasks)
    BY <1>4, <2>1, Zenon
  <2> QED  BY <1>1, <1>3, <1>5, <2>2 DEF inVars, histVars
<1>6. CASE pc' = [pc EXCEPT ![l] = "failed"] /\ UNCHANGED <<batch, lock>>
  BY <1>1, <1>3, <1>6 DEF inVars, histVars
<1> QED  BY <1>3, <1>5, <1>6

\* A loop that is about to leave is registered.
LEMMA LeavingIsRegistered ==
  ASSUME Ids, NEW l \in Loops, DeRegister(l)
  PROVE  l \in Registered
BY DEF Ids, DeRegister, At

\* The iterator stays in consumer_ids_.
LEMMA DeRegisterItr ==
  ASSUME TypeOK, Ids, NEW l \in Loops, DeRegister(l)
  PROVE  /\ consumer_ids' = Erased(l) /\ consumer_ids' \in Seq(Loops)
         /\ consumer_id_itr' \in Nat \ {0}
         /\ consumer_ids' # <<>> => consumer_id_itr' \in DOMAIN consumer_ids'
<1>1. PICK ids, n, p : ids = Erased(l) /\ n = Len(consumer_ids) /\ p = Position(l)
  OBVIOUS
<1>2. ids \in Seq(Loops) /\ Len(ids) = n - 1 /\ n \in Nat /\ p \in 1 .. n
  BY <1>1, LeavingIsRegistered, ErasedIs DEF TypeOK, IdTypes
<1>3. consumer_ids' = ids
  BY <1>1 DEF DeRegister, EraseId
<1>4. \/ /\ n > 1
         /\ LET at == IF p > Len(ids) THEN 1 ELSE p
            IN  consumer_id_itr' = IF at = Len(ids) THEN 1 ELSE at + 1
      \/ consumer_id_itr' = IF p = n THEN 1 ELSE p
  BY <1>1 DEF DeRegister, EraseId
<1>5. consumer_id_itr' \in Nat \ {0} /\ (n - 1 # 0 => consumer_id_itr' \in 1 .. n - 1)
  <2>1. CASE consumer_id_itr' = IF p = n THEN 1 ELSE p
    BY <1>2, <2>1
  <2>2. CASE /\ n > 1
             /\ LET at == IF p > Len(ids) THEN 1 ELSE p
                IN  consumer_id_itr' = IF at = Len(ids) THEN 1 ELSE at + 1
    <3> DEFINE at == IF p > n - 1 THEN 1 ELSE p
    <3>1. at \in 1 .. n - 1 /\ n - 1 \in Nat
      BY <1>2, <2>2
    <3>2. consumer_id_itr' = IF at = n - 1 THEN 1 ELSE at + 1
      BY <1>2, <2>2
    <3> HIDE DEF at
    <3> QED  BY <3>1, <3>2
  <2> QED  BY <1>4, <2>1, <2>2
<1>6. ids # <<>> => n - 1 # 0 /\ DOMAIN ids = 1 .. n - 1
  BY <1>2
<1> QED  BY <1>1, <1>2, <1>3, <1>5, <1>6

\* DeRegister empties what was counted of the leaving consumer's queue, and hands it on
\* or drops it.
LEMMA DeRegisterEffect ==
  ASSUME TypeOK, Ids, NEW l \in Loops, DeRegister(l)
  PROVE  /\ pc[l] = "deregister" /\ lock = None
         /\ UNCHANGED <<event_loop_type, alive, to_dispatched, to_dispatched_count, left,
                        flushing, known, event_fd, target, ran>>
         /\ remained_items' = [remained_items EXCEPT ![l] = 0]
         /\ \E rest \in SUBSET queue[l] :
              /\ Cardinality(rest) = remained_items[l]
              /\ queue' = [queue EXCEPT ![l] = queue[l] \ rest]
              /\ \/ /\ pc' = [pc EXCEPT ![l] = "put"] /\ lock' = l /\ dropped' = dropped
                    /\ \E b \in Batches :
                         /\ batch' = [batch EXCEPT ![l] = b]
                         /\ b.tasks = rest /\ b.to \in Registered \ {l} /\ b.kind = "moved"
                 \/ /\ pc' = [pc EXCEPT ![l] = "run"] /\ dropped' = dropped \cup rest
                    /\ UNCHANGED <<batch, lock>>
<1>1. /\ pc[l] = "deregister" /\ lock = None
      /\ UNCHANGED <<event_loop_type, alive, to_dispatched, to_dispatched_count, left,
                     flushing, known, event_fd, target, ran>>
  BY DEF DeRegister, At
<1>2. PICK rest \in SUBSET queue[l] :
        /\ DequeAll(l, rest)
        /\ \/ /\ rest # {} /\ Len(consumer_ids) > 1
              /\ LET ids == Erased(l)
                     at  == IF Position(l) > Len(ids) THEN 1 ELSE Position(l)
                 IN  batch' = [batch EXCEPT ![l] =
                       [tasks |-> rest, from |-> Anyone, to |-> ids[at], kind |-> "moved"]]
              /\ lock' = l /\ Goto(l, "put")
              /\ UNCHANGED dropped
           \/ /\ Goto(l, "run")
              /\ dropped' = dropped \cup rest
              /\ UNCHANGED <<batch, lock>>
  BY DEF DeRegister
<1>3. ASSUME Len(consumer_ids) > 1
      PROVE  Erased(l)[IF Position(l) > Len(Erased(l)) THEN 1 ELSE Position(l)]
               \in Registered \ {l}
  <2>1. PICK ids, n, p : ids = Erased(l) /\ n = Len(consumer_ids) /\ p = Position(l)
    OBVIOUS
  <2>2. ids \in Seq(Loops) /\ Len(ids) = n - 1 /\ n \in Nat /\ p \in 1 .. n
    BY <2>1, LeavingIsRegistered, ErasedIs DEF TypeOK, IdTypes
  <2>3. (IF p > n - 1 THEN 1 ELSE p) \in 1 .. Len(ids)
    BY <1>3, <2>1, <2>2
  <2>4. ids[IF p > n - 1 THEN 1 ELSE p] \in {ids[i] : i \in DOMAIN ids}
    BY <2>2, <2>3
  <2>5. {ids[i] : i \in DOMAIN ids} = Registered \ {l}
    BY <2>1, LeavingIsRegistered, ErasedSet
  <2> QED  BY <2>1, <2>2, <2>4, <2>5
<1>4. /\ Cardinality(rest) = remained_items[l]
      /\ queue' = [queue EXCEPT ![l] = queue[l] \ rest]
      /\ remained_items' = [remained_items EXCEPT ![l] = 0]
  BY <1>2 DEF DequeAll
<1>5. ASSUME NEW to \in Registered \ {l}
      PROVE  LET b == [tasks |-> rest, from |-> Anyone, to |-> to, kind |-> "moved"]
             IN  /\ b \in Batches /\ b.tasks = rest /\ b.to \in Registered \ {l}
                 /\ b.kind = "moved"
  <2>1. to \in Loops
    BY DEF Registered, TypeOK, IdTypes
  <2> QED  BY <2>1 DEF Batches, Keys, TypeOK, InTypes
<1>6. ASSUME Goto(l, "put"), Len(consumer_ids) > 1,
             LET ids == Erased(l)
                 at  == IF Position(l) > Len(ids) THEN 1 ELSE Position(l)
             IN  batch' = [batch EXCEPT ![l] =
                   [tasks |-> rest, from |-> Anyone, to |-> ids[at], kind |-> "moved"]]
      PROVE  \E b \in Batches : /\ batch' = [batch EXCEPT ![l] = b]
                               /\ b.tasks = rest /\ b.to \in Registered \ {l}
                               /\ b.kind = "moved"
  BY <1>3, <1>5, <1>6, Zenon
<1> QED  BY <1>1, <1>2, <1>4, <1>6 DEF Goto

\* ConsumeCoroutine takes as many coroutines as were counted and resumes them.
LEMMA ConsumeEffect ==
  ASSUME TypeOK, NEW l \in Loops, ConsumeCoroutine(l)
  PROVE  /\ remained_items' = [remained_items EXCEPT ![l] = 0]
         /\ \E some \in SUBSET queue[l] :
              /\ Cardinality(some) = remained_items[l]
              /\ queue' = [queue EXCEPT ![l] = queue[l] \ some]
              /\ ran' = [t \in Tasks |-> IF t \in some THEN l ELSE ran[t]]
BY DEF ConsumeCoroutine, DequeAll

-----------------------------------------------------------------------------
(* Types.                                                                  *)

\* A coroutine resumes or a loop's turn goes on.
LEMMA LoopTypesStep ==
  ASSUME TypeOK, Ids, Finite, [Next]_vars
  PROVE  LoopTypes'
<1> USE DEF TypeOK
<1>1. ASSUME NEW l \in Loops, NEW p \in LoopPoints, pc' = [pc EXCEPT ![l] = p]
      PROVE  pc' \in [Loops -> LoopPoints]
  BY <1>1 DEF LoopTypes
<1>2. pc' \in [Loops -> LoopPoints]
  <2>1. CASE UNCHANGED pc
    BY <2>1 DEF LoopTypes
  <2>2. ASSUME NEW l \in Loops, EnqueueAll(l) \/ EnqueueToAny(l)
        PROVE  \E p \in LoopPoints : pc' = [pc EXCEPT ![l] = p]
    BY <2>2 DEF EnqueueAll, EnqueueToAny, Enqueue, Goto, LoopPoints
  <2>3. ASSUME NEW l \in Loops, DeRegister(l)
        PROVE  \E p \in LoopPoints : pc' = [pc EXCEPT ![l] = p]
    BY <2>3 DEF DeRegister, Goto, LoopPoints
  <2>4. ASSUME NEW l \in Loops,
               \/ DeResigerProducer(l) \/ DeResigerConsumer(l) \/ WaitEvents(l) \/ SinglesDone(l)
               \/ Put(l) \/ PutRefused(l) \/ PutNowhere(l) \/ Count(l) \/ Notify(l)
        PROVE  \E p \in LoopPoints : pc' = [pc EXCEPT ![l] = p]
    <3>1. batch[l].kind \in {"all", "one", "moved"}
      BY DEF OutTypes, Batches
    <3> QED  BY <2>4, <3>1 DEF DeResigerProducer, DeResigerConsumer, WaitEvents, SinglesDone, Put,
                 PutRefused, PutNowhere, Count, Notify, Goto, LoopPoints
  <2>5. ASSUME NEW l \in Loops, Trim(l) \/ EndProduce(l)
        PROVE  UNCHANGED pc \/ \E p \in LoopPoints : pc' = [pc EXCEPT ![l] = p]
    BY <2>5 DEF Trim, EndProduce, AfterTrim, Goto, LoopPoints
  <2> QED
    BY <1>1, <2>1, <2>2, <2>3, <2>4, <2>5
    DEF Next, vars, loopVars, Turn, Dispatch, ResigerProducer, ResigerConsumer, Return, Terminated
<1>3. alive' \in [Loops -> BOOLEAN]
  <2>1. CASE UNCHANGED alive
    BY <2>1 DEF LoopTypes
  <2>2. ASSUME NEW l \in Loops, Return(l)
        PROVE  alive' \in [Loops -> BOOLEAN]
    BY <2>2 DEF Return, LoopTypes
  <2> QED
    BY <2>1, <2>2
    DEF Next, vars, loopVars, Turn, Dispatch, ResigerProducer, ResigerConsumer,
        DeResigerProducer, DeResigerConsumer, WaitEvents, SinglesDone, Put, PutRefused,
        PutNowhere, Count, Notify, Trim, EndProduce, EnqueueAll, EnqueueToAny, Enqueue,
        DeRegister, Terminated
<1>4. event_loop_type' \in [Loops -> SUBSET {"PRODUCER", "CONSUMER"}]
  <2>1. CASE UNCHANGED event_loop_type
    BY <2>1 DEF LoopTypes
  <2>2. ASSUME NEW l \in Loops,
               \/ ResigerProducer(l) \/ ResigerConsumer(l)
               \/ DeResigerProducer(l) \/ DeResigerConsumer(l)
        PROVE  event_loop_type' \in [Loops -> SUBSET {"PRODUCER", "CONSUMER"}]
    BY <2>2 DEF ResigerProducer, ResigerConsumer, DeResigerProducer, DeResigerConsumer, LoopTypes
  <2> QED
    BY <2>1, <2>2
    DEF Next, vars, loopVars, Turn, Dispatch, Return, WaitEvents, SinglesDone, Put, PutRefused,
        PutNowhere, Count, Notify, Trim, EndProduce, EnqueueAll, EnqueueToAny, Enqueue,
        DeRegister, Terminated
<1> QED  BY <1>2, <1>3, <1>4 DEF LoopTypes

\* What is to be dispatched, and the enqueue in progress.
LEMMA OutTypesStep ==
  ASSUME TypeOK, Ids, Finite, [Next]_vars
  PROVE  OutTypes'
<1>1. /\ to_dispatched \in [Loops -> [Keys -> SUBSET Tasks]]
      /\ to_dispatched_count \in [Loops -> Int]
      /\ left \in [Loops -> SUBSET Keys] /\ flushing \in [Loops -> BOOLEAN]
      /\ batch \in [Loops -> Batches]
  BY DEF TypeOK, OutTypes
<1>2. NoBatch \in Batches
  BY DEF NoBatch, Batches, Keys
<1>3. CASE UNCHANGED outVars
  BY <1>1, <1>3 DEF outVars, OutTypes
<1>4. ASSUME NEW l \in Loops, NEW t \in Tasks, NEW k \in Keys, Dispatch(l, t, k)
      PROVE  OutTypes'
  <2>1. to_dispatched' \in [Loops -> [Keys -> SUBSET Tasks]]
    BY <1>1, <1>4 DEF Dispatch
  <2>2. to_dispatched_count' \in [Loops -> Int]
    BY <1>1, <1>4 DEF Dispatch
  <2> QED  BY <1>1, <1>4, <2>1, <2>2 DEF Dispatch, OutTypes
<1>5. ASSUME NEW l \in Loops, DeResigerProducer(l) \/ EndProduce(l) \/ Trim(l)
      PROVE  OutTypes'
  <2>1. NonEmpty(l) \subseteq Keys
    BY DEF NonEmpty
  <2> QED  BY <1>1, <1>5, <2>1 DEF DeResigerProducer, EndProduce, Trim, OutTypes
<1>6. ASSUME NEW l \in Loops, DeRegister(l)
      PROVE  OutTypes'
  <2>1. batch' \in [Loops -> Batches]
    BY <1>1, <1>6, DeRegisterEffect
  <2> QED  BY <1>1, <1>6, <2>1, DeRegisterEffect DEF OutTypes
<1>7. ASSUME NEW l \in Loops, EnqueueAll(l) \/ EnqueueToAny(l)
      PROVE  OutTypes'
  <2>1. batch' \in [Loops -> Batches]
    BY <1>1, <1>7, OfferEffect
  <2> QED  BY <1>1, <1>7, <2>1, OfferEffect DEF OutTypes
<1>8. ASSUME NEW l \in Loops, SinglesDone(l) \/ PutRefused(l)
      PROVE  OutTypes'
  BY <1>1, <1>2, <1>8 DEF SinglesDone, PutRefused, OutTypes
<1>9. ASSUME NEW l \in Loops, Notify(l)
      PROVE  OutTypes'
  <2>1. /\ UNCHANGED to_dispatched \/
           to_dispatched' = [to_dispatched EXCEPT ![l][batch[l].from] = @ \ batch[l].tasks]
        /\ UNCHANGED to_dispatched_count \/
           to_dispatched_count' = [to_dispatched_count EXCEPT ![l] = @ - Cardinality(batch[l].tasks)]
        /\ batch' = [batch EXCEPT ![l] = IF @.kind = "one" THEN @ ELSE NoBatch]
        /\ UNCHANGED <<left, flushing>>
    BY <1>9 DEF Notify, DoneWith
  <2>2. Cardinality(batch[l].tasks) \in Nat
    BY FS_CardinalityType DEF Finite
  <2>3. to_dispatched' \in [Loops -> [Keys -> SUBSET Tasks]]
    <3>1. batch[l].from \in Keys
      BY <1>1 DEF Batches
    <3>2. PICK k, b : k = batch[l].from /\ b = batch[l].tasks
      OBVIOUS
    <3>3. CASE to_dispatched' = [to_dispatched EXCEPT ![l][k] = @ \ b]
      BY <1>1, <3>1, <3>2, <3>3
    <3> QED  BY <1>1, <2>1, <3>2, <3>3
  <2>4. to_dispatched_count' \in [Loops -> Int]
    BY <1>1, <2>1, <2>2
  <2> QED  BY <1>1, <1>2, <2>1, <2>3, <2>4 DEF OutTypes
<1> QED
  BY <1>3, <1>4, <1>5, <1>6, <1>7, <1>8, <1>9
  DEF Next, vars, Turn, ResigerProducer, ResigerConsumer, DeResigerConsumer, Return, WaitEvents,
      Put, PutNowhere, Count, Terminated

\* The consumers, the iterator and the lock.
LEMMA IdTypesStep ==
  ASSUME TypeOK, Ids, Finite, [Next]_vars
  PROVE  IdTypes'
<1>1. /\ consumer_ids \in Seq(Loops) /\ known \subseteq Loops /\ lock \in Loops \cup {None}
      /\ consumer_id_itr \in Nat \ {0}
      /\ consumer_ids # <<>> => consumer_id_itr \in DOMAIN consumer_ids
  BY DEF TypeOK, IdTypes
<1>2. CASE UNCHANGED <<consumer_ids, consumer_id_itr, known>> /\ lock' \in Loops \cup {None}
  BY <1>1, <1>2 DEF IdTypes
<1>3. ASSUME NEW l \in Loops, ResigerConsumer(l)
      PROVE  IdTypes'
  <2>1. /\ consumer_ids' = Append(consumer_ids, l) /\ consumer_id_itr' = 1
        /\ known' = known \cup {l} /\ lock' = lock
    BY <1>3 DEF ResigerConsumer
  <2>2. Append(consumer_ids, l) \in Seq(Loops) /\ 1 \in DOMAIN Append(consumer_ids, l)
    BY <1>1
  <2> QED  BY <1>1, <2>1, <2>2 DEF IdTypes
<1>4. ASSUME NEW l \in Loops, DeRegister(l)
      PROVE  IdTypes'
  <2>1. known' = known /\ lock' \in Loops \cup {None}
    BY <1>1, <1>4, DeRegisterEffect
  <2> QED  BY <1>1, <1>4, <2>1, DeRegisterItr DEF IdTypes
<1>5. ASSUME NEW l \in Loops, EnqueueAll(l) \/ EnqueueToAny(l)
      PROVE  IdTypes'
  <2>1. lock' \in Loops \cup {None}
    BY <1>1, <1>5, OfferEffect
  <2> QED  BY <1>1, <1>5, <2>1, OfferEffect DEF IdTypes
<1> QED
  BY <1>1, <1>2, <1>3, <1>4, <1>5
  DEF Next, vars, idVars, Turn, Dispatch, ResigerProducer, DeResigerProducer, DeResigerConsumer,
      Return, WaitEvents, Trim, SinglesDone, Put, PutRefused, PutNowhere, Count, Notify,
      EndProduce, Terminated

\* The consumers' queues.
LEMMA InTypesStep ==
  ASSUME TypeOK, Ids, Finite, [Next]_vars
  PROVE  InTypes'
<1>1. /\ queue \in [Loops -> SUBSET Tasks] /\ remained_items \in [Loops -> Nat]
      /\ event_fd \in [Loops -> BOOLEAN] /\ batch \in [Loops -> Batches]
  BY DEF TypeOK, InTypes, OutTypes
<1>2. CASE UNCHANGED inVars
  BY <1>1, <1>2 DEF inVars, InTypes
<1>3. ASSUME NEW l \in Loops, ResigerConsumer(l)
      PROVE  InTypes'
  BY <1>1, <1>3 DEF ResigerConsumer, InTypes
<1>4. ASSUME NEW l \in Loops, DeResigerConsumer(l) \/ Trim(l)
      PROVE  InTypes'
  <2>1. ConsumeCoroutine(l) \/ UNCHANGED <<queue, remained_items>>
    BY <1>4 DEF DeResigerConsumer, Trim
  <2>2. event_fd' = event_fd
    BY <1>4 DEF DeResigerConsumer, Trim
  <2>3. CASE ConsumeCoroutine(l)
    BY <1>1, <2>2, <2>3, ConsumeEffect DEF InTypes
  <2> QED  BY <1>1, <2>1, <2>2, <2>3 DEF InTypes
<1>5. ASSUME NEW l \in Loops, DeRegister(l)
      PROVE  InTypes'
  BY <1>1, <1>5, DeRegisterEffect DEF InTypes
<1>6. ASSUME NEW l \in Loops, Put(l)
      PROVE  InTypes'
  <2>1. batch[l].tasks \subseteq Tasks
    BY <1>1 DEF Batches
  <2> QED  BY <1>1, <1>6, <2>1 DEF Put, InTypes
<1>7. ASSUME NEW l \in Loops, Count(l)
      PROVE  InTypes'
  <2>1. Cardinality(batch[l].tasks) \in Nat
    BY FS_CardinalityType DEF Finite
  <2>2. batch[l].to \in Registered /\ Registered \subseteq Loops
    BY <1>7 DEF Ids, Putting, Count, At, Registered, TypeOK, IdTypes
  <2>3. remained_items' \in [Loops -> Nat] /\ queue' = queue /\ event_fd' = event_fd
    BY <1>1, <1>7, <2>1, <2>2 DEF Count
  <2> QED  BY <1>1, <2>3 DEF InTypes
<1>8. ASSUME NEW l \in Loops, Notify(l) \/ WaitEvents(l)
      PROVE  InTypes'
  BY <1>1, <1>8 DEF Notify, Wake, WaitEvents, InTypes
<1>9. ASSUME NEW l \in Loops, EnqueueAll(l) \/ EnqueueToAny(l)
      PROVE  UNCHANGED inVars
  BY <1>9 DEF EnqueueAll, EnqueueToAny, Enqueue
<1> QED
  BY <1>2, <1>3, <1>4, <1>5, <1>6, <1>7, <1>8, <1>9
  DEF Next, vars, Turn, Dispatch, ResigerProducer, DeResigerProducer,
      Return, SinglesDone, PutRefused, PutNowhere, EndProduce, Terminated

\* Where coroutines were sent and where they ran.
LEMMA HistTypesStep ==
  ASSUME TypeOK, Ids, Finite, [Next]_vars
  PROVE  HistTypes'
<1>1. /\ target \in [Tasks -> Keys \cup {None}] /\ ran \in [Tasks -> Loops \cup {None}]
      /\ dropped \subseteq Tasks /\ queue \in [Loops -> SUBSET Tasks]
      /\ batch \in [Loops -> Batches]
  BY DEF TypeOK, HistTypes, InTypes, OutTypes
<1>2. CASE UNCHANGED histVars
  BY <1>1, <1>2 DEF histVars, HistTypes
<1>3. ASSUME NEW l \in Loops, NEW t \in Tasks, NEW k \in Keys, Dispatch(l, t, k)
      PROVE  HistTypes'
  BY <1>1, <1>3 DEF Dispatch, HistTypes
<1>4. ASSUME NEW l \in Loops, DeResigerConsumer(l) \/ Trim(l)
      PROVE  HistTypes'
  <2>1. /\ ConsumeCoroutine(l) \/ UNCHANGED ran
        /\ UNCHANGED <<target, dropped>>
    BY <1>4 DEF DeResigerConsumer, Trim
  <2>2. CASE ConsumeCoroutine(l)
    BY <1>1, <2>1, <2>2, ConsumeEffect DEF HistTypes
  <2> QED  BY <1>1, <2>1, <2>2 DEF HistTypes
<1>5. ASSUME NEW l \in Loops, DeRegister(l)
      PROVE  HistTypes'
  <2>1. UNCHANGED <<target, ran>> /\ dropped' \subseteq dropped \cup queue[l]
    BY <1>5, DeRegisterEffect
  <2> QED  BY <1>1, <2>1 DEF HistTypes
<1>6. ASSUME NEW l \in Loops, PutRefused(l)
      PROVE  HistTypes'
  <2>1. batch[l].tasks \subseteq Tasks
    BY <1>1 DEF Batches
  <2> QED  BY <1>1, <1>6, <2>1 DEF PutRefused, HistTypes
<1>7. ASSUME NEW l \in Loops, EnqueueAll(l) \/ EnqueueToAny(l)
      PROVE  UNCHANGED histVars
  BY <1>7 DEF EnqueueAll, EnqueueToAny, Enqueue
<1> QED
  BY <1>2, <1>3, <1>4, <1>5, <1>6, <1>7
  DEF Next, vars, Turn, ResigerProducer, ResigerConsumer, DeResigerProducer, WaitEvents,
      Return, SinglesDone, Put, Count, Notify, PutNowhere, EndProduce, Terminated

\* Coroutines are dispatched one at a time.
LEMMA FiniteStep ==
  ASSUME TypeOK, Ids, Finite, [Next]_vars
  PROVE  Finite'
<1>1. /\ queue \in [Loops -> SUBSET Tasks] /\ batch \in [Loops -> Batches]
      /\ to_dispatched \in [Loops -> [Keys -> SUBSET Tasks]]
  BY DEF TypeOK, InTypes, OutTypes
<1>2. ASSUME NEW A, NEW B, IsFiniteSet(A), IsFiniteSet(B)
      PROVE  IsFiniteSet(A \cup B) /\ IsFiniteSet(A \ B)
  BY <1>2, FS_Union, FS_Difference
<1>3. IsFiniteSet({}) /\ IsFiniteSet(NoBatch.tasks)
  BY FS_EmptySet DEF NoBatch
<1>4. ASSUME NEW l \in Loops
      PROVE  IsFiniteSet(queue'[l])
  <2>1. IsFiniteSet(queue[l])
    BY DEF Finite
  <2>2. CASE UNCHANGED queue
    BY <2>1, <2>2
  <2>3. ASSUME NEW m \in Loops, queue' = [queue EXCEPT ![m] = {}]
        PROVE  IsFiniteSet(queue'[l])
    BY <1>1, <1>3, <2>1, <2>3
  <2>4. ASSUME NEW m \in Loops, NEW r, queue' = [queue EXCEPT ![m] = queue[m] \ r]
        PROVE  IsFiniteSet(queue'[l])
    <3>1. queue'[l] \subseteq queue[l]
      BY <1>1, <2>4
    <3> QED  BY <2>1, <3>1, FS_Subset
  <2>5. ASSUME NEW m \in Loops, DeResigerConsumer(m) \/ Trim(m)
        PROVE  IsFiniteSet(queue'[l])
    <3>1. ConsumeCoroutine(m) \/ UNCHANGED queue
      BY <2>5 DEF DeResigerConsumer, Trim
    <3> QED  BY <2>2, <2>4, <3>1, ConsumeEffect
  <2>6. ASSUME NEW m \in Loops, DeRegister(m)
        PROVE  IsFiniteSet(queue'[l])
    BY <2>4, <2>6, DeRegisterEffect
  <2>7. ASSUME NEW m \in Loops, Put(m)
        PROVE  IsFiniteSet(queue'[l])
    <3>1. IsFiniteSet(queue[l] \cup batch[m].tasks)
      BY <1>2, <2>1 DEF Finite
    <3>2. queue'[l] \subseteq queue[l] \cup batch[m].tasks
      BY <1>1, <2>7 DEF Put
    <3> QED  BY <3>1, <3>2, FS_Subset
  <2>8. ASSUME NEW m \in Loops, EnqueueAll(m) \/ EnqueueToAny(m)
        PROVE  UNCHANGED queue
    BY <2>8 DEF EnqueueAll, EnqueueToAny, Enqueue, inVars
  <2> QED
    BY <2>2, <2>3, <2>5, <2>6, <2>7, <2>8
    DEF Next, vars, inVars, Turn, Dispatch, ResigerProducer, ResigerConsumer, DeResigerProducer,
        WaitEvents, Return, SinglesDone, PutRefused, Count, Notify, PutNowhere, EndProduce,
        Terminated
<1>5. ASSUME NEW l \in Loops
      PROVE  IsFiniteSet(batch'[l].tasks)
  <2>1. IsFiniteSet(batch[l].tasks)
    BY DEF Finite
  <2>2. CASE UNCHANGED batch
    BY <2>1, <2>2
  <2>3. ASSUME NEW m \in Loops, NEW b, batch' = [batch EXCEPT ![m] = b], IsFiniteSet(b.tasks)
        PROVE  IsFiniteSet(batch'[l].tasks)
    BY <1>1, <2>1, <2>3
  <2>4. ASSUME NEW m \in Loops, DeRegister(m)
        PROVE  IsFiniteSet(batch'[l].tasks)
    <3>1. PICK rest \in SUBSET queue[m] :
            UNCHANGED batch \/ \E b \in Batches : batch' = [batch EXCEPT ![m] = b] /\ b.tasks = rest
      BY <2>4, DeRegisterEffect
    <3>2. IsFiniteSet(rest)
      BY FS_Subset DEF Finite
    <3> QED  BY <2>2, <2>3, <3>1, <3>2
  <2>5. ASSUME NEW m \in Loops, EnqueueAll(m) \/ EnqueueToAny(m)
        PROVE  IsFiniteSet(batch'[l].tasks)
    BY <2>2, <2>3, <2>5, OfferEffect
  <2>6. ASSUME NEW m \in Loops, SinglesDone(m) \/ PutRefused(m) \/ Notify(m)
        PROVE  IsFiniteSet(batch'[l].tasks)
    BY <1>1, <1>3, <2>1, <2>6 DEF SinglesDone, PutRefused, Notify
  <2> QED
    BY <2>2, <2>4, <2>5, <2>6
    DEF Next, vars, outVars, Turn, Dispatch, ResigerProducer, ResigerConsumer, DeResigerProducer,
        DeResigerConsumer, WaitEvents, Return, Trim, Put, Count, PutNowhere, EndProduce,
        Terminated
<1>6. ASSUME NEW l \in Loops, NEW k \in Keys
      PROVE  IsFiniteSet(to_dispatched'[l][k])
  <2>1. IsFiniteSet(to_dispatched[l][k])
    BY DEF Finite
  <2>2. CASE UNCHANGED to_dispatched
    BY <2>1, <2>2
  <2>3. ASSUME NEW m \in Loops, NEW t \in Tasks, NEW j \in Keys, Dispatch(m, t, j)
        PROVE  IsFiniteSet(to_dispatched'[l][k])
    <3>1. IsFiniteSet(to_dispatched[l][k] \cup {t})
      BY <1>2, <2>1, FS_Singleton
    <3>2. to_dispatched'[l][k] \subseteq to_dispatched[l][k] \cup {t}
      BY <1>1, <2>3 DEF Dispatch
    <3> QED  BY <3>1, <3>2, FS_Subset
  <2>4. ASSUME NEW m \in Loops, Notify(m)
        PROVE  IsFiniteSet(to_dispatched'[l][k])
    <3>1. to_dispatched'[l][k] \subseteq to_dispatched[l][k]
      BY <1>1, <2>4 DEF Notify, DoneWith
    <3> QED  BY <2>1, <3>1, FS_Subset
  <2> QED
    BY <2>2, <2>3, <2>4
    DEF Next, vars, outVars, Turn, ResigerProducer, ResigerConsumer, DeResigerProducer,
        DeResigerConsumer, WaitEvents, Return, Trim, Put, Count, PutNowhere, EndProduce,
        EnqueueAll, EnqueueToAny, Enqueue, SinglesDone, PutRefused, DeRegister, Terminated
<1> QED  BY <1>4, <1>5, <1>6 DEF Finite

-----------------------------------------------------------------------------
(* The lock.                                                               *)

\* Nobody is inside an enqueue while global_addition_lock_ is free.
LEMMA FreeLock ==
  ASSUME TypeOK, Locked, lock = None
  PROVE  \A l \in Loops : ~Busy(l)
BY DispatcherAssumption DEF Locked, Keys

\* While a loop is inside an enqueue no other is.
LEMMA OneEnqueue ==
  ASSUME TypeOK, Locked, NEW l \in Loops, Busy(l)
  PROVE  \A m \in Loops : Busy(m) => m = l
BY DEF Locked

\* The lock is taken where an enqueue begins and released where it ends.
LEMMA LockedStep ==
  ASSUME TypeOK, Ids, Finite, Locked, [Next]_vars
  PROVE  Locked'
<1>1. pc \in [Loops -> LoopPoints]
  BY DEF TypeOK, LoopTypes
<1>2. CASE UNCHANGED <<pc, lock>>
  BY <1>2 DEF Locked, Busy
<1>3. ASSUME NEW l \in Loops, NEW p, pc' = [pc EXCEPT ![l] = p], lock' = lock,
             p \in {"put", "count", "notify"} => Busy(l)
      PROVE  Locked'
  BY <1>1, <1>3 DEF Locked, Busy
<1>4. ASSUME NEW l \in Loops, pc' = [pc EXCEPT ![l] = "put"], lock = None, lock' = l
      PROVE  Locked'
  BY <1>1, <1>4, FreeLock DEF Locked, Busy
<1>5. ASSUME NEW l \in Loops, Busy(l), lock' = None, NEW p, pc' = [pc EXCEPT ![l] = p],
             p \notin {"put", "count", "notify"}
      PROVE  Locked'
  BY <1>1, <1>5, OneEnqueue DEF Locked, Busy
<1>6. ASSUME NEW l \in Loops, EnqueueAll(l) \/ EnqueueToAny(l)
      PROVE  Locked'
  <2>1. \/ pc' = [pc EXCEPT ![l] = "put"] /\ lock = None /\ lock' = l
        \/ pc' = [pc EXCEPT ![l] = "failed"] /\ lock' = lock
    BY <1>6, OfferEffect
  <2> QED  BY <1>3, <1>4, <2>1
<1>7. ASSUME NEW l \in Loops, DeRegister(l)
      PROVE  Locked'
  <2>1. \/ pc' = [pc EXCEPT ![l] = "put"] /\ lock = None /\ lock' = l
        \/ pc' = [pc EXCEPT ![l] = "run"] /\ lock' = lock
    BY <1>7, DeRegisterEffect
  <2> QED  BY <1>3, <1>4, <2>1
<1>8. ASSUME NEW l \in Loops, PutRefused(l) \/ Notify(l)
      PROVE  Locked'
  <2>1. Busy(l) /\ lock' = None
    BY <1>8 DEF PutRefused, Notify, At, Busy
  <2>2. batch[l].kind \in {"all", "one", "moved"}
    BY DEF TypeOK, OutTypes, Batches
  <2>3. \E p : pc' = [pc EXCEPT ![l] = p] /\ p \notin {"put", "count", "notify"}
    BY <1>8, <2>2 DEF PutRefused, Notify, Goto
  <2> QED  BY <1>5, <2>1, <2>3
<1>9. ASSUME NEW l \in Loops, Put(l) \/ PutNowhere(l) \/ Count(l)
      PROVE  Locked'
  BY <1>3, <1>9 DEF Put, PutNowhere, Count, At, Busy, Goto
<1>10. ASSUME NEW l \in Loops,
              \/ DeResigerProducer(l) \/ DeResigerConsumer(l) \/ Trim(l) \/ SinglesDone(l)
              \/ EndProduce(l) \/ WaitEvents(l)
       PROVE  Locked'
  <2>1. /\ lock' = lock
        /\ UNCHANGED pc \/ \E p : pc' = [pc EXCEPT ![l] = p] /\ p \notin {"put", "count", "notify"}
    BY <1>10 DEF DeResigerProducer, DeResigerConsumer, Trim, SinglesDone, EndProduce, WaitEvents,
                 Goto, AfterTrim
  <2> QED  BY <1>2, <1>3, <2>1
<1> QED
  BY <1>2, <1>6, <1>7, <1>8, <1>9, <1>10
  DEF Next, vars, loopVars, Turn, Dispatch, ResigerProducer, ResigerConsumer, Return, Terminated

\* A leaving consumer leaves nothing in its queue: with the lock free, everything in it
\* was counted.
LEMMA LeavesNothing ==
  ASSUME TypeOK, Finite, Locked, Counted, NEW l \in Loops, NEW rest \in SUBSET queue[l],
         lock = None, Cardinality(rest) = remained_items[l]
  PROVE  rest = queue[l]
<1>1. \A m \in Loops : pc[m] # "count"
  BY FreeLock DEF Busy
<1>2. remained_items[l] = Cardinality(queue[l]) /\ IsFiniteSet(queue[l])
  BY <1>1 DEF Counted, Finite
<1> QED  BY <1>2, FS_Subset

-----------------------------------------------------------------------------
(* Registration.                                                           *)

\* Steps that move one loop, register nobody and touch no batch at "count" or "notify".
LEMMA IdsFrame ==
  ASSUME TypeOK, Ids, NEW l \in Loops, NEW p, pc' = [pc EXCEPT ![l] = p],
         pc[l] # "deregister", p # "deregister",
         p \in {"count", "notify"} \/ (p = "put" /\ batch'[l].kind = "moved")
           => batch'[l].to \in Registered,
         \A m \in Loops \ {l} : batch'[m] = batch[m],
         \A m \in Loops : "CONSUMER" \in event_loop_type'[m] <=> "CONSUMER" \in event_loop_type[m],
         consumer_ids' = consumer_ids,
         \A m \in Loops : m \notin Registered => queue'[m] = {}
  PROVE  Ids'
<1>1. pc \in [Loops -> LoopPoints] /\ Registered' = Registered
  BY DEF TypeOK, LoopTypes, Registered
<1>2. \A m \in Loops \ {l} : pc'[m] = pc[m]
  BY <1>1
<1>3. pc'[l] = p
  BY <1>1
<1>4. \A i, j \in DOMAIN consumer_ids' : consumer_ids'[i] = consumer_ids'[j] => i = j
  BY DEF Ids
<1>5. \A m \in Loops :
        m \in Registered' <=> "CONSUMER" \in event_loop_type'[m] \/ pc'[m] = "deregister"
  BY <1>1, <1>2, <1>3 DEF Ids
<1>6. \A m \in Loops : pc'[m] = "deregister" => "CONSUMER" \notin event_loop_type'[m]
  BY <1>1, <1>2, <1>3 DEF Ids
<1>7. \A m \in Loops : Putting(m)' => batch'[m].to \in Registered'
  BY <1>1, <1>2, <1>3 DEF Ids, Putting
<1>8. \A m \in Loops : m \notin Registered' => queue'[m] = {}
  BY <1>1
<1> QED  BY <1>4, <1>5, <1>6, <1>7, <1>8 DEF Ids

\* consumer_ids_, the loops' roles and the queues agree through every step.
LEMMA IdsStep ==
  ASSUME TypeOK, Ids, Finite, Locked, Counted, [Next]_vars
  PROVE  Ids'
<1>1. /\ pc \in [Loops -> LoopPoints] /\ batch \in [Loops -> Batches]
      /\ event_loop_type \in [Loops -> SUBSET {"PRODUCER", "CONSUMER"}]
      /\ queue \in [Loops -> SUBSET Tasks] /\ consumer_ids \in Seq(Loops)
  BY DEF TypeOK, LoopTypes, OutTypes, InTypes, IdTypes
<1>2. CASE /\ pc' = pc /\ batch' = batch /\ consumer_ids' = consumer_ids /\ queue' = queue
           /\ \A m \in Loops :
                "CONSUMER" \in event_loop_type'[m] <=> "CONSUMER" \in event_loop_type[m]
  BY <1>2 DEF Ids, Registered, Putting
<1>3. ASSUME NEW l \in Loops, DeResigerProducer(l) \/ Trim(l) \/ EndProduce(l) \/ WaitEvents(l)
      PROVE  Ids'
  <2>1. /\ batch' = batch /\ consumer_ids' = consumer_ids /\ pc[l] # "deregister"
        /\ pc' = pc \/ \E p : /\ pc' = [pc EXCEPT ![l] = p]
                              /\ p \notin {"deregister", "put", "count", "notify"}
    BY <1>3 DEF DeResigerProducer, Trim, EndProduce, WaitEvents, Goto, AfterTrim, At, outVars, idVars
  <2>2. \A m \in Loops : "CONSUMER" \in event_loop_type'[m] <=> "CONSUMER" \in event_loop_type[m]
    BY <1>1, <1>3 DEF DeResigerProducer, Trim, EndProduce, WaitEvents
  <2>3. ConsumeCoroutine(l) \/ queue' = queue
    BY <1>3 DEF DeResigerProducer, Trim, EndProduce, WaitEvents, inVars
  <2>4. \A m \in Loops : queue'[m] \subseteq queue[m]
    BY <1>1, <2>3, ConsumeEffect
  <2>5. \A m \in Loops : m \notin Registered => queue'[m] = {}
    BY <2>4 DEF Ids
  <2>6. CASE \E p : pc' = [pc EXCEPT ![l] = p] /\ p \notin {"deregister", "put", "count", "notify"}
    BY <2>1, <2>2, <2>5, <2>6, IdsFrame
  <2>7. CASE pc' = pc
    <3>1. pc' = [pc EXCEPT ![l] = pc[l]]
      BY <1>1, <2>7
    <3>2. pc[l] \in {"count", "notify"} \/ (pc[l] = "put" /\ batch'[l].kind = "moved")
            => batch'[l].to \in Registered
      BY <2>1 DEF Ids, Putting
    <3> QED  BY <2>1, <2>2, <2>5, <3>1, <3>2, IdsFrame
  <2> QED  BY <2>1, <2>6, <2>7
<1>4. ASSUME NEW l \in Loops, EnqueueAll(l) \/ EnqueueToAny(l)
      PROVE  Ids'
  <2>1. /\ pc[l] # "deregister" /\ consumer_ids' = consumer_ids
        /\ event_loop_type' = event_loop_type /\ queue' = queue
        /\ pc' = [pc EXCEPT ![l] = "put"] \/ pc' = [pc EXCEPT ![l] = "failed"]
    BY <1>4, OfferEffect
  <2>2. \A m \in Loops \ {l} : batch'[m] = batch[m]
    BY <1>1, <1>4, OfferEffect
  <2>3. \A m \in Loops : m \notin Registered => queue'[m] = {}
    BY <2>1 DEF Ids
  <2>4. batch'[l].kind # "moved" \/ pc' = [pc EXCEPT ![l] = "failed"]
    BY <1>1, <1>4, OfferEffect
  <2> QED  BY <2>1, <2>2, <2>3, <2>4, IdsFrame
<1>5. ASSUME NEW l \in Loops, SinglesDone(l) \/ PutRefused(l) \/ PutNowhere(l) \/ Notify(l)
      PROVE  Ids'
  <2>1. /\ pc[l] # "deregister" /\ consumer_ids' = consumer_ids
        /\ event_loop_type' = event_loop_type /\ queue' = queue
    BY <1>5 DEF SinglesDone, PutRefused, PutNowhere, Notify, At, idVars, inVars
  <2>2. \A m \in Loops \ {l} : batch'[m] = batch[m]
    BY <1>1, <1>5 DEF SinglesDone, PutRefused, PutNowhere, Notify, outVars
  <2>3. batch[l].kind \in {"all", "one", "moved"}
    BY <1>1 DEF Batches
  <2>4. \E p : pc' = [pc EXCEPT ![l] = p] /\ p \notin {"deregister", "put", "count", "notify"}
    BY <1>5, <2>3 DEF SinglesDone, PutRefused, PutNowhere, Notify, Goto
  <2>5. \A m \in Loops : m \notin Registered => queue'[m] = {}
    BY <2>1 DEF Ids
  <2> QED  BY <2>1, <2>2, <2>4, <2>5, IdsFrame
<1>6. ASSUME NEW l \in Loops, Put(l)
      PROVE  Ids'
  <2>1. /\ pc[l] # "deregister" /\ consumer_ids' = consumer_ids /\ batch' = batch
        /\ event_loop_type' = event_loop_type /\ pc' = [pc EXCEPT ![l] = "count"]
        /\ batch[l].to \in Registered
    BY <1>6 DEF Put, At, Goto, outVars, idVars
  <2>2. \A m \in Loops : m \notin Registered => queue'[m] = {}
    BY <1>1, <1>6, <2>1 DEF Put, Ids
  <2> QED  BY <2>1, <2>2, IdsFrame
<1>7. ASSUME NEW l \in Loops, Count(l)
      PROVE  Ids'
  <2>1. /\ pc[l] = "count" /\ consumer_ids' = consumer_ids /\ batch' = batch /\ queue' = queue
        /\ event_loop_type' = event_loop_type /\ pc' = [pc EXCEPT ![l] = "notify"]
    BY <1>7 DEF Count, At, Goto, outVars, idVars
  <2>2. batch[l].to \in Registered /\ \A m \in Loops : m \notin Registered => queue'[m] = {}
    BY <2>1 DEF Ids, Putting
  <2> QED  BY <2>1, <2>2, IdsFrame
<1>8. ASSUME NEW l \in Loops, ResigerConsumer(l)
      PROVE  Ids'
  <2>1. /\ pc[l] = "run" /\ pc' = pc /\ batch' = batch /\ consumer_ids' = Append(consumer_ids, l)
        /\ queue' = [queue EXCEPT ![l] = {}] /\ "CONSUMER" \notin event_loop_type[l]
        /\ event_loop_type' = [event_loop_type EXCEPT ![l] = @ \cup {"CONSUMER"}]
    BY <1>8 DEF ResigerConsumer, At, outVars
  <2>2. l \notin Registered
    BY <2>1 DEF Ids
  <2>3. /\ Registered' = Registered \cup {l}
        /\ \A i, j \in DOMAIN consumer_ids' : consumer_ids'[i] = consumer_ids'[j] => i = j
    <3>1. PICK q, n : q = consumer_ids /\ n = Len(q)
      OBVIOUS
    <3>2. /\ q \in Seq(Loops) /\ n \in Nat /\ DOMAIN q = 1 .. n
          /\ \A i, j \in 1 .. n : q[i] = q[j] => i = j
          /\ \A i \in 1 .. n : q[i] # l
      <4>1. q \in Seq(Loops) /\ n \in Nat /\ DOMAIN q = 1 .. n
        BY <1>1, <3>1
      <4>2. \A i, j \in DOMAIN q : q[i] = q[j] => i = j
        BY <3>1 DEF Ids
      <4>3. \A i \in DOMAIN q : q[i] # l
        BY <2>2, <3>1 DEF Registered
      <4> QED  BY <4>1, <4>2, <4>3
    <3>3. /\ DOMAIN Append(q, l) = 1 .. n + 1 /\ Append(q, l)[n + 1] = l
          /\ \A i \in 1 .. n : Append(q, l)[i] = q[i]
      BY <3>1, <3>2
    <3>4. \A i \in 1 .. n + 1 : i \in 1 .. n \/ i = n + 1
      BY <3>2
    <3>5. n + 1 \in 1 .. n + 1 /\ \A i \in 1 .. n : i \in 1 .. n + 1
      BY <3>2
    <3>6. {Append(q, l)[i] : i \in DOMAIN Append(q, l)} = {q[i] : i \in DOMAIN q} \cup {l}
      BY <3>2, <3>3, <3>4, <3>5
    <3>7. \A i, j \in DOMAIN Append(q, l) : Append(q, l)[i] = Append(q, l)[j] => i = j
      BY <3>2, <3>3, <3>4, <3>5
    <3> QED  BY <2>1, <3>1, <3>6, <3>7 DEF Registered
  <2>4. \A m \in Loops :
          m \in Registered' <=> "CONSUMER" \in event_loop_type'[m] \/ pc'[m] = "deregister"
    BY <1>1, <2>1, <2>3 DEF Ids
  <2>5. \A m \in Loops : pc'[m] = "deregister" => "CONSUMER" \notin event_loop_type'[m]
    BY <1>1, <2>1 DEF Ids
  <2>6. /\ \A m \in Loops : Putting(m)' => batch'[m].to \in Registered'
        /\ \A m \in Loops : m \notin Registered' => queue'[m] = {}
    BY <1>1, <2>1, <2>3 DEF Ids, Putting
  <2> QED  BY <2>3, <2>4, <2>5, <2>6 DEF Ids
<1>9. ASSUME NEW l \in Loops, DeResigerConsumer(l)
      PROVE  Ids'
  <2>1. /\ pc[l] = "run" /\ pc' = [pc EXCEPT ![l] = "deregister"] /\ batch' = batch
        /\ consumer_ids' = consumer_ids /\ "CONSUMER" \in event_loop_type[l]
        /\ event_loop_type' = [event_loop_type EXCEPT ![l] = @ \ {"CONSUMER"}]
        /\ ConsumeCoroutine(l)
    BY <1>9 DEF DeResigerConsumer, At, Goto, outVars, idVars
  <2>2. \A m \in Loops : queue'[m] \subseteq queue[m]
    BY <1>1, <2>1, ConsumeEffect
  <2>3. Registered' = Registered
    BY <2>1 DEF Registered
  <2>4. \A m \in Loops :
          m \in Registered' <=> "CONSUMER" \in event_loop_type'[m] \/ pc'[m] = "deregister"
    BY <1>1, <2>1, <2>3 DEF Ids
  <2>5. \A m \in Loops : pc'[m] = "deregister" => "CONSUMER" \notin event_loop_type'[m]
    BY <1>1, <2>1 DEF Ids
  <2>6. \A m \in Loops : Putting(m)' => batch'[m].to \in Registered'
    BY <1>1, <2>1, <2>3 DEF Ids, Putting
  <2>7. \A m \in Loops : m \notin Registered' => queue'[m] = {}
    BY <2>2, <2>3 DEF Ids
  <2> QED  BY <2>1, <2>4, <2>5, <2>6, <2>7 DEF Ids
<1>10. ASSUME NEW l \in Loops, DeRegister(l)
       PROVE  Ids'
  <2>1. /\ pc[l] = "deregister" /\ lock = None /\ event_loop_type' = event_loop_type
        /\ pc' = [pc EXCEPT ![l] = "put"] \/ pc' = [pc EXCEPT ![l] = "run"]
        /\ consumer_ids' = Erased(l) /\ l \in Registered
    BY <1>10, DeRegisterEffect, DeRegisterItr, LeavingIsRegistered
  <2>2. /\ Registered' = Registered \ {l}
        /\ \A i, j \in DOMAIN consumer_ids' : consumer_ids'[i] = consumer_ids'[j] => i = j
    BY <2>1, ErasedSet DEF Registered
  <2>3. \A m \in Loops : pc[m] \notin {"put", "count", "notify"}
    BY <2>1, FreeLock DEF Busy
  <2>4. /\ queue'[l] = {}
        /\ \A m \in Loops \ {l} : queue'[m] = queue[m]
    <3>1. PICK rest \in SUBSET queue[l] : /\ Cardinality(rest) = remained_items[l]
                                          /\ queue' = [queue EXCEPT ![l] = queue[l] \ rest]
      BY <1>10, DeRegisterEffect
    <3>2. rest = queue[l]
      BY <2>1, <3>1, LeavesNothing
    <3> QED  BY <1>1, <3>1, <3>2
  <2>5. \A m \in Loops :
          m \in Registered' <=> "CONSUMER" \in event_loop_type'[m] \/ pc'[m] = "deregister"
    BY <1>1, <2>1, <2>2 DEF Ids
  <2>6. \A m \in Loops : pc'[m] = "deregister" => "CONSUMER" \notin event_loop_type'[m]
    BY <1>1, <2>1 DEF Ids
  <2>7. ASSUME NEW m \in Loops, Putting(m)'
        PROVE  batch'[m].to \in Registered'
    <3>1. m = l /\ pc' = [pc EXCEPT ![l] = "put"]
      BY <1>1, <2>1, <2>3, <2>7 DEF Putting
    <3>2. pc' # [pc EXCEPT ![l] = "run"]
      BY <1>1, <3>1
    <3>3. \E b \in Batches : batch' = [batch EXCEPT ![l] = b] /\ b.to \in Registered \ {l}
      BY <1>10, <3>2, DeRegisterEffect
    <3> QED  BY <1>1, <2>2, <3>1, <3>3
  <2>8. \A m \in Loops : m \notin Registered' => queue'[m] = {}
    BY <2>2, <2>4 DEF Ids
  <2> QED  BY <2>2, <2>5, <2>6, <2>7, <2>8 DEF Ids
<1>11. ASSUME NEW l \in Loops, ResigerProducer(l)
       PROVE  Ids'
  BY <1>1, <1>2, <1>11 DEF ResigerProducer, outVars, idVars, inVars
<1> QED
  BY <1>2, <1>3, <1>4, <1>5, <1>6, <1>7, <1>8, <1>9, <1>10, <1>11
  DEF Next, vars, loopVars, outVars, idVars, inVars, Turn, Dispatch, Return, Terminated

\* A producer's list changes under its enqueue only when the enqueue is done.
LEMMA OfferedStep ==
  ASSUME TypeOK, Ids, Finite, Locked, Offered, [Next]_vars
  PROVE  Offered'
<1>1. /\ pc \in [Loops -> LoopPoints] /\ batch \in [Loops -> Batches]
      /\ to_dispatched \in [Loops -> [Keys -> SUBSET Tasks]]
  BY DEF TypeOK, LoopTypes, OutTypes
<1>2. ASSUME NEW l \in Loops, \A m \in Loops \ {l} : /\ pc'[m] = pc[m] /\ batch'[m] = batch[m]
                                                   /\ to_dispatched'[m] = to_dispatched[m],
             \/ pc'[l] \notin {"put", "count", "notify"}
             \/ /\ pc[l] \in {"put", "count", "notify"} /\ batch'[l] = batch[l]
                /\ to_dispatched'[l] = to_dispatched[l]
             \/ batch'[l].kind = "moved"
             \/ batch'[l].tasks \subseteq to_dispatched'[l][batch'[l].from]
      PROVE  Offered'
  BY <1>2 DEF Offered, Busy
<1>3. ASSUME NEW l \in Loops, NEW t \in Tasks, NEW k \in Keys, Dispatch(l, t, k)
      PROVE  Offered'
  <2>1. pc[l] = "run" /\ pc' = pc /\ batch' = batch
    BY <1>3 DEF Dispatch, At, loopVars
  <2>2. \A m \in Loops \ {l} : to_dispatched'[m] = to_dispatched[m]
    BY <1>1, <1>3 DEF Dispatch
  <2> QED  BY <1>2, <2>1, <2>2
<1>4. ASSUME NEW l \in Loops, EnqueueAll(l) \/ EnqueueToAny(l)
      PROVE  Offered'
  <2>1. \A m \in Loops \ {l} : pc'[m] = pc[m]
    BY <1>1, <1>4, OfferEffect
  <2>2. \A m \in Loops \ {l} : batch'[m] = batch[m]
    BY <1>1, <1>4, OfferEffect
  <2>3. /\ to_dispatched' = to_dispatched
        /\ \/ pc'[l] = "failed"
           \/ batch'[l].tasks \subseteq to_dispatched[l][batch'[l].from]
    BY <1>1, <1>4, OfferEffect
  <2> QED  BY <1>2, <2>1, <2>2, <2>3
<1>5. ASSUME NEW l \in Loops, DeRegister(l)
      PROVE  Offered'
  <2>1. \A m \in Loops \ {l} : pc'[m] = pc[m] /\ batch'[m] = batch[m]
    BY <1>1, <1>5, DeRegisterEffect
  <2>2. to_dispatched' = to_dispatched /\ (pc'[l] = "run" \/ batch'[l].kind = "moved")
    BY <1>1, <1>5, DeRegisterEffect
  <2> QED  BY <1>2, <2>1, <2>2
<1>6. ASSUME NEW l \in Loops, SinglesDone(l) \/ PutRefused(l) \/ Notify(l)
      PROVE  Offered'
  <2>1. \A m \in Loops \ {l} : pc'[m] = pc[m] /\ batch'[m] = batch[m]
    BY <1>1, <1>6 DEF SinglesDone, PutRefused, Notify, Goto
  <2>2. \A m \in Loops \ {l} : to_dispatched'[m] = to_dispatched[m]
    BY <1>1, <1>6 DEF SinglesDone, PutRefused, Notify, DoneWith
  <2>3. batch[l].kind \in {"all", "one", "moved"}
    BY <1>1 DEF Batches
  <2>4. pc'[l] \notin {"put", "count", "notify"}
    BY <1>1, <1>6, <2>3 DEF SinglesDone, PutRefused, Notify, Goto
  <2> QED  BY <1>2, <2>1, <2>2, <2>4
<1>7. ASSUME NEW l \in Loops, Put(l) \/ Count(l) \/ PutNowhere(l)
      PROVE  Offered'
  <2>1. /\ pc[l] \in {"put", "count", "notify"} /\ batch' = batch /\ to_dispatched' = to_dispatched
        /\ \A m \in Loops \ {l} : pc'[m] = pc[m]
    BY <1>1, <1>7 DEF Put, Count, PutNowhere, At, Goto, outVars
  <2> QED  BY <1>2, <2>1
<1>8. ASSUME NEW l \in Loops,
             \/ DeResigerProducer(l) \/ DeResigerConsumer(l) \/ Trim(l)
             \/ EndProduce(l) \/ WaitEvents(l)
      PROVE  Offered'
  <2>1. /\ batch' = batch /\ to_dispatched' = to_dispatched
        /\ pc'[l] \notin {"put", "count", "notify"} /\ \A m \in Loops \ {l} : pc'[m] = pc[m]
    BY <1>1, <1>8 DEF DeResigerProducer, DeResigerConsumer, Trim, EndProduce, WaitEvents, AfterTrim,
                      At, Goto, outVars
  <2> QED  BY <1>2, <2>1
<1>9. CASE UNCHANGED <<pc, batch, to_dispatched>>
  BY <1>9 DEF Offered, Busy
<1> QED
  BY <1>3, <1>4, <1>5, <1>6, <1>7, <1>8, <1>9
  DEF Next, vars, loopVars, outVars, Turn, ResigerProducer, ResigerConsumer, Return, Terminated

-----------------------------------------------------------------------------
(* Where a coroutine is.                                                   *)

\* A step that leaves a task's places alone keeps its home.
LEMMA HomeFrame ==
  ASSUME NEW t \in Tasks, Home(t),
         \A l \in Loops, k \in Keys : t \in to_dispatched'[l][k] <=> t \in to_dispatched[l][k],
         \A l \in Loops : t \in queue'[l] <=> t \in queue[l],
         Held(t)' <=> Held(t), Moved(t)' <=> Moved(t), Moving(t)' <=> Moving(t),
         ran'[t] = ran[t], t \in dropped' <=> t \in dropped, target'[t] = target[t]
  PROVE  Home(t)'
<1>1. Listed(t)' <=> Listed(t)
  BY DEF Listed
<1>2. Queued(t)' <=> Queued(t)
  BY DEF Queued
<1>3. Ran(t)' <=> Ran(t)
  BY DEF Ran
<1>4. /\ \A l, m \in Loops, k, j \in Keys :
           t \in to_dispatched'[l][k] /\ t \in to_dispatched'[m][j] => l = m /\ k = j
      /\ \A l, m \in Loops : t \in queue'[l] /\ t \in queue'[m] => l = m
  BY DEF Home
<1> QED  BY <1>1, <1>2, <1>3, <1>4 DEF Home

\* A loop that is in no enqueue before and after its step moves nothing.
LEMMA Outside ==
  ASSUME NEW l \in Loops, NEW t, ~Busy(l), pc'[l] \notin {"put", "count", "notify"},
         \A m \in Loops \ {l} : pc'[m] = pc[m] /\ batch'[m] = batch[m]
  PROVE  (Held(t)' <=> Held(t)) /\ (Moved(t)' <=> Moved(t)) /\ (Moving(t)' <=> Moving(t))
<1>1. ASSUME NEW m \in Loops
      PROVE  /\ Busy(m)' <=> Busy(m)
             /\ Busy(m) => pc'[m] = pc[m] /\ batch'[m] = batch[m]
  BY DEF Busy
<1>2. Held(t)' <=> Held(t)
  BY <1>1 DEF Held, Busy
<1>3. Moved(t)' <=> Moved(t)
  BY <1>1 DEF Moved, Busy
<1>4. Moving(t)' <=> Moving(t)
  BY <1>1 DEF Moving, Busy
<1> QED  BY <1>2, <1>3, <1>4

\* While only one loop may be inside an enqueue, the others hold nothing.
LEMMA OnlyOne ==
  ASSUME NEW l \in Loops, NEW t, \A m \in Loops \ {l} : ~Busy(m) /\ pc'[m] = pc[m]
  PROVE  /\ Held(t) <=> pc[l] \in {"count", "notify"} /\ t \in batch[l].tasks
         /\ Moved(t) <=> Busy(l) /\ batch[l].kind = "moved" /\ t \in batch[l].tasks
         /\ Moving(t) <=> pc[l] = "put" /\ batch[l].kind = "moved" /\ t \in batch[l].tasks
         /\ Held(t)' <=> pc'[l] \in {"count", "notify"} /\ t \in batch'[l].tasks
         /\ Moved(t)' <=> Busy(l)' /\ batch'[l].kind = "moved" /\ t \in batch'[l].tasks
         /\ Moving(t)' <=> pc'[l] = "put" /\ batch'[l].kind = "moved" /\ t \in batch'[l].tasks
<1>1. \A m \in Loops \ {l} : ~Busy(m)'
  BY DEF Busy
<1>2. /\ Held(t) <=> pc[l] \in {"count", "notify"} /\ t \in batch[l].tasks
      /\ Held(t)' <=> pc'[l] \in {"count", "notify"} /\ t \in batch'[l].tasks
  BY <1>1 DEF Held, Busy
<1>3. /\ Moved(t) <=> Busy(l) /\ batch[l].kind = "moved" /\ t \in batch[l].tasks
      /\ Moved(t)' <=> Busy(l)' /\ batch'[l].kind = "moved" /\ t \in batch'[l].tasks
  BY <1>1 DEF Moved
<1>4. /\ Moving(t) <=> pc[l] = "put" /\ batch[l].kind = "moved" /\ t \in batch[l].tasks
      /\ Moving(t)' <=> pc'[l] = "put" /\ batch'[l].kind = "moved" /\ t \in batch'[l].tasks
  BY <1>1 DEF Moving, Busy
<1> QED  BY <1>2, <1>3, <1>4

\* What is offered is in the list or on its way, and nowhere else.
LEMMA OfferedIsNowhere ==
  ASSUME TypeOK, Locked, Offered, Homes, NEW l \in Loops, pc[l] = "put",
         NEW t \in Tasks, t \in batch[l].tasks
  PROVE  /\ ~Queued(t) /\ ~Ran(t) /\ t \notin dropped
         /\ Listed(t) \/ Moving(t)
<1>1. Home(t) /\ Busy(l) /\ batch[l].from \in Keys
  BY DEF Homes, Busy, TypeOK, OutTypes, Batches
<1>2. CASE batch[l].kind = "moved"
  <2>1. Moving(t)
    BY <1>2 DEF Moving
  <2> QED  BY <1>1, <2>1 DEF Home
<1>3. CASE batch[l].kind # "moved"
  <2>1. Listed(t)
    BY <1>1, <1>3 DEF Offered, Listed
  <2>2. ~Held(t)
    BY <1>1, OneEnqueue DEF Held, Busy
  <2> QED  BY <1>1, <2>1, <2>2 DEF Home
<1> QED  BY <1>2, <1>3

\* Dispatch gives a coroutine its first place.
LEMMA HomeDispatch ==
  ASSUME TypeOK, Homes, NEW l \in Loops, NEW u \in Tasks, NEW k \in Keys, Dispatch(l, u, k),
         NEW t \in Tasks
  PROVE  Home(t)'
<1>1. /\ to_dispatched \in [Loops -> [Keys -> SUBSET Tasks]] /\ target \in [Tasks -> Keys \cup {None}]
  BY DEF TypeOK, OutTypes, HistTypes
<1>2. /\ pc' = pc /\ batch' = batch /\ queue' = queue /\ ran' = ran /\ dropped' = dropped
      /\ target[u] = None /\ target' = [target EXCEPT ![u] = k]
      /\ to_dispatched' = [to_dispatched EXCEPT ![l][k] = @ \cup {u}]
  BY DEF Dispatch, loopVars, inVars
<1>3. (Held(t)' <=> Held(t)) /\ (Moved(t)' <=> Moved(t)) /\ (Moving(t)' <=> Moving(t))
  BY <1>2 DEF Held, Moved, Moving, Busy
<1>4. Home(t)
  BY DEF Homes
<1>5. CASE t # u
  <2>1. \A m \in Loops, j \in Keys : t \in to_dispatched'[m][j] <=> t \in to_dispatched[m][j]
    BY <1>1, <1>2, <1>5
  <2>2. target'[t] = target[t]
    BY <1>1, <1>2, <1>5
  <2> QED  BY <1>2, <1>3, <1>4, <2>1, <2>2, HomeFrame
<1>6. CASE t = u
  <2>1. ~Listed(t) /\ ~Moving(t) /\ ~Queued(t) /\ ~Ran(t) /\ t \notin dropped
    BY <1>2, <1>4, <1>6 DEF Home
  <2>2. ~Held(t)
    BY <1>4, <2>1 DEF Home
  <2>3. ~Moved(t)
    BY <2>1, <2>2 DEF Moved, Moving, Held, Busy
  <2>4. \A m \in Loops, j \in Keys : t \in to_dispatched'[m][j] <=> m = l /\ j = k
    BY <1>1, <1>2, <1>6, <2>1 DEF Listed
  <2>5. Listed(t)'
    BY <2>4 DEF Listed
  <2>6. ~Queued(t)' /\ ~Ran(t)' /\ t \notin dropped'
    BY <1>2, <2>1 DEF Queued, Ran
  <2>7. target'[t] # None
    BY <1>1, <1>2, <1>6, DispatcherAssumption
  <2>8. \A m, n \in Loops, j, i \in Keys :
          t \in to_dispatched'[m][j] /\ t \in to_dispatched'[n][i] => m = n /\ j = i
    BY <2>4
  <2>9. \A m, n \in Loops : t \in queue'[m] /\ t \in queue'[n] => m = n
    BY <1>2, <1>4 DEF Home
  <2> QED  BY <1>3, <2>1, <2>2, <2>3, <2>5, <2>6, <2>7, <2>8, <2>9 DEF Home
<1> QED  BY <1>5, <1>6

\* A consumer takes a coroutine from its queue and resumes it.
LEMMA HomeConsume ==
  ASSUME TypeOK, Homes, NEW l \in Loops, NEW some \in SUBSET queue[l],
         queue' = [queue EXCEPT ![l] = queue[l] \ some],
         ran' = [t \in Tasks |-> IF t \in some THEN l ELSE ran[t]],
         ~Busy(l), pc'[l] \notin {"put", "count", "notify"},
         \A m \in Loops \ {l} : pc'[m] = pc[m], batch' = batch,
         to_dispatched' = to_dispatched, target' = target, dropped' = dropped,
         NEW t \in Tasks
  PROVE  Home(t)'
<1>1. queue \in [Loops -> SUBSET Tasks]
  BY DEF TypeOK, InTypes
<1>2. (Held(t)' <=> Held(t)) /\ (Moved(t)' <=> Moved(t)) /\ (Moving(t)' <=> Moving(t))
  BY Outside
<1>3. Home(t)
  BY DEF Homes
<1>4. CASE t \notin some
  <2>1. ran'[t] = ran[t] /\ \A m \in Loops : t \in queue'[m] <=> t \in queue[m]
    BY <1>1, <1>4
  <2> QED  BY <1>2, <1>3, <2>1, HomeFrame
<1>5. CASE t \in some
  <2>1. Queued(t) /\ t \in queue[l]
    BY <1>5 DEF Queued
  <2>2. ~Queued(t)'
    BY <1>1, <1>3, <1>5, <2>1 DEF Queued, Home
  <2>3. Ran(t)'
    BY <1>5, DispatcherAssumption DEF Ran, Keys
  <2>4. Listed(t)' <=> Listed(t)
    BY DEF Listed
  <2>5. \A m, n \in Loops, j, i \in Keys :
          t \in to_dispatched'[m][j] /\ t \in to_dispatched'[n][i] => m = n /\ j = i
    BY <1>3 DEF Home
  <2>6. \A m, n \in Loops : t \in queue'[m] /\ t \in queue'[n] => m = n
    BY <2>2 DEF Queued
  <2> QED  BY <1>2, <1>3, <2>1, <2>2, <2>3, <2>4, <2>5, <2>6 DEF Home
<1> QED  BY <1>4, <1>5

\* DeRegister hands everything in the queue on, or drops it.
LEMMA HomeDeRegister ==
  ASSUME TypeOK, Ids, Finite, Locked, Counted, Homes, NEW l \in Loops, DeRegister(l),
         NEW t \in Tasks
  PROVE  Home(t)'
<1>1. /\ queue \in [Loops -> SUBSET Tasks] /\ pc \in [Loops -> LoopPoints]
      /\ batch \in [Loops -> Batches]
  BY DEF TypeOK, InTypes, LoopTypes, OutTypes
<1>2. /\ pc[l] = "deregister" /\ lock = None /\ to_dispatched' = to_dispatched
      /\ target' = target /\ ran' = ran
  BY DeRegisterEffect
<1>3. PICK rest \in SUBSET queue[l] :
        /\ Cardinality(rest) = remained_items[l]
        /\ queue' = [queue EXCEPT ![l] = queue[l] \ rest]
        /\ \/ /\ pc' = [pc EXCEPT ![l] = "put"] /\ lock' = l /\ dropped' = dropped
              /\ \E b \in Batches :
                   /\ batch' = [batch EXCEPT ![l] = b]
                   /\ b.tasks = rest /\ b.to \in Registered \ {l} /\ b.kind = "moved"
           \/ /\ pc' = [pc EXCEPT ![l] = "run"] /\ dropped' = dropped \cup rest
              /\ UNCHANGED <<batch, lock>>
  BY DeRegisterEffect, Zenon
<1>4. rest = queue[l]
  BY <1>2, <1>3, LeavesNothing
<1>5. \A m \in Loops : ~Busy(m)
  BY <1>2, FreeLock
<1>6. \A m \in Loops \ {l} : pc'[m] = pc[m]
  BY <1>1, <1>3
<1>7. ~Held(t) /\ ~Moved(t) /\ ~Moving(t)
  BY <1>5 DEF Held, Moved, Moving, Busy
<1>8. ~Held(t)'
  BY <1>1, <1>3, <1>5, <1>6 DEF Held, Busy
<1>9. Home(t) /\ (Listed(t)' <=> Listed(t)) /\ (Ran(t)' <=> Ran(t))
  BY <1>2 DEF Homes, Listed, Ran
<1>10. \A m, n \in Loops, j, i \in Keys :
          t \in to_dispatched'[m][j] /\ t \in to_dispatched'[n][i] => m = n /\ j = i
  BY <1>2, <1>9 DEF Home
<1>11. CASE t \notin rest
  <2>1. \A m \in Loops : t \in queue'[m] <=> t \in queue[m]
    BY <1>1, <1>3, <1>11
  <2>2. t \in dropped' <=> t \in dropped
    BY <1>3, <1>11
  <2>3. pc'[l] = "put" => t \notin batch'[l].tasks
    BY <1>1, <1>3, <1>11
  <2>4. pc'[l] \in {"put", "run"}
    BY <1>1, <1>3
  <2>5. ~Moved(t)' /\ ~Moving(t)'
    BY <1>5, <1>6, <2>3, <2>4, OnlyOne DEF Busy
  <2> QED  BY <1>2, <1>7, <1>8, <1>9, <2>1, <2>2, <2>5, HomeFrame
<1>12. CASE t \in rest
  <2>1. Queued(t) /\ ~Queued(t)'
    BY <1>1, <1>3, <1>4, <1>9, <1>12 DEF Queued, Home
  <2>2. ~Listed(t) /\ ~Ran(t) /\ t \notin dropped
    BY <1>7, <1>9, <2>1 DEF Home
  <2>3. (Moving(t)' /\ t \notin dropped') \/ (~Moved(t)' /\ ~Moving(t)' /\ t \in dropped')
    <3>1. CASE pc' = [pc EXCEPT ![l] = "put"]
      <4>1. pc'[l] = "put" /\ pc' # [pc EXCEPT ![l] = "run"]
        BY <1>1, <3>1
      <4>2. batch'[l].kind = "moved" /\ batch'[l].tasks = rest /\ dropped' = dropped
        BY <1>1, <1>3, <4>1
      <4> QED  BY <1>12, <2>2, <4>1, <4>2 DEF Moving
    <3>2. CASE pc' = [pc EXCEPT ![l] = "run"]
      <4>1. pc'[l] = "run" /\ pc' # [pc EXCEPT ![l] = "put"]
        BY <1>1, <3>2
      <4>2. t \in dropped'
        BY <1>3, <1>12, <4>1
      <4> QED  BY <1>5, <1>6, <4>1, <4>2, OnlyOne DEF Busy
    <3> QED  BY <1>3, <3>1, <3>2
  <2>4. target[t] # None
    BY <1>9, <2>1 DEF Home
  <2>5. \A m, n \in Loops : t \in queue'[m] /\ t \in queue'[n] => m = n
    BY <2>1 DEF Queued
  <2> QED  BY <1>2, <1>8, <1>9, <1>10, <2>1, <2>2, <2>3, <2>4, <2>5 DEF Home
<1> QED  BY <1>11, <1>12

\* An enqueue begins: nothing has moved yet.
LEMMA HomeOffer ==
  ASSUME TypeOK, Finite, Locked, Homes, NEW l \in Loops, EnqueueAll(l) \/ EnqueueToAny(l),
         NEW t \in Tasks
  PROVE  Home(t)'
<1>1. pc \in [Loops -> LoopPoints] /\ batch \in [Loops -> Batches] /\ Home(t)
  BY DEF TypeOK, LoopTypes, OutTypes, Homes
<1>2. /\ lock = None /\ to_dispatched' = to_dispatched /\ queue' = queue /\ ran' = ran
      /\ dropped' = dropped /\ target' = target
  BY OfferEffect
<1>3. \A m \in Loops : ~Busy(m)
  BY <1>2, FreeLock
<1>4. \A m \in Loops \ {l} : pc'[m] = pc[m]
  BY <1>1, OfferEffect
<1>5. pc'[l] = "failed" \/ (pc'[l] = "put" /\ batch'[l].kind # "moved")
  BY <1>1, OfferEffect
<1>6. ~Held(t) /\ ~Moved(t) /\ ~Moving(t) /\ ~Held(t)' /\ ~Moved(t)' /\ ~Moving(t)'
  BY <1>3, <1>4, <1>5, OnlyOne DEF Busy
<1> QED  BY <1>1, <1>2, <1>6, HomeFrame

\* An enqueued coroutine is in the queue, while its producer still holds it.
LEMMA HomePut ==
  ASSUME TypeOK, Ids, Finite, Locked, Offered, Homes, NEW l \in Loops, Put(l), NEW t \in Tasks
  PROVE  Home(t)'
<1>1. /\ pc \in [Loops -> LoopPoints] /\ batch \in [Loops -> Batches] /\ Home(t)
      /\ queue \in [Loops -> SUBSET Tasks] /\ Registered \subseteq Loops
  BY DEF TypeOK, LoopTypes, OutTypes, InTypes, IdTypes, Registered, Homes
<1>2. /\ pc[l] = "put" /\ pc' = [pc EXCEPT ![l] = "count"] /\ batch' = batch
      /\ to_dispatched' = to_dispatched /\ ran' = ran /\ dropped' = dropped /\ target' = target
      /\ batch[l].to \in Loops
      /\ queue' = [queue EXCEPT ![batch[l].to] = queue[batch[l].to] \cup batch[l].tasks]
  BY <1>1 DEF Put, At, Goto, outVars, histVars
<1>3. Busy(l) /\ \A m \in Loops \ {l} : ~Busy(m) /\ pc'[m] = pc[m]
  BY <1>1, <1>2, OneEnqueue DEF Busy
<1>4. pc'[l] = "count" /\ Busy(l)'
  BY <1>1, <1>2 DEF Busy
<1>5. CASE t \notin batch[l].tasks
  <2>1. \A m \in Loops : t \in queue'[m] <=> t \in queue[m]
    BY <1>1, <1>2, <1>5
  <2>2. ~Held(t) /\ ~Moved(t) /\ ~Moving(t) /\ ~Held(t)' /\ ~Moved(t)' /\ ~Moving(t)'
    BY <1>2, <1>3, <1>5, OnlyOne
  <2> QED  BY <1>1, <1>2, <2>1, <2>2, HomeFrame
<1>6. CASE t \in batch[l].tasks
  <2>1. ~Queued(t) /\ ~Ran(t) /\ t \notin dropped /\ (Listed(t) \/ Moving(t))
    BY <1>2, <1>6, OfferedIsNowhere
  <2>2. \A m \in Loops : t \in queue'[m] <=> m = batch[l].to
    BY <1>1, <1>2, <1>6, <2>1 DEF Queued
  <2>3. Queued(t)'
    BY <1>2, <2>2 DEF Queued
  <2>4. /\ Held(t)' /\ ~Moving(t)' /\ (Moved(t)' <=> Moved(t))
    BY <1>2, <1>3, <1>4, <1>6, OnlyOne
  <2>5. (Listed(t)' <=> Listed(t)) /\ (Ran(t)' <=> Ran(t))
    BY <1>2 DEF Listed, Ran
  <2>6. \A m, n \in Loops, j, i \in Keys :
          t \in to_dispatched'[m][j] /\ t \in to_dispatched'[n][i] => m = n /\ j = i
    BY <1>1, <1>2 DEF Home
  <2>7. \A m, n \in Loops : t \in queue'[m] /\ t \in queue'[n] => m = n
    BY <2>2
  <2>8. target[t] # None
    BY <1>1, <2>1 DEF Home
  <2> QED  BY <1>1, <1>2, <2>1, <2>3, <2>4, <2>5, <2>6, <2>7, <2>8 DEF Home
<1> QED  BY <1>5, <1>6

\* A refused enqueue changes nothing, unless it was DeRegister's.
LEMMA HomeRefused ==
  ASSUME TypeOK, Ids, Finite, Locked, Offered, Homes, NEW l \in Loops,
         PutRefused(l) \/ PutNowhere(l), NEW t \in Tasks
  PROVE  Home(t)'
<1>1. /\ pc \in [Loops -> LoopPoints] /\ batch \in [Loops -> Batches] /\ Home(t)
      /\ batch[l].kind \in {"all", "one", "moved"}
  BY DEF TypeOK, LoopTypes, OutTypes, Homes, Batches
<1>2. /\ pc[l] = "put" /\ to_dispatched' = to_dispatched /\ queue' = queue
      /\ ran' = ran /\ target' = target
  BY DEF PutRefused, PutNowhere, At, outVars, inVars, histVars
<1>3. \A m \in Loops \ {l} : pc'[m] = pc[m]
  BY <1>1 DEF PutRefused, PutNowhere, Goto
<1>4. pc'[l] \in {"single", "produce", "run", "failed"}
  BY <1>1 DEF PutRefused, PutNowhere, Goto
<1>5. dropped' = IF batch[l].kind = "moved" THEN dropped \cup batch[l].tasks ELSE dropped
  <2>1. CASE PutRefused(l)
    BY <2>1 DEF PutRefused
  <2>2. CASE PutNowhere(l)
    <3>1. batch[l].kind # "moved" /\ dropped' = dropped
      BY <1>2, <2>2 DEF PutNowhere, Ids, Putting, histVars
    <3> QED  BY <3>1
  <2> QED  BY <2>1, <2>2
<1>6. Busy(l) /\ \A m \in Loops \ {l} : ~Busy(m) /\ pc'[m] = pc[m]
  BY <1>2, <1>3, OneEnqueue DEF Busy
<1>7. ~Held(t) /\ ~Held(t)' /\ ~Moved(t)' /\ ~Moving(t)'
  BY <1>2, <1>4, <1>6, OnlyOne DEF Busy
<1>8. CASE batch[l].kind # "moved" \/ t \notin batch[l].tasks
  <2>1. ~Moved(t) /\ ~Moving(t)
    BY <1>6, <1>8, OnlyOne
  <2>2. t \in dropped' <=> t \in dropped
    BY <1>5, <1>8
  <2> QED  BY <1>1, <1>2, <1>7, <2>1, <2>2, HomeFrame
<1>9. CASE batch[l].kind = "moved" /\ t \in batch[l].tasks
  <2>1. Moving(t) /\ Moved(t)
    BY <1>2, <1>6, <1>9, OnlyOne
  <2>2. ~Listed(t) /\ ~Queued(t) /\ ~Ran(t) /\ target[t] # None
    BY <1>1, <2>1 DEF Home
  <2>3. ~Listed(t)' /\ ~Queued(t)' /\ ~Ran(t)' /\ t \in dropped'
    BY <1>2, <1>5, <1>9, <2>2 DEF Listed, Queued, Ran
  <2>4. /\ \A m, n \in Loops, j, i \in Keys :
             t \in to_dispatched'[m][j] /\ t \in to_dispatched'[n][i] => m = n /\ j = i
        /\ \A m, n \in Loops : t \in queue'[m] /\ t \in queue'[n] => m = n
    BY <1>1, <1>2 DEF Home
  <2> QED  BY <1>2, <1>7, <2>2, <2>3, <2>4 DEF Home
<1> QED  BY <1>8, <1>9

\* Counting moves nothing.
LEMMA HomeCount ==
  ASSUME TypeOK, Locked, Homes, NEW l \in Loops, Count(l), NEW t \in Tasks
  PROVE  Home(t)'
<1>1. pc \in [Loops -> LoopPoints] /\ Home(t)
  BY DEF TypeOK, LoopTypes, Homes
<1>2. /\ pc[l] = "count" /\ pc' = [pc EXCEPT ![l] = "notify"] /\ batch' = batch
      /\ to_dispatched' = to_dispatched /\ queue' = queue
      /\ ran' = ran /\ dropped' = dropped /\ target' = target
  BY DEF Count, At, Goto, outVars, histVars
<1>3. Busy(l) /\ \A m \in Loops \ {l} : ~Busy(m) /\ pc'[m] = pc[m]
  BY <1>1, <1>2, OneEnqueue DEF Busy
<1>4. pc'[l] = "notify" /\ Busy(l)'
  BY <1>1, <1>2 DEF Busy
<1>5. (Held(t)' <=> Held(t)) /\ (Moved(t)' <=> Moved(t)) /\ (Moving(t)' <=> Moving(t))
  BY <1>2, <1>3, <1>4, OnlyOne
<1> QED  BY <1>1, <1>2, <1>5, HomeFrame

\* After the wake-up the producer's list forgets what it handed over.
LEMMA HomeNotify ==
  ASSUME TypeOK, Finite, Locked, Offered, Homes, NEW l \in Loops, Notify(l), NEW t \in Tasks
  PROVE  Home(t)'
<1>1. /\ pc \in [Loops -> LoopPoints] /\ batch \in [Loops -> Batches] /\ Home(t)
      /\ to_dispatched \in [Loops -> [Keys -> SUBSET Tasks]] /\ batch[l].from \in Keys
  BY DEF TypeOK, LoopTypes, OutTypes, Homes, Batches
<1>2. /\ pc[l] = "notify" /\ queue' = queue /\ ran' = ran /\ dropped' = dropped
      /\ target' = target
  BY DEF Notify, At, histVars
<1>3. Busy(l) /\ \A m \in Loops \ {l} : ~Busy(m) /\ pc'[m] = pc[m]
  BY <1>1, <1>2, OneEnqueue DEF Busy, Notify, Goto
<1>4. pc'[l] \in {"run", "single", "produce"}
  BY <1>1 DEF Notify, Goto
<1>5. ~Held(t)' /\ ~Moved(t)' /\ ~Moving(t)'
  BY <1>3, <1>4, OnlyOne DEF Busy
<1>6. \A m \in Loops, k \in Keys : t \in to_dispatched'[m][k] <=>
        /\ t \in to_dispatched[m][k]
        /\ batch[l].kind # "moved" /\ m = l /\ k = batch[l].from => t \notin batch[l].tasks
  <2>1. PICK f, b : f = batch[l].from /\ b = batch[l].tasks
    OBVIOUS
  <2>2. CASE batch[l].kind = "moved"
    BY <2>2 DEF Notify
  <2>3. CASE batch[l].kind # "moved"
    <3>1. to_dispatched' = [to_dispatched EXCEPT ![l][f] = @ \ b]
      BY <2>1, <2>3 DEF Notify, DoneWith
    <3> QED  BY <1>1, <2>1, <2>3, <3>1
  <2> QED  BY <2>2, <2>3
<1>7. CASE t \notin batch[l].tasks
  <2>1. \A m \in Loops, k \in Keys : t \in to_dispatched'[m][k] <=> t \in to_dispatched[m][k]
    BY <1>6, <1>7
  <2>2. ~Held(t) /\ ~Moved(t) /\ ~Moving(t)
    BY <1>3, <1>7, OnlyOne
  <2> QED  BY <1>1, <1>2, <1>5, <2>1, <2>2, HomeFrame
<1>8. CASE t \in batch[l].tasks
  <2>1. Held(t)
    BY <1>2, <1>8 DEF Held
  <2>2. ~Listed(t)'
    <3>1. CASE batch[l].kind = "moved"
      <4>1. Moved(t)
        BY <1>3, <1>8, <3>1 DEF Moved
      <4>2. ~Listed(t)
        BY <1>1, <4>1 DEF Home
      <4> QED  BY <1>6, <4>2 DEF Listed
    <3>2. CASE batch[l].kind # "moved"
      <4>1. t \in to_dispatched[l][batch[l].from]
        BY <1>3, <1>8, <3>2 DEF Offered
      <4>2. \A m \in Loops, k \in Keys : t \in to_dispatched[m][k] => m = l /\ k = batch[l].from
        BY <1>1, <4>1 DEF Home
      <4> QED  BY <1>6, <1>8, <3>2, <4>2 DEF Listed
    <3> QED  BY <3>1, <3>2
  <2>3. (Queued(t)' <=> Queued(t)) /\ (Ran(t)' <=> Ran(t))
    BY <1>2 DEF Queued, Ran
  <2>4. Queued(t) \/ Ran(t)
    BY <1>1, <2>1 DEF Home
  <2>5. /\ \A m, n \in Loops, j, i \in Keys :
             t \in to_dispatched'[m][j] /\ t \in to_dispatched'[n][i] => m = n /\ j = i
        /\ \A m, n \in Loops : t \in queue'[m] /\ t \in queue'[n] => m = n
    BY <1>1, <1>2, <2>2 DEF Home, Listed
  <2>6. target[t] # None
    BY <1>1, <2>4 DEF Home
  <2> QED  BY <1>1, <1>2, <1>5, <2>2, <2>3, <2>4, <2>5, <2>6 DEF Home
<1> QED  BY <1>7, <1>8

\* Every step keeps every coroutine in one place.
LEMMA HomesStep ==
  ASSUME TypeOK, Ids, Finite, Locked, Offered, Counted, Homes, [Next]_vars
  PROVE  Homes'
<1> SUFFICES ASSUME NEW t \in Tasks
             PROVE  Home(t)'
  BY DEF Homes
<1>1. pc \in [Loops -> LoopPoints] /\ queue \in [Loops -> SUBSET Tasks] /\ Home(t)
      /\ batch \in [Loops -> Batches]
  BY DEF TypeOK, LoopTypes, OutTypes, InTypes, Homes
<1>2. CASE UNCHANGED <<pc, batch, to_dispatched, queue, ran, dropped, target>>
  BY <1>2, <1>1, HomeFrame DEF Held, Moved, Moving, Busy
<1>3. ASSUME NEW l \in Loops, DeResigerConsumer(l) \/ Trim(l)
      PROVE  Home(t)'
  <2>1. /\ ~Busy(l) /\ pc'[l] \notin {"put", "count", "notify"}
        /\ \A m \in Loops \ {l} : pc'[m] = pc[m]
    BY <1>1, <1>3 DEF DeResigerConsumer, Trim, AfterTrim, At, Goto, Busy
  <2>2. /\ batch' = batch /\ to_dispatched' = to_dispatched /\ target' = target
        /\ dropped' = dropped
        /\ ConsumeCoroutine(l) \/ (queue' = queue /\ ran' = ran)
    BY <1>3 DEF DeResigerConsumer, Trim, outVars
  <2>3. CASE ConsumeCoroutine(l)
    <3>1. PICK some \in SUBSET queue[l] :
            /\ queue' = [queue EXCEPT ![l] = queue[l] \ some]
            /\ ran' = [u \in Tasks |-> IF u \in some THEN l ELSE ran[u]]
      BY <2>3, ConsumeEffect
    <3> QED  BY <2>1, <2>2, <3>1, HomeConsume
  <2>4. CASE queue' = queue /\ ran' = ran
    <3>1. (Held(t)' <=> Held(t)) /\ (Moved(t)' <=> Moved(t)) /\ (Moving(t)' <=> Moving(t))
      BY <2>1, <2>2, Outside
    <3> QED  BY <1>1, <2>2, <2>4, <3>1, HomeFrame
  <2> QED  BY <2>2, <2>3, <2>4
<1>4. ASSUME NEW l \in Loops,
             DeResigerProducer(l) \/ SinglesDone(l) \/ EndProduce(l) \/ WaitEvents(l)
      PROVE  Home(t)'
  <2>1. /\ ~Busy(l) /\ pc'[l] \notin {"put", "count", "notify"}
        /\ \A m \in Loops \ {l} : pc'[m] = pc[m] /\ batch'[m] = batch[m]
    BY <1>1, <1>4 DEF DeResigerProducer, SinglesDone, EndProduce, WaitEvents, AfterTrim, At, Goto,
                      Busy, outVars
  <2>2. /\ to_dispatched' = to_dispatched /\ target' = target /\ dropped' = dropped
        /\ queue' = queue /\ ran' = ran
    BY <1>4 DEF DeResigerProducer, SinglesDone, EndProduce, WaitEvents, outVars, inVars, histVars
  <2>3. (Held(t)' <=> Held(t)) /\ (Moved(t)' <=> Moved(t)) /\ (Moving(t)' <=> Moving(t))
    BY <2>1, Outside
  <2> QED  BY <1>1, <2>2, <2>3, HomeFrame
<1>5. ASSUME NEW l \in Loops, ResigerConsumer(l)
      PROVE  Home(t)'
  <2>1. /\ pc[l] = "run" /\ "CONSUMER" \notin event_loop_type[l]
        /\ queue' = [queue EXCEPT ![l] = {}]
        /\ UNCHANGED <<pc, batch, to_dispatched, ran, dropped, target>>
    BY <1>5 DEF ResigerConsumer, At, outVars, histVars
  <2>2. queue[l] = {}
    BY <2>1 DEF Ids
  <2>3. queue' = queue
    BY <1>1, <2>1, <2>2
  <2> QED  BY <1>2, <2>1, <2>3
<1> QED
  BY <1>2, <1>3, <1>4, <1>5, HomeDispatch, HomeDeRegister, HomeOffer, HomePut, HomeRefused,
     HomeCount, HomeNotify
  DEF Next, vars, loopVars, outVars, inVars, histVars, Turn, ResigerProducer, Return, Terminated

-----------------------------------------------------------------------------
(* What is counted.                                                        *)

\* Steps that leave the queues and the count alone, and move no loop to or from "count".
LEMMA CountedFrame ==
  ASSUME Counted, NEW l \in Loops, pc[l] # "count", pc'[l] # "count",
         \A m \in Loops \ {l} : pc'[m] = pc[m] /\ batch'[m] = batch[m],
         queue' = queue, remained_items' = remained_items
  PROVE  Counted'
<1>1. \A m \in Loops : (pc'[m] = "count" <=> pc[m] = "count")
                       /\ (pc[m] = "count" => batch'[m] = batch[m])
  OBVIOUS
<1>2. ASSUME NEW m \in Loops, pc'[m] = "count"
      PROVE  remained_items'[batch'[m].to] + Cardinality(batch'[m].tasks)
               = Cardinality(queue'[batch'[m].to])
  BY <1>1, <1>2, Zenon DEF Counted
<1>3. ASSUME NEW c \in Loops, \A m \in Loops : pc'[m] = "count" => batch'[m].to # c
      PROVE  remained_items'[c] = Cardinality(queue'[c])
  BY <1>1, <1>3, Zenon DEF Counted
<1> QED  BY <1>2, <1>3 DEF Counted

\* A consumer takes what was counted and leaves what was not.
LEMMA CountedTake ==
  ASSUME TypeOK, Finite, Counted, NEW l \in Loops, NEW some \in SUBSET queue[l],
         Cardinality(some) = remained_items[l],
         queue' = [queue EXCEPT ![l] = queue[l] \ some],
         remained_items' = [remained_items EXCEPT ![l] = 0],
         pc[l] # "count", pc'[l] # "count",
         \A m \in Loops \ {l} : pc'[m] = pc[m] /\ batch'[m] = batch[m],
         \A m \in Loops : pc[m] = "count" => batch[m].to \in Loops
  PROVE  Counted'
<1>1. queue \in [Loops -> SUBSET Tasks] /\ remained_items \in [Loops -> Nat]
      /\ IsFiniteSet(queue[l])
  BY DEF TypeOK, InTypes, Finite
<1>2. IsFiniteSet(some) /\ Cardinality(queue[l]) \in Nat
  BY <1>1, FS_Subset, FS_CardinalityType
<1>3. Cardinality(queue[l] \ some) = Cardinality(queue[l]) - Cardinality(queue[l] \cap some)
  BY <1>1, FS_Difference
<1>4. queue[l] \cap some = some
  OBVIOUS
<1>5. Cardinality(queue'[l]) = Cardinality(queue[l]) - remained_items[l] /\ remained_items'[l] = 0
  BY <1>1, <1>3, <1>4
<1>6. \A c \in Loops \ {l} : queue'[c] = queue[c] /\ remained_items'[c] = remained_items[c]
  BY <1>1
<1>7. \A m \in Loops : (pc'[m] = "count" <=> pc[m] = "count")
                       /\ (pc[m] = "count" => batch'[m] = batch[m])
  OBVIOUS
<1>8. ASSUME NEW m \in Loops, pc'[m] = "count"
      PROVE  remained_items'[batch'[m].to] + Cardinality(batch'[m].tasks)
               = Cardinality(queue'[batch'[m].to])
  <2>1. /\ pc[m] = "count" /\ batch'[m] = batch[m] /\ batch[m].to \in Loops
        /\ remained_items[batch[m].to] + Cardinality(batch[m].tasks)
             = Cardinality(queue[batch[m].to])
    BY <1>7, <1>8, Zenon DEF Counted
  <2>2. CASE batch[m].to # l
    BY <1>6, <2>1, <2>2
  <2>3. CASE batch[m].to = l
    <3>1. Cardinality(batch[m].tasks) \in Nat
      BY FS_CardinalityType DEF Finite
    <3>2. remained_items[l] + Cardinality(batch[m].tasks) = Cardinality(queue[l])
      BY <2>1, <2>3, Zenon
    <3>3. 0 + Cardinality(batch[m].tasks) = Cardinality(queue[l]) - remained_items[l]
      BY <1>1, <1>2, <3>1, <3>2
    <3>4. remained_items'[l] + Cardinality(batch[m].tasks) = Cardinality(queue'[l])
      BY <1>5, <3>3
    <3> QED  BY <2>1, <2>3, <3>4, Zenon
  <2> QED  BY <2>2, <2>3
<1>9. ASSUME NEW c \in Loops, \A m \in Loops : pc'[m] = "count" => batch'[m].to # c
      PROVE  remained_items'[c] = Cardinality(queue'[c])
  <2>1. remained_items[c] = Cardinality(queue[c])
    BY ZenonT(60), <1>7, <1>9 DEF Counted
  <2>2. CASE c # l
    BY <1>6, <2>1, <2>2
  <2>3. CASE c = l
    BY <1>1, <1>2, <1>5, <2>1, <2>3
  <2> QED  BY <2>2, <2>3
<1> QED  BY <1>8, <1>9 DEF Counted

\* What an enqueue puts was not in the queue.
LEMMA CountedPut ==
  ASSUME TypeOK, Ids, Finite, Locked, Offered, Homes, Counted, NEW l \in Loops, Put(l)
  PROVE  Counted'
<1>1. /\ pc \in [Loops -> LoopPoints] /\ batch \in [Loops -> Batches]
      /\ queue \in [Loops -> SUBSET Tasks] /\ remained_items \in [Loops -> Nat]
      /\ Registered \subseteq Loops /\ batch[l].tasks \subseteq Tasks
  BY DEF TypeOK, LoopTypes, OutTypes, InTypes, IdTypes, Registered, Batches
<1>2. PICK c \in Loops, b \in SUBSET Tasks : c = batch[l].to /\ b = batch[l].tasks
  BY <1>1 DEF Put
<1>3. /\ pc[l] = "put" /\ pc' = [pc EXCEPT ![l] = "count"] /\ batch' = batch
      /\ remained_items' = remained_items /\ queue' = [queue EXCEPT ![c] = queue[c] \cup b]
  BY <1>2 DEF Put, At, Goto, outVars
<1>4. \A m \in Loops : pc[m] # "count"
  BY <1>3, OneEnqueue DEF Busy
<1>5. pc'[l] = "count" /\ \A m \in Loops \ {l} : pc'[m] # "count"
  BY <1>1, <1>3, <1>4
<1>6. queue[c] \cap b = {}
  BY <1>1, <1>2, <1>3, OfferedIsNowhere DEF Queued
<1>7. IsFiniteSet(queue[c]) /\ IsFiniteSet(b)
  BY <1>2 DEF Finite
<1>8. /\ Cardinality(queue[c] \cup b)
           = Cardinality(queue[c]) + Cardinality(b) - Cardinality(queue[c] \cap b)
      /\ Cardinality(queue[c]) \in Nat /\ Cardinality(b) \in Nat
  BY <1>7, FS_Union, FS_CardinalityType
<1>9. Cardinality(queue[c] \cap b) = 0
  BY <1>6, FS_EmptySet, Zenon
<1>10. \A d \in Loops : remained_items[d] = Cardinality(queue[d])
  BY <1>4 DEF Counted
<1>11. queue'[c] = queue[c] \cup b /\ \A d \in Loops \ {c} : queue'[d] = queue[d]
  BY <1>1, <1>3
<1>12. remained_items[c] + Cardinality(b) = Cardinality(queue[c] \cup b)
  BY <1>8, <1>9, <1>10
<1>13. remained_items'[batch'[l].to] + Cardinality(batch'[l].tasks) = Cardinality(queue'[batch'[l].to])
  BY <1>2, <1>3, <1>11, <1>12, Zenon
<1>14. ASSUME NEW d \in Loops, \A m \in Loops : pc'[m] = "count" => batch'[m].to # d
       PROVE  remained_items'[d] = Cardinality(queue'[d])
  <2>1. d # c
    BY <1>2, <1>3, <1>5, <1>14
  <2> QED  BY <1>3, <1>10, <1>11, <2>1
<1> QED  BY <1>5, <1>13, <1>14 DEF Counted

\* The enqueue is counted.
LEMMA CountedCount ==
  ASSUME TypeOK, Ids, Finite, Locked, Counted, NEW l \in Loops, Count(l)
  PROVE  Counted'
<1>1. /\ pc \in [Loops -> LoopPoints] /\ remained_items \in [Loops -> Nat]
      /\ Registered \subseteq Loops /\ batch[l].tasks \subseteq Tasks
  BY DEF TypeOK, LoopTypes, OutTypes, InTypes, IdTypes, Registered, Batches
<1>2. PICK c \in Loops, b \in SUBSET Tasks : c = batch[l].to /\ b = batch[l].tasks
  BY <1>1 DEF Count, At, Ids, Putting
<1>3. /\ pc[l] = "count" /\ pc' = [pc EXCEPT ![l] = "notify"] /\ batch' = batch /\ queue' = queue
      /\ remained_items' = [remained_items EXCEPT ![c] = remained_items[c] + Cardinality(b)]
  BY <1>2 DEF Count, At, Goto, outVars
<1>4. \A m \in Loops : pc[m] = "count" => m = l
  BY <1>3, OneEnqueue DEF Busy
<1>5. \A m \in Loops : pc'[m] # "count"
  BY <1>1, <1>3, <1>4
<1>6. remained_items[c] + Cardinality(b) = Cardinality(queue[c])
  BY <1>2, <1>3, Zenon DEF Counted
<1>7. \A d \in Loops \ {c} : remained_items[d] = Cardinality(queue[d])
  BY <1>2, <1>3, <1>4 DEF Counted
<1>8. /\ remained_items'[c] = remained_items[c] + Cardinality(b)
      /\ \A d \in Loops \ {c} : remained_items'[d] = remained_items[d]
  BY <1>1, <1>3
<1>9. \A d \in Loops : remained_items'[d] = Cardinality(queue'[d])
  BY <1>3, <1>6, <1>7, <1>8
<1> QED  BY <1>5, <1>9 DEF Counted

\* remained_items_ follows the queue.
LEMMA CountedStep ==
  ASSUME TypeOK, Ids, Finite, Locked, Offered, Homes, Counted, [Next]_vars
  PROVE  Counted'
<1>1. /\ pc \in [Loops -> LoopPoints] /\ batch \in [Loops -> Batches]
      /\ queue \in [Loops -> SUBSET Tasks] /\ remained_items \in [Loops -> Nat]
      /\ Registered \subseteq Loops
  BY DEF TypeOK, LoopTypes, OutTypes, InTypes, IdTypes, Registered
<1>2. CASE UNCHANGED <<pc, batch, queue, remained_items>>
  BY <1>2 DEF Counted
<1>3. \A m \in Loops : pc[m] = "count" => batch[m].to \in Loops
  BY <1>1 DEF Ids, Putting
<1>4. ASSUME NEW l \in Loops, DeResigerConsumer(l) \/ Trim(l)
      PROVE  Counted'
  <2>1. /\ pc[l] # "count" /\ pc'[l] # "count"
        /\ \A m \in Loops \ {l} : pc'[m] = pc[m]
    BY <1>1, <1>4 DEF DeResigerConsumer, Trim, AfterTrim, At, Goto
  <2>2. batch' = batch /\ (ConsumeCoroutine(l) \/ UNCHANGED <<queue, remained_items>>)
    BY <1>4 DEF DeResigerConsumer, Trim, outVars
  <2>3. CASE ConsumeCoroutine(l)
    <3>1. PICK some \in SUBSET queue[l] :
            /\ Cardinality(some) = remained_items[l]
            /\ queue' = [queue EXCEPT ![l] = queue[l] \ some]
            /\ remained_items' = [remained_items EXCEPT ![l] = 0]
      BY <2>3, ConsumeEffect
    <3> QED  BY <1>3, <2>1, <2>2, <3>1, CountedTake
  <2>4. CASE UNCHANGED <<queue, remained_items>>
    BY <2>1, <2>2, <2>4, CountedFrame
  <2> QED  BY <2>2, <2>3, <2>4
<1>5. ASSUME NEW l \in Loops, DeRegister(l)
      PROVE  Counted'
  <2>1. PICK rest \in SUBSET queue[l] :
            /\ Cardinality(rest) = remained_items[l]
            /\ queue' = [queue EXCEPT ![l] = queue[l] \ rest]
            /\ remained_items' = [remained_items EXCEPT ![l] = 0]
    BY <1>5, DeRegisterEffect
  <2>2. /\ pc[l] # "count" /\ pc'[l] # "count"
        /\ \A m \in Loops \ {l} : pc'[m] = pc[m] /\ batch'[m] = batch[m]
    BY <1>1, <1>5, DeRegisterEffect
  <2> QED  BY <1>3, <2>1, <2>2, CountedTake
<1>6. ASSUME NEW l \in Loops, EnqueueAll(l) \/ EnqueueToAny(l)
      PROVE  Counted'
  <2>1. /\ pc[l] # "count" /\ pc'[l] # "count"
        /\ \A m \in Loops \ {l} : pc'[m] = pc[m]
        /\ queue' = queue /\ remained_items' = remained_items
    BY <1>1, <1>6, OfferEffect
  <2>2. \A m \in Loops \ {l} : batch'[m] = batch[m]
    BY <1>1, <1>6, OfferEffect
  <2> QED  BY <2>1, <2>2, CountedFrame
<1>7. ASSUME NEW l \in Loops,
             \/ DeResigerProducer(l) \/ SinglesDone(l) \/ EndProduce(l) \/ WaitEvents(l)
             \/ PutRefused(l) \/ PutNowhere(l) \/ Notify(l)
      PROVE  Counted'
  <2>1. batch[l].kind \in {"all", "one", "moved"}
    BY <1>1 DEF Batches
  <2>2. /\ pc[l] # "count" /\ pc'[l] # "count"
        /\ \A m \in Loops \ {l} : pc'[m] = pc[m]
    BY <1>1, <1>7, <2>1 DEF DeResigerProducer, SinglesDone, EndProduce, WaitEvents, AfterTrim,
                 PutRefused, PutNowhere, Notify, At, Goto
  <2>3. /\ queue' = queue /\ remained_items' = remained_items
        /\ \A m \in Loops \ {l} : batch'[m] = batch[m]
    BY <1>1, <1>7 DEF DeResigerProducer, SinglesDone, EndProduce, WaitEvents,
                 PutRefused, PutNowhere, Notify, outVars, inVars
  <2> QED  BY <2>2, <2>3, CountedFrame
<1>8. ASSUME NEW l \in Loops, ResigerConsumer(l)
      PROVE  Counted'
  <2>1. /\ pc' = pc /\ batch' = batch /\ lock = None
        /\ queue' = [queue EXCEPT ![l] = {}]
        /\ remained_items' = [remained_items EXCEPT ![l] = 0]
    BY <1>8 DEF ResigerConsumer, outVars
  <2>2. \A m \in Loops : pc[m] # "count"
    BY <2>1, FreeLock DEF Busy
  <2>3. \A c \in Loops : remained_items[c] = Cardinality(queue[c])
    BY <2>2 DEF Counted
  <2>4. \A c \in Loops \ {l} : queue'[c] = queue[c] /\ remained_items'[c] = remained_items[c]
    BY <1>1, <2>1
  <2>5. queue'[l] = {} /\ remained_items'[l] = 0 /\ Cardinality({}) = 0
    BY <1>1, <2>1, FS_EmptySet
  <2>6. \A c \in Loops : remained_items'[c] = Cardinality(queue'[c])
    BY <2>3, <2>4, <2>5
  <2> QED  BY <2>1, <2>2, <2>6 DEF Counted
<1> QED
  BY <1>2, <1>4, <1>5, <1>6, <1>7, <1>8, CountedPut, CountedCount
  DEF Next, vars, loopVars, outVars, inVars, Turn, Dispatch, ResigerProducer, Return, Terminated

-----------------------------------------------------------------------------
(* Who is woken.                                                           *)

\* The loop takes part in dispatching after its ConsumeCoroutine.
Past(c) == \/ pc[c] = "wait"
           \/ ~flushing[c] /\ pc[c] \in {"produce", "single", "put", "count", "notify"}

\* A loop that has no queue has nothing counted.
LEMMA NothingCounted ==
  ASSUME TypeOK, Ids, Finite, Counted, NEW l \in Loops, l \notin Registered
  PROVE  remained_items[l] = 0
<1>1. queue[l] = {} /\ \A m \in Loops : pc[m] = "count" => batch[m].to # l
  BY DEF Ids, Putting
<1>2. remained_items[l] = Cardinality(queue[l])
  BY <1>1 DEF Counted
<1> QED  BY <1>1, <1>2, FS_EmptySet

\* Steps of one loop that leave the count, the eventfds and the announcements alone.
LEMMA AwakeFrame ==
  ASSUME Awake, NEW l \in Loops, pc[l] # "notify",
         \A m \in Loops \ {l} : pc'[m] = pc[m] /\ batch'[m] = batch[m],
         \A m \in Loops \ {l} : flushing'[m] = flushing[m],
         \A m \in Loops : event_fd[m] => event_fd'[m],
         \A m \in Loops : remained_items'[m] = 0 \/ remained_items'[m] = remained_items[m],
         Past(l)' => Past(l) \/ remained_items'[l] = 0
  PROVE  Awake'
<1> SUFFICES ASSUME NEW c \in Loops, remained_items'[c] > 0, Past(c)'
             PROVE  event_fd'[c] \/ \E m \in Loops : pc'[m] = "notify" /\ batch'[m].to = c
  BY DEF Awake, Past
<1>1. remained_items'[c] = remained_items[c]
  OBVIOUS
<1>2. Past(c)
  BY DEF Past
<1>3. event_fd[c] \/ \E m \in Loops : pc[m] = "notify" /\ batch[m].to = c
  BY <1>1, <1>2 DEF Awake, Past
<1> QED  BY <1>3

\* No consumer passes by a counted coroutine: it is announced after it is counted, and a
\* loop looks at its queue before it waits.
LEMMA AwakeStep ==
  ASSUME TypeOK, Ids, Finite, Locked, Counted, Awake, [Next]_vars
  PROVE  Awake'
<1>1. /\ pc \in [Loops -> LoopPoints] /\ batch \in [Loops -> Batches]
      /\ remained_items \in [Loops -> Nat] /\ flushing \in [Loops -> BOOLEAN]
      /\ event_fd \in [Loops -> BOOLEAN] /\ Registered \subseteq Loops
      /\ \A l \in Loops : batch[l].kind \in {"all", "one", "moved"}
  BY DEF TypeOK, LoopTypes, OutTypes, InTypes, IdTypes, Registered, Batches
<1>2. CASE UNCHANGED <<pc, batch, flushing, event_fd, remained_items>>
  BY <1>2 DEF Awake
<1>3. ASSUME NEW l \in Loops, DeResigerConsumer(l) \/ Trim(l)
      PROVE  Awake'
  <2>1. /\ pc[l] # "notify" /\ \A m \in Loops \ {l} : pc'[m] = pc[m]
    BY <1>1, <1>3 DEF DeResigerConsumer, Trim, At, Goto
  <2>2. batch' = batch /\ flushing' = flushing /\ event_fd' = event_fd
    BY <1>3 DEF DeResigerConsumer, Trim, outVars
  <2>3. \/ ConsumeCoroutine(l)
        \/ remained_items' = remained_items /\ pc[l] = "run" /\ "CONSUMER" \notin event_loop_type[l]
    BY <1>3 DEF DeResigerConsumer, Trim, At
  <2>4. /\ remained_items'[l] = 0
        /\ \A m \in Loops : remained_items'[m] = 0 \/ remained_items'[m] = remained_items[m]
    <3>1. CASE ConsumeCoroutine(l)
      BY <1>1, <3>1, ConsumeEffect
    <3>2. CASE /\ remained_items' = remained_items /\ pc[l] = "run"
               /\ "CONSUMER" \notin event_loop_type[l]
      <4>1. l \notin Registered
        BY <3>2 DEF Ids
      <4> QED  BY <3>2, <4>1, NothingCounted
    <3> QED  BY <2>3, <3>1, <3>2
  <2> QED  BY <2>1, <2>2, <2>4, AwakeFrame
<1>4. ASSUME NEW l \in Loops, DeResigerProducer(l) \/ SinglesDone(l) \/ EndProduce(l)
      PROVE  Awake'
  <2>1. /\ pc[l] # "notify" /\ \A m \in Loops \ {l} : pc'[m] = pc[m] /\ batch'[m] = batch[m]
    BY <1>1, <1>4 DEF DeResigerProducer, SinglesDone, EndProduce, At, Goto
  <2>2. event_fd' = event_fd /\ remained_items' = remained_items
    BY <1>4 DEF DeResigerProducer, SinglesDone, EndProduce, inVars
  <2>3. \A m \in Loops \ {l} : flushing'[m] = flushing[m]
    BY <1>1, <1>4 DEF DeResigerProducer, SinglesDone, EndProduce
  <2>4. Past(l)' => Past(l)
    BY <1>1, <1>4 DEF DeResigerProducer, SinglesDone, EndProduce, AfterTrim, At, Goto, Past
  <2> QED  BY <2>1, <2>2, <2>3, <2>4, AwakeFrame
<1>5. ASSUME NEW l \in Loops, Put(l) \/ PutRefused(l) \/ PutNowhere(l)
      PROVE  Awake'
  <2>1. /\ pc[l] = "put" /\ \A m \in Loops \ {l} : pc'[m] = pc[m]
        /\ pc'[l] # "wait"
    BY <1>1, <1>5 DEF Put, PutRefused, PutNowhere, At, Goto
  <2>2. /\ event_fd' = event_fd /\ remained_items' = remained_items /\ flushing' = flushing
        /\ \A m \in Loops \ {l} : batch'[m] = batch[m]
    BY <1>1, <1>5 DEF Put, PutRefused, PutNowhere, inVars, outVars
  <2>3. Past(l)' => Past(l)
    BY <2>1, <2>2 DEF Past
  <2> QED  BY <2>1, <2>2, <2>3, AwakeFrame
<1>6. ASSUME NEW l \in Loops, EnqueueAll(l) \/ EnqueueToAny(l)
      PROVE  Awake'
  <2>1. /\ pc[l] \in {"produce", "single"} /\ pc'[l] \in {"put", "failed"}
        /\ \A m \in Loops \ {l} : pc'[m] = pc[m]
        /\ event_fd' = event_fd /\ remained_items' = remained_items /\ flushing' = flushing
    BY <1>1, <1>6, OfferEffect
  <2>2. \A m \in Loops \ {l} : batch'[m] = batch[m]
    BY <1>1, <1>6, OfferEffect
  <2>3. Past(l)' => Past(l)
    BY <2>1 DEF Past
  <2> QED  BY <2>1, <2>2, <2>3, AwakeFrame
<1>7. ASSUME NEW l \in Loops, DeRegister(l)
      PROVE  Awake'
  <2>1. /\ pc[l] = "deregister" /\ event_fd' = event_fd /\ flushing' = flushing
        /\ \A m \in Loops \ {l} : pc'[m] = pc[m] /\ batch'[m] = batch[m]
        /\ remained_items' = [remained_items EXCEPT ![l] = 0]
    BY <1>1, <1>7, DeRegisterEffect
  <2>2. /\ remained_items'[l] = 0
        /\ \A m \in Loops : remained_items'[m] = 0 \/ remained_items'[m] = remained_items[m]
    BY <1>1, <2>1
  <2> QED  BY <2>1, <2>2, AwakeFrame
<1>8. ASSUME NEW l \in Loops, ResigerConsumer(l)
      PROVE  Awake'
  <2>1. /\ pc[l] = "run" /\ event_fd' = event_fd /\ flushing' = flushing
        /\ pc' = pc /\ batch' = batch
        /\ remained_items' = [remained_items EXCEPT ![l] = 0]
    BY <1>8 DEF ResigerConsumer, At, outVars
  <2>2. /\ remained_items'[l] = 0
        /\ \A m \in Loops : remained_items'[m] = 0 \/ remained_items'[m] = remained_items[m]
    BY <1>1, <2>1
  <2> QED  BY <2>1, <2>2, AwakeFrame
<1>9. ASSUME NEW l \in Loops, Count(l)
      PROVE  Awake'
  <2>1. /\ pc[l] = "count" /\ pc' = [pc EXCEPT ![l] = "notify"] /\ batch' = batch
        /\ event_fd' = event_fd /\ flushing' = flushing
        /\ remained_items' = [remained_items EXCEPT
             ![batch[l].to] = @ + Cardinality(batch[l].tasks)]
    BY <1>9 DEF Count, At, Goto, outVars
  <2>2. SUFFICES ASSUME NEW c \in Loops, remained_items'[c] > 0, Past(c)'
                 PROVE  event_fd'[c] \/ \E m \in Loops : pc'[m] = "notify" /\ batch'[m].to = c
    BY DEF Awake, Past
  <2>3. CASE c = batch[l].to
    BY <1>1, <2>1, <2>3
  <2>4. CASE c # batch[l].to
    <3>1. remained_items'[c] = remained_items[c]
      BY <1>1, <2>1, <2>4
    <3>2. Past(c)
      BY <1>1, <2>1, <2>2 DEF Past
    <3>3. event_fd[c] \/ \E m \in Loops : pc[m] = "notify" /\ batch[m].to = c
      BY <2>2, <3>1, <3>2 DEF Awake, Past
    <3>4. \A m \in Loops : pc[m] = "notify" => pc'[m] = "notify"
      BY <1>1, <2>1
    <3> QED  BY <2>1, <3>3, <3>4
  <2> QED  BY <2>3, <2>4
<1>10. ASSUME NEW l \in Loops, Notify(l)
       PROVE  Awake'
  <2>1. /\ pc[l] = "notify" /\ event_fd' = [event_fd EXCEPT ![batch[l].to] = TRUE]
        /\ flushing' = flushing /\ remained_items' = remained_items
    BY <1>10 DEF Notify, At, Wake
  <2>2. /\ \A m \in Loops \ {l} : pc'[m] = pc[m] /\ batch'[m] = batch[m]
        /\ pc'[l] \in {"run", "single", "produce"}
    BY <1>1, <1>10 DEF Notify, Goto
  <2>3. SUFFICES ASSUME NEW c \in Loops, remained_items'[c] > 0, Past(c)'
                 PROVE  event_fd'[c] \/ \E m \in Loops : pc'[m] = "notify" /\ batch'[m].to = c
    BY DEF Awake, Past
  <2>4. CASE c = batch[l].to
    BY <1>1, <2>1, <2>4
  <2>5. CASE c # batch[l].to
    <3>1. Past(c)
      BY <2>1, <2>2, <2>3 DEF Past
    <3>2. event_fd[c] \/ \E m \in Loops : pc[m] = "notify" /\ batch[m].to = c
      BY <2>1, <2>3, <3>1 DEF Awake, Past
    <3>3. event_fd'[c] = event_fd[c]
      BY <1>1, <2>1, <2>5
    <3> QED  BY <2>2, <2>5, <3>2, <3>3
  <2> QED  BY <2>4, <2>5
<1>11. ASSUME NEW l \in Loops, WaitEvents(l)
       PROVE  Awake'
  <2>1. /\ pc[l] = "wait" /\ pc' = [pc EXCEPT ![l] = "run"] /\ batch' = batch
        /\ flushing' = flushing /\ remained_items' = remained_items
    BY <1>11 DEF WaitEvents, At, Goto, outVars
  <2>2. \A m \in Loops \ {l} : event_fd'[m] = event_fd[m]
    BY <1>1, <1>11 DEF WaitEvents
  <2>3. SUFFICES ASSUME NEW c \in Loops, remained_items'[c] > 0, Past(c)'
                 PROVE  event_fd'[c] \/ \E m \in Loops : pc'[m] = "notify" /\ batch'[m].to = c
    BY DEF Awake, Past
  <2>4. c # l /\ Past(c)
    BY <1>1, <2>1, <2>3 DEF Past
  <2>5. event_fd[c] \/ \E m \in Loops : pc[m] = "notify" /\ batch[m].to = c
    BY <2>1, <2>3, <2>4 DEF Awake, Past
  <2>6. \A m \in Loops : pc[m] = "notify" => pc'[m] = "notify"
    BY <1>1, <2>1
  <2> QED  BY <2>1, <2>2, <2>4, <2>5, <2>6
<1> QED
  BY <1>2, <1>3, <1>4, <1>5, <1>6, <1>7, <1>8, <1>9, <1>10, <1>11
  DEF Next, vars, loopVars, outVars, inVars, Turn, Dispatch, ResigerProducer, Return, Terminated

-----------------------------------------------------------------------------
(* Theorems.                                                               *)

IInv == TypeOK /\ Finite /\ Locked /\ Ids /\ Offered /\ Homes /\ Counted /\ Awake

\* The invariant holds before the first loop runs.
LEMMA IInvInit ==
  ASSUME Init
  PROVE  IInv
<1>1. NoBatch \in Batches /\ IsFiniteSet(NoBatch.tasks) /\ IsFiniteSet({}) /\ Cardinality({}) = 0
  BY FS_EmptySet DEF NoBatch, Batches, Keys
<1>2. LoopTypes /\ InTypes /\ HistTypes
  BY DEF Init, LoopTypes, LoopPoints, InTypes, HistTypes
<1>3. OutTypes
  BY <1>1 DEF Init, OutTypes
<1>4. IdTypes
  BY DEF Init, IdTypes
<1>5. Finite
  BY <1>1 DEF Init, Finite
<1>6. Locked /\ Offered /\ Awake
  BY DEF Init, Locked, Offered, Awake, Busy
<1>7. Ids
  BY DEF Init, Ids, Registered, Putting
<1>8. Counted
  BY <1>1 DEF Init, Counted
<1>9. ASSUME NEW t \in Tasks
      PROVE  Home(t)
  <2>1. ~Listed(t) /\ ~Held(t) /\ ~Moved(t) /\ ~Moving(t) /\ ~Queued(t) /\ ~Ran(t) /\ t \notin dropped
    BY DEF Init, Listed, Held, Moved, Moving, Queued, Ran, Busy
  <2>2. target[t] = None
    BY DEF Init
  <2> QED  BY <2>1, <2>2 DEF Home, Listed, Queued
<1> QED  BY <1>2, <1>3, <1>4, <1>5, <1>6, <1>7, <1>8, <1>9 DEF IInv, TypeOK, Homes

\* Every behaviour keeps the invariant.
THEOREM Invariant == Spec => []IInv
<1>1. Init => IInv
  BY IInvInit
<1>2. IInv /\ [Next]_vars => IInv'
  <2> SUFFICES ASSUME IInv, [Next]_vars
               PROVE  IInv'
    OBVIOUS
  <2> USE DEF IInv
  <2>1. TypeOK'
    BY LoopTypesStep, OutTypesStep, IdTypesStep, InTypesStep, HistTypesStep DEF TypeOK
  <2> QED  BY <2>1, FiniteStep, LockedStep, IdsStep, OfferedStep, HomesStep, CountedStep, AwakeStep
<1> QED  BY <1>1, <1>2, PTL DEF Spec

\* Every variable keeps its type; consumer_id_itr_ points at a consumer whenever there is one,
\* so GetNextConsumer never reads past the list.
THEOREM TypeCorrect == Spec => []TypeOK
BY Invariant, PTL DEF IInv

\* A dispatched coroutine is in exactly one place, whatever the number of producers, of
\* consumers that come and go, and the capacity of their queues.
THEOREM TasksKept == Spec => []TaskKept
<1>1. IInv => TaskKept
  <2> SUFFICES ASSUME IInv, NEW t \in Tasks, target[t] # None
               PROVE  Cardinality(Places(t)) = 1
    BY DEF TaskKept
  <2>1. Home(t) /\ TypeOK /\ Locked /\ Offered
    BY DEF IInv, Homes
  <2>2. \A l \in Loops : pc[l] \in {"count", "notify"} => Busy(l)
    BY DEF Busy
  <2>3. ASSUME NEW l \in Loops, NEW k \in Keys
        PROVE  t \in to_dispatched[l][k] \ Holding(l) <=> t \in to_dispatched[l][k] /\ ~Held(t)
    <3>1. CASE t \in Holding(l)
      <4>1. Held(t)
        BY <3>1 DEF Holding, Held
      <4> QED  BY <3>1, <4>1
    <3>2. CASE t \notin Holding(l) /\ Held(t)
      <4>1. PICK m \in Loops : pc[m] \in {"count", "notify"} /\ t \in batch[m].tasks
        BY <3>2 DEF Held
      <4>2. m # l
        BY <3>2, <4>1 DEF Holding
      <4>3. CASE batch[m].kind = "moved"
        <5>1. Moved(t)
          BY <2>2, <4>1, <4>3 DEF Moved
        <5> QED  BY <2>1, <5>1 DEF Home, Listed
      <4>4. CASE batch[m].kind # "moved"
        <5>1. t \in to_dispatched[m][batch[m].from] /\ batch[m].from \in Keys
          BY <2>1, <2>2, <4>1, <4>4 DEF Offered, TypeOK, OutTypes, Batches
        <5> QED  BY <2>1, <4>2, <5>1 DEF Home
      <4> QED  BY <4>3, <4>4
    <3>3. CASE t \notin Holding(l) /\ ~Held(t)
      BY <3>3
    <3> QED  BY <3>1, <3>2, <3>3
  <2> DEFINE A == {p \in Loops \X Keys : t \in to_dispatched[p[1]][p[2]] \ Holding(p[1])}
             B == {p \in Loops : pc[p] = "put" /\ batch[p].kind = "moved" /\ t \in batch[p].tasks}
             C == {p \in Loops : t \in queue[p]}
             D == {p \in Loops : ran[t] = p}
             E == {t} \cap dropped
  <2>4. Places(t) = {<<"list", at[1], at[2]>> : at \in A} \cup {<<"moving", l, l>> : l \in B}
                    \cup {<<"queue", l, l>> : l \in C} \cup {<<"ran", l, l>> : l \in D}
                    \cup {<<"dropped", t, t>> : x \in E}
    BY DEF Places
  <2>5. (Listed(t) /\ ~Held(t)) <=> A # {}
    <3>1. ASSUME NEW l \in Loops, NEW k \in Keys, t \in to_dispatched[l][k], ~Held(t)
          PROVE  <<l, k>> \in A
      BY <2>3, <3>1
    <3>2. ASSUME NEW p \in A
          PROVE  Listed(t) /\ ~Held(t)
      <4>1. p[1] \in Loops /\ p[2] \in Keys /\ t \in to_dispatched[p[1]][p[2]] \ Holding(p[1])
        OBVIOUS
      <4> QED  BY <2>3, <4>1 DEF Listed
    <3> HIDE DEF A
    <3> QED  BY <3>1, <3>2 DEF Listed
  <2>6. /\ Moving(t) <=> B # {}
        /\ Queued(t) <=> C # {}
        /\ t \in dropped <=> E # {}
    BY DEF Moving, Queued
  <2>7. Ran(t) <=> D # {}
    BY <2>1, DispatcherAssumption DEF Ran, TypeOK, HistTypes, Keys
  <2>8. \A x, y \in A : x[1] = y[1] /\ x[2] = y[2]
    BY <2>1 DEF Home
  <2>9. \A x, y \in B : x = y
    BY <2>1 DEF Locked, Busy
  <2>10. (\A x, y \in C : x = y) /\ (\A x, y \in D : x = y)
    BY <2>1 DEF Home
  <2>11. \/ A # {} /\ B = {} /\ C = {} /\ D = {} /\ E = {}
         \/ A = {} /\ B # {} /\ C = {} /\ D = {} /\ E = {}
         \/ A = {} /\ B = {} /\ C # {} /\ D = {} /\ E = {}
         \/ A = {} /\ B = {} /\ C = {} /\ D # {} /\ E = {}
         \/ A = {} /\ B = {} /\ C = {} /\ D = {} /\ E # {}
    <3>1. \/ Listed(t) /\ ~Held(t)
          \/ Moving(t) \/ Queued(t) \/ Ran(t) \/ t \in dropped
      BY <2>1 DEF Home
    <3>2. /\ Moving(t) => ~Listed(t) /\ ~Queued(t) /\ ~Ran(t) /\ t \notin dropped
          /\ Listed(t) /\ ~Held(t) => ~Moving(t) /\ ~Queued(t) /\ ~Ran(t) /\ t \notin dropped
          /\ Queued(t) => ~Ran(t) /\ t \notin dropped
          /\ Ran(t) => t \notin dropped
      <4>1. Moving(t) => Moved(t)
        BY DEF Moving, Moved, Busy
      <4> QED  BY <2>1, <4>1 DEF Home
    <3> QED  BY <2>5, <2>6, <2>7, <3>1, <3>2
  <2> HIDE DEF A, B, C, D, E
  <2>12. \E x : Places(t) = {x}
    <3>1. CASE A # {} /\ B = {} /\ C = {} /\ D = {} /\ E = {}
      <4>1. PICK p \in A : TRUE
        BY <3>1
      <4>2. \A q \in A : <<"list", q[1], q[2]>> = <<"list", p[1], p[2]>>
        BY <2>8
      <4>3. Places(t) = {<<"list", q[1], q[2]>> : q \in A}
        BY <2>4, <3>1
      <4>4. Places(t) = {<<"list", p[1], p[2]>>}
        BY <4>2, <4>3
      <4> QED  BY <4>4
    <3>2. CASE A = {} /\ B # {} /\ C = {} /\ D = {} /\ E = {}
      <4>1. PICK p \in B : B = {p}
        BY <2>9, <3>2
      <4>2. Places(t) = {<<"moving", p, p>>}
        BY <2>4, <3>2, <4>1
      <4> QED  BY <4>2
    <3>3. CASE A = {} /\ B = {} /\ C # {} /\ D = {} /\ E = {}
      <4>1. PICK p \in C : C = {p}
        BY <2>10, <3>3
      <4>2. Places(t) = {<<"queue", p, p>>}
        BY <2>4, <3>3, <4>1
      <4> QED  BY <4>2
    <3>4. CASE A = {} /\ B = {} /\ C = {} /\ D # {} /\ E = {}
      <4>1. PICK p \in D : D = {p}
        BY <2>10, <3>4
      <4>2. Places(t) = {<<"ran", p, p>>}
        BY <2>4, <3>4, <4>1
      <4> QED  BY <4>2
    <3>5. CASE A = {} /\ B = {} /\ C = {} /\ D = {} /\ E # {}
      <4>1. Places(t) = {<<"dropped", t, t>>}
        BY <2>4, <3>5
      <4> QED  BY <4>1
    <3> QED  BY <2>11, <3>1, <3>2, <3>3, <3>4, <3>5
  <2> QED  BY <2>12, FS_Singleton
<1> QED  BY <1>1, Invariant, PTL

\* DequeAll always finds as many coroutines as were counted: its loop over try_dequeue ends
\* without waiting for a producer.
THEOREM CountedPresent == Spec => []CountedArePresent
<1>1. IInv => CountedArePresent
  <2> SUFFICES ASSUME IInv, NEW c \in Loops
               PROVE  remained_items[c] <= Cardinality(queue[c])
    BY DEF CountedArePresent
  <2>1. remained_items[c] \in Nat /\ Counted /\ Finite
    BY DEF IInv, TypeOK, InTypes
  <2>2. CASE \E l \in Loops : pc[l] = "count" /\ batch[l].to = c
    <3>1. PICK l \in Loops : pc[l] = "count" /\ batch[l].to = c
      BY <2>2
    <3>2. remained_items[c] + Cardinality(batch[l].tasks) = Cardinality(queue[c])
      BY <2>1, <3>1, Zenon DEF Counted
    <3>3. Cardinality(batch[l].tasks) \in Nat
      BY <2>1, FS_CardinalityType DEF Finite
    <3> QED  BY <2>1, <3>2, <3>3
  <2>3. CASE ~\E l \in Loops : pc[l] = "count" /\ batch[l].to = c
    <3>1. remained_items[c] = Cardinality(queue[c])
      BY <2>1, <2>3 DEF Counted
    <3> QED  BY <2>1, <3>1
  <2> QED  BY <2>2, <2>3
<1> QED  BY <1>1, Invariant, PTL

\* No consumer blocks in WaitEvents on a counted coroutine whose announcement it has missed.
THEOREM ConsumersWoken == Spec => []ConsumerWoken
<1>1. IInv => ConsumerWoken
  BY DEF IInv, Awake, ConsumerWoken
<1> QED  BY <1>1, Invariant, PTL
=============================================================================
