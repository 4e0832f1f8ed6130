----------------------- MODULE ConcurrentQueueProofs -----------------------
(***************************************************************************)
(* Proofs about ConcurrentQueue for every set of threads, every hash and   *)
(* every workload: that get_or_add_implicit_producer gives each thread one *)
(* producer of its own while the hash tables grow under it (OwnProducer),  *)
(* that an enqueue writes to no other one, that the list has every         *)
(* producer, that the walk over the list gives an only consumer all the    *)
(* items that were there (TakesWhatIsThere), and that however many         *)
(* consumers race, they get published items only.                          *)
(***************************************************************************)
EXTENDS ConcurrentQueue, FiniteSetTheorems, NaturalsInduction, WellFoundedInduction, TLAPS

-----------------------------------------------------------------------------
(* The inductive invariant.                                                *)

\* The locals of a thread the proofs are about; where add and requisition_block return.
Fields == {"pc", "back", "producer", "mainHash"}
Backs == {"idle", "attach", "unindex", "freed"}
LocalsOK ==
  DOMAIN me = Threads /\ \A t \in Threads : Fields \subseteq DOMAIN me[t] /\ me[t].back \in Backs

Tables == UNION {[capacity : {c}, key : [0 .. c - 1 -> Threads \cup {None}],
                  value : [0 .. c - 1 -> Nat \cup {None}]] : c \in 1 .. MaxCapacity}
HashesOK == hashes \in Seq(Tables) /\ hashes # << >> /\ producerCount \in Nat

\* A thread that has no producer yet; one that has a producer for its table.
Lacking == {"count", "grow", "resize", "resized", "room", "create"}
Registering == Lacking \cup {"enlist", "readd"}
MainHashOK == \A t \in Threads : me[t].pc \in Registering => me[t].mainHash \in DOMAIN hashes

\* t's probes reach slot i of a table before an empty one.
Reaches(hash, t, i) ==
  \E n \in 0 .. hash.capacity - 1 :
    Probe(hash, t, n) = i /\ \A m \in 0 .. n - 1 : hash.key[Probe(hash, t, m)] # None

\* Every key is where its thread finds it.
Reached ==
  \A h \in DOMAIN hashes : \A i \in DOMAIN hashes[h].key :
    hashes[h].key[i] # None => Reaches(hashes[h], hashes[h].key[i], i)

\* The producers of thread t, the one it is about to put into a table included.
Claimed(t) ==
  ProducersOf(t) \cup {p \in {me[t].producer} : me[t].pc \in {"enlist", "readd"}}

Named ==
  \A t \in Threads : Claimed(t) \subseteq 1 .. producerCount
                       /\ \A p, q \in Claimed(t) : p = q
Apart == \A t, u \in Threads : t # u => Claimed(t) \cap Claimed(u) = {}
Fresh == \A t \in Threads : me[t].pc \in Lacking \cup {"enlist"} => ProducersOf(t) = {}

\* Thread t is between finding its producer and the end of its enqueue.
PoolSteps == {"requisition", "take", "get", "refs", "hold", "next", "swap", "taken", "drop",
              "add", "link", "linknext", "linkrefs", "linkswap", "unlink"}
Enqueuing(t) ==
  \/ me[t].pc \in {"first", "attach", "unindex"}
  \/ me[t].pc \in PoolSteps /\ me[t].back \in {"attach", "unindex"}
Settled == \A t \in Threads : Enqueuing(t) => me[t].producer \in ProducersOf(t)

OwnInv == LocalsOK /\ HashesOK /\ MainHashOK /\ Reached /\ Named /\ Apart /\ Fresh /\ Settled

\* No two threads that enqueue write to the same producer's tail, its index or its last
\* block, however their searches, resizes and insertions were interleaved:
\* ImplicitProducer::enqueue has no protection against a second writer.
SingleWriter ==
  \A t, u \in Threads :
    t # u /\ Enqueuing(t) /\ Enqueuing(u) => me[t].producer # me[u].producer

-----------------------------------------------------------------------------
(* The tables.                                                             *)

\* A set of naturals with an upper bound has a greatest element.
LEMMA Greatest ==
  ASSUME NEW S, NEW n \in Nat, S \subseteq 1 .. n, S # {}
  PROVE  \E x \in S : \A y \in S : y <= x
<1> DEFINE T == {n - x : x \in S}
<1>1. T \subseteq Nat /\ T # {}
  <2>1. \A x \in S : n - x \in Nat
    OBVIOUS
  <2> QED  BY <2>1
<1> HIDE DEF T
<1>2. PICK d \in T : \A e \in T : ~ (<<e, d>> \in OpToRel(<, Nat))
  BY <1>1, NatLessThanWellFounded, WFMin
<1>3. \A e \in T : ~(e < d)
  <2>1. ASSUME NEW e \in T
        PROVE  ~(e < d)
    <3>1. ~ (<<e, d>> \in OpToRel(<, Nat))
      BY <1>2, Zenon
    <3> QED  BY <1>1, <3>1 DEF OpToRel
  <2> QED  BY <2>1
<1>4. PICK x \in S : d = n - x
  BY DEF T
<1>5. \A y \in S : y <= x
  BY <1>3, <1>4 DEF T
<1> QED  BY <1>5

\* A table and its parts.
LEMMA TableParts ==
  ASSUME NEW hash \in Tables
  PROVE  /\ hash.capacity \in 1 .. MaxCapacity
         /\ hash.key \in [0 .. hash.capacity - 1 -> Threads \cup {None}]
         /\ hash.value \in [0 .. hash.capacity - 1 -> Nat \cup {None}]
         /\ DOMAIN hash = {"capacity", "key", "value"}
BY DEF Tables

\* A probe is a slot of the table.
LEMMA ProbeSlot ==
  ASSUME NEW hash \in Tables, NEW t \in Threads, NEW n \in Nat
  PROVE  Probe(hash, t, n) \in 0 .. hash.capacity - 1
<1>1. hash.capacity \in Nat \ {0} /\ HashOf[t] + n \in Nat
  BY TableParts, HashAssumption
<1> QED  BY <1>1 DEF Probe

\* What the tables give thread t.
LEMMA ProducersOfIs ==
  ASSUME NEW t, NEW p
  PROVE  p \in ProducersOf(t) <=>
           \E h \in DOMAIN hashes : \E i \in DOMAIN hashes[h].key :
             hashes[h].key[i] = t /\ p = hashes[h].value[i]
BY DEF ProducersOf

\* Every slot that t's key is in is one where t's search finds it.
LEMMA SlotFound ==
  ASSUME HashesOK, Reached, NEW t \in Threads, NEW h \in DOMAIN hashes,
         NEW i \in DOMAIN hashes[h].key, hashes[h].key[i] = t
  PROVE  Slot(hashes[h], t) # None
<1>1. t # None /\ None \notin Nat
  BY PoolAssumption
<1>2. hashes[h] \in Tables
  BY DEF HashesOK
<1>3. PICK n \in 0 .. hashes[h].capacity - 1 :
        /\ Probe(hashes[h], t, n) = i
        /\ \A m \in 0 .. n - 1 : hashes[h].key[Probe(hashes[h], t, m)] # None
  BY <1>1 DEF Reached, Reaches
<1> DEFINE hit == {k \in 0 .. hashes[h].capacity - 1 :
                     /\ hashes[h].key[Probe(hashes[h], t, k)] = t
                     /\ \A m \in 0 .. k - 1 : hashes[h].key[Probe(hashes[h], t, m)] # None}
<1>4. n \in hit
  BY <1>3
<1>5. hit \subseteq Nat
  BY <1>2, TableParts
<1> HIDE DEF hit
<1>6. (CHOOSE k \in hit : TRUE) \in Nat
  BY <1>4, <1>5
<1>7. Slot(hashes[h], t) = Probe(hashes[h], t, CHOOSE k \in hit : TRUE)
  BY <1>4 DEF Slot, hit
<1>8. Probe(hashes[h], t, CHOOSE k \in hit : TRUE) \in Nat
  BY <1>2, <1>6, ProbeSlot, TableParts
<1> QED  BY <1>1, <1>7, <1>8

\* The slot a search ends at holds t's key.
LEMMA SlotIsOwn ==
  ASSUME NEW hash \in Tables, NEW t \in Threads, Slot(hash, t) # None
  PROVE  Slot(hash, t) \in DOMAIN hash.key /\ hash.key[Slot(hash, t)] = t
<1> DEFINE hit == {k \in 0 .. hash.capacity - 1 :
                     /\ hash.key[Probe(hash, t, k)] = t
                     /\ \A m \in 0 .. k - 1 : hash.key[Probe(hash, t, m)] # None}
<1>1. hit # {} /\ Slot(hash, t) = Probe(hash, t, CHOOSE k \in hit : TRUE)
  BY DEF Slot
<1>2. hit \subseteq Nat
  BY TableParts
<1>3. \A k \in hit : hash.key[Probe(hash, t, k)] = t
  OBVIOUS
<1> HIDE DEF hit
<1> DEFINE c == CHOOSE k \in hit : TRUE
<1>4. c \in hit
  BY <1>1
<1> HIDE DEF c
<1>5. Slot(hash, t) = Probe(hash, t, c)
  BY <1>1 DEF c
<1>6. Probe(hash, t, c) \in 0 .. hash.capacity - 1
  BY <1>2, <1>4, ProbeSlot
<1>7. DOMAIN hash.key = 0 .. hash.capacity - 1
  BY TableParts
<1> QED  BY <1>3, <1>4, <1>5, <1>6, <1>7

\* A search that finds nothing is right: the thread has no producer.
LEMMA FindFails ==
  ASSUME HashesOK, Reached, NEW t \in Threads, Find(t) = {}
  PROVE  ProducersOf(t) = {}
<1> SUFFICES ASSUME NEW p \in ProducersOf(t) PROVE FALSE
  OBVIOUS
<1>1. PICK h \in DOMAIN hashes : \E i \in DOMAIN hashes[h].key : hashes[h].key[i] = t
  BY ProducersOfIs
<1> DEFINE S == {k \in DOMAIN hashes : Slot(hashes[k], t) # None}
<1>2. h \in S
  BY <1>1, SlotFound
<1>3. Len(hashes) \in Nat /\ DOMAIN hashes = 1 .. Len(hashes)
  BY DEF HashesOK
<1>4. S \subseteq 1 .. Len(hashes)
  BY <1>3
<1> HIDE DEF S
<1>5. PICK x \in S : \A y \in S : y <= x
  BY <1>2, <1>3, <1>4, Greatest
<1>6. x \in DOMAIN hashes /\ Slot(hashes[x], t) # None
  BY DEF S
<1>7. \A k \in x + 1 .. Len(hashes) : Slot(hashes[k], t) = None
  <2>1. ASSUME NEW k \in x + 1 .. Len(hashes)
        PROVE  Slot(hashes[k], t) = None
    <3>1. k \in DOMAIN hashes /\ ~(k <= x)
      BY <1>3, <1>6
    <3> QED  BY <1>5, <3>1 DEF S
  <2> QED  BY <2>1
<1> QED  BY <1>6, <1>7 DEF Find

\* What a search finds is the thread's producer.
LEMMA FindSucceeds ==
  ASSUME HashesOK, NEW t \in Threads, NEW h \in Find(t)
  PROVE  hashes[h].value[Slot(hashes[h], t)] \in ProducersOf(t)
<1>1. h \in DOMAIN hashes /\ Slot(hashes[h], t) # None
  BY DEF Find
<1>2. hashes[h] \in Tables
  BY <1>1 DEF HashesOK
<1> QED  BY <1>1, <1>2, SlotIsOwn, ProducersOfIs

-----------------------------------------------------------------------------
(* What a step does to the tables.                                         *)

\* An insertion fills an empty slot, so a probe goes on reaching what it reached.
LEMMA InsertStep ==
  ASSUME HashesOK, Reached, NEW t \in Threads, NEW h \in DOMAIN hashes, NEW p \in Nat,
         Insert(h, t, p)
  PROVE  /\ hashes' \in Seq(Tables) /\ hashes' # << >> /\ DOMAIN hashes' = DOMAIN hashes
         /\ Reached'
         /\ ProducersOf(t)' = ProducersOf(t) \cup {p}
         /\ \A u \in Threads \ {t} : ProducersOf(u)' = ProducersOf(u)
<1> DEFINE hash == hashes[h]
<1>1. hash \in Tables /\ hashes \in Seq(Tables)
  BY DEF HashesOK
<1>2. /\ hash.capacity \in 1 .. MaxCapacity /\ DOMAIN hash = {"capacity", "key", "value"}
      /\ hash.key \in [0 .. hash.capacity - 1 -> Threads \cup {None}]
      /\ hash.value \in [0 .. hash.capacity - 1 -> Nat \cup {None}]
  BY <1>1, TableParts
<1>3. PICK i \in Free(hash, t) :
        hashes' = [hashes EXCEPT ![h].key[i] = t, ![h].value[i] = p]
  BY DEF Insert
<1>4. PICK n \in 0 .. hash.capacity - 1 :
        /\ i = Probe(hash, t, n) /\ hash.key[i] = None
        /\ \A m \in 0 .. n - 1 : hash.key[Probe(hash, t, m)] # None
  BY DEF Free
<1>5. i \in 0 .. hash.capacity - 1
  BY <1>1, <1>2, <1>4, ProbeSlot
<1> DEFINE new == [hash EXCEPT !.key = [hash.key EXCEPT ![i] = t],
                               !.value = [hash.value EXCEPT ![i] = p]]
<1>6. hashes' = [hashes EXCEPT ![h] = new]
  BY <1>3
<1>7. /\ new.capacity = hash.capacity /\ new.key = [hash.key EXCEPT ![i] = t]
      /\ new.value = [hash.value EXCEPT ![i] = p]
  BY <1>2
<1>8. new \in Tables
  <2>1. PICK c \in 1 .. MaxCapacity :
          hash \in [capacity : {c}, key : [0 .. c - 1 -> Threads \cup {None}],
                   value : [0 .. c - 1 -> Nat \cup {None}]]
    BY <1>1 DEF Tables
  <2> HIDE DEF hash
  <2>2. new \in [capacity : {c}, key : [0 .. c - 1 -> Threads \cup {None}],
                value : [0 .. c - 1 -> Nat \cup {None}]]
    BY <1>5, <2>1
  <2> QED  BY <2>2 DEF Tables
<1>9. t # None
  BY PoolAssumption
<1>10. /\ DOMAIN new.key = DOMAIN hash.key
       /\ new.key[i] = t /\ new.value[i] = p /\ i \in DOMAIN hash.key
       /\ \A j \in DOMAIN hash.key : j # i => new.key[j] = hash.key[j]
       /\ \A j \in DOMAIN hash.key : j # i => new.value[j] = hash.value[j]
  BY <1>2, <1>5, <1>7
<1> HIDE DEF new
<1>11. /\ hashes' \in Seq(Tables) /\ hashes' # << >> /\ DOMAIN hashes' = DOMAIN hashes
       /\ hashes'[h] = new /\ \A k \in DOMAIN hashes : k # h => hashes'[k] = hashes[k]
  BY <1>1, <1>6, <1>8 DEF HashesOK
<1>12. Reached'
  <2>1. SUFFICES ASSUME NEW k \in DOMAIN hashes, NEW j \in DOMAIN hashes'[k].key,
                        hashes'[k].key[j] # None
                 PROVE  Reaches(hashes'[k], hashes'[k].key[j], j)
    BY <1>11 DEF Reached
  <2>2. CASE k # h
    BY <1>11, <2>1, <2>2 DEF Reached
  <2>3. \A u, m : Probe(new, u, m) = Probe(hash, u, m)
    BY <1>7 DEF Probe
  <2>4. \A x : hash.key[x] # None => new.key[x] # None
    BY <1>7, <1>9, <1>2
  <2>5. CASE k = h /\ j = i
    <3>1. \A m \in 0 .. n - 1 : new.key[Probe(new, t, m)] # None
      BY <1>4, <2>3, <2>4
    <3>2. Reaches(new, t, i)
      BY <1>4, <1>7, <2>3, <3>1 DEF Reaches
    <3> QED  BY <1>10, <1>11, <2>5, <3>2
  <2>6. CASE k = h /\ j # i
    <3>1. j \in DOMAIN hash.key /\ new.key[j] = hash.key[j] /\ hash.key[j] # None
      BY <1>10, <1>11, <2>1, <2>6
    <3>2. Reaches(hash, hash.key[j], j)
      BY <3>1 DEF Reached
    <3>3. Reaches(new, hash.key[j], j)
      BY <1>7, <2>3, <2>4, <3>2 DEF Reaches
    <3> QED  BY <1>11, <2>6, <3>1, <3>3
  <2> QED  BY <2>2, <2>5, <2>6
<1>13. ASSUME NEW u \in Threads, NEW q
       PROVE  q \in ProducersOf(u)' <=> (q \in ProducersOf(u) \/ (u = t /\ q = p))
  <2>1. q \in ProducersOf(u)' <=>
          \E k \in DOMAIN hashes' : \E j \in DOMAIN hashes'[k].key :
            hashes'[k].key[j] = u /\ q = hashes'[k].value[j]
    BY DEF ProducersOf
  <2>2. u # None
    BY PoolAssumption
  <2>3. ASSUME q \in ProducersOf(u)
        PROVE  q \in ProducersOf(u)'
    <3>1. PICK k \in DOMAIN hashes : \E j \in DOMAIN hashes[k].key :
            hashes[k].key[j] = u /\ q = hashes[k].value[j]
      BY <2>3, ProducersOfIs
    <3> PICK j \in DOMAIN hashes[k].key : hashes[k].key[j] = u /\ q = hashes[k].value[j]
      BY <3>1
    <3>2. j \in DOMAIN hashes'[k].key /\ hashes'[k].key[j] = u /\ q = hashes'[k].value[j]
      BY <1>4, <1>10, <1>11, <2>2, <3>1
    <3> QED  BY <1>11, <2>1, <3>2
  <2>4. ASSUME u = t, q = p
        PROVE  q \in ProducersOf(u)'
    BY <1>10, <1>11, <2>1, <2>4
  <2>5. ASSUME q \in ProducersOf(u)'
        PROVE  q \in ProducersOf(u) \/ (u = t /\ q = p)
    <3>1. PICK k \in DOMAIN hashes' : \E j \in DOMAIN hashes'[k].key :
            hashes'[k].key[j] = u /\ q = hashes'[k].value[j]
      BY <2>1, <2>5
    <3> PICK j \in DOMAIN hashes'[k].key : hashes'[k].key[j] = u /\ q = hashes'[k].value[j]
      BY <3>1
    <3>2. CASE k = h /\ j = i
      BY <1>10, <1>11, <3>1, <3>2
    <3>3. CASE ~(k = h /\ j = i)
      <4>1. j \in DOMAIN hashes[k].key /\ hashes[k].key[j] = u /\ q = hashes[k].value[j]
        BY <1>10, <1>11, <3>1, <3>3
      <4> QED  BY <1>11, <4>1, ProducersOfIs
    <3> QED  BY <3>2, <3>3
  <2> QED  BY <2>3, <2>4, <2>5
<1>14. ProducersOf(t)' = ProducersOf(t) \cup {p}
  BY <1>13
<1>15. \A u \in Threads \ {t} : ProducersOf(u)' = ProducersOf(u)
  BY <1>13
<1> QED  BY <1>11, <1>12, <1>14, <1>15

\* A new table is empty: nobody's producers change.
LEMMA NewTable ==
  ASSUME HashesOK, Reached, NEW c \in 1 .. MaxCapacity,
         hashes' = Append(hashes, EmptyHash(c))
  PROVE  /\ hashes' \in Seq(Tables) /\ hashes' # << >>
         /\ DOMAIN hashes' = DOMAIN hashes \cup {Len(hashes) + 1}
         /\ Reached'
         /\ \A u \in Threads : ProducersOf(u)' = ProducersOf(u)
<1> DEFINE new == EmptyHash(c)
<1>1. new \in Tables
  BY DEF EmptyHash, Tables
<1>2. \A i \in DOMAIN new.key : new.key[i] = None
  BY DEF EmptyHash
<1> HIDE DEF new
<1>3. /\ hashes' \in Seq(Tables) /\ hashes' # << >>
      /\ DOMAIN hashes' = DOMAIN hashes \cup {Len(hashes) + 1}
      /\ hashes'[Len(hashes) + 1] = new /\ Len(hashes) + 1 \notin DOMAIN hashes
      /\ \A k \in DOMAIN hashes : hashes'[k] = hashes[k]
  BY <1>1 DEF HashesOK, new
<1>4. Reached'
  BY <1>2, <1>3 DEF Reached
<1>5. ASSUME NEW u \in Threads
      PROVE  ProducersOf(u)' = ProducersOf(u)
  <2>1. u # None
    BY PoolAssumption
  <2>2. ASSUME NEW q
        PROVE  q \in ProducersOf(u)' <=> q \in ProducersOf(u)
    <3>1. q \in ProducersOf(u)' <=>
            \E k \in DOMAIN hashes' : \E j \in DOMAIN hashes'[k].key :
              hashes'[k].key[j] = u /\ q = hashes'[k].value[j]
      BY DEF ProducersOf
    <3> QED  BY <1>2, <1>3, <2>1, <3>1, ProducersOfIs
  <2> QED  BY <2>2
<1> QED  BY <1>3, <1>4, <1>5

-----------------------------------------------------------------------------
(* Steps that register nothing.                                            *)

\* Thread t's step leaves its registration and its producer alone.
Quiet(t) ==
  /\ LocalsOK' /\ \A u \in Threads \ {t} : me'[u] = me[u]
  /\ me'[t].pc \notin Registering
  /\ Enqueuing(t)' => Enqueuing(t) /\ me'[t].producer = me[t].producer

\* Go changes one thread's locals as it is told, and its program counter.
LEMMA GoIs ==
  ASSUME LocalsOK, NEW t \in Threads, NEW pc, NEW m, Fields \subseteq DOMAIN m, Go(t, pc, m)
  PROVE  /\ DOMAIN me' = Threads /\ \A u \in Threads \ {t} : me'[u] = me[u]
         /\ Fields \subseteq DOMAIN me'[t] /\ me'[t].pc = pc /\ me'[t].back = m.back
         /\ me'[t].producer = m.producer /\ me'[t].mainHash = m.mainHash
BY DEF Go, LocalsOK, Fields

\* What a step of thread t may do to the producers: the other threads keep theirs, t
\* keeps its own or takes the one that was just created.
LEMMA OwnStep ==
  ASSUME OwnInv, NEW t \in Threads, LocalsOK', \A u \in Threads \ {t} : me'[u] = me[u],
         hashes' \in Seq(Tables), hashes' # << >>, DOMAIN hashes \subseteq DOMAIN hashes',
         Reached', \A u \in Threads \ {t} : ProducersOf(u)' = ProducersOf(u),
         \/ Claimed(t)' \subseteq Claimed(t) /\ producerCount' = producerCount
         \/ Claimed(t)' = {producerCount'} /\ producerCount' = producerCount + 1,
         me'[t].pc \in Registering => me'[t].mainHash \in DOMAIN hashes',
         me'[t].pc \in Lacking \cup {"enlist"} => ProducersOf(t)' = {},
         Enqueuing(t)' => me'[t].producer \in ProducersOf(t)'
  PROVE  OwnInv'
<1>1. HashesOK'
  BY DEF OwnInv, HashesOK
<1>2. \A u \in Threads \ {t} : Claimed(u)' = Claimed(u)
  BY DEF Claimed
<1>3. MainHashOK'
  BY DEF OwnInv, MainHashOK
<1>4. producerCount \in Nat /\ \A u \in Threads : Claimed(u) \subseteq 1 .. producerCount
  BY DEF OwnInv, HashesOK, Named
<1>5. Named'
  BY <1>2, <1>4 DEF OwnInv, Named
<1>6. Apart'
  <2>1. \A u \in Threads \ {t} : Claimed(t)' \cap Claimed(u) = {}
    BY <1>4 DEF OwnInv, Apart
  <2> QED  BY <1>2, <2>1 DEF OwnInv, Apart
<1>7. Fresh'
  BY DEF OwnInv, Fresh
<1>8. Settled'
  BY DEF OwnInv, Settled, Enqueuing
<1> QED  BY <1>1, <1>3, <1>5, <1>6, <1>7, <1>8 DEF OwnInv

\* A step of another part of the queue preserves the invariant.
LEMMA QuietStep ==
  ASSUME OwnInv, NEW t \in Threads, Quiet(t), UNCHANGED <<hashes, producerCount>>
  PROVE  OwnInv'
<1>1. \A u \in Threads : ProducersOf(u)' = ProducersOf(u)
  BY DEF ProducersOf
<1>2. LocalsOK' /\ (\A u \in Threads \ {t} : me'[u] = me[u]) /\ me'[t].pc \notin Registering
  BY DEF Quiet
<1>3. Claimed(t)' \subseteq Claimed(t)
  BY <1>1, <1>2 DEF Claimed, Registering
<1>4. hashes' \in Seq(Tables) /\ hashes' # << >> /\ Reached'
  BY DEF OwnInv, HashesOK, Reached, Reaches, Probe
<1>5. Enqueuing(t)' => me'[t].producer \in ProducersOf(t)'
  BY <1>1 DEF Quiet, OwnInv, Settled
<1>6. me'[t].pc \notin Lacking \cup {"enlist"}
  BY <1>2 DEF Registering
<1> QED  BY <1>1, <1>2, <1>3, <1>4, <1>5, <1>6, OwnStep

\* A thread that takes or gives back a block goes on to do so, or returns to its call.
LEMMA PoolQuiet ==
  ASSUME LocalsOK, NEW t \in Threads, PoolStep(t)
  PROVE  Quiet(t)
<1> USE DEF At, Fields
<1>1. me[t].pc \in PoolSteps /\ me[t].back \in Backs /\ Fields \subseteq DOMAIN me[t]
  BY DEF PoolStep, PoolLoad, PoolTake, GetHead, GetRefs, GetHold, GetNext, GetSwap, GetTaken,
         GetDrop, AddFlag, LinkHead, LinkNext, LinkRefs, LinkSwap, Unlink, PoolSteps, LocalsOK
<1>2. ASSUME NEW pc, NEW m, Go(t, pc, m), pc \in PoolSteps \cup {me[t].back},
             Fields \subseteq DOMAIN m, m.back = me[t].back, m.producer = me[t].producer
      PROVE  Quiet(t)
  <2>1. /\ DOMAIN me' = Threads /\ \A u \in Threads \ {t} : me'[u] = me[u]
        /\ Fields \subseteq DOMAIN me'[t] /\ me'[t].pc = pc /\ me'[t].back = me[t].back
        /\ me'[t].producer = me[t].producer
    BY <1>2, GoIs
  <2>2. LocalsOK'
    BY <1>1, <2>1 DEF LocalsOK
  <2> QED  BY <1>1, <1>2, <2>1, <2>2
           DEF Quiet, Enqueuing, PoolSteps, Backs, Registering, Lacking
<1>3. ASSUME NEW block, Return(t, block)
      PROVE  Quiet(t)
  BY <1>1, <1>2, <1>3 DEF Return
<1>4. ASSUME Added(t)
      PROVE  Quiet(t)
  BY <1>1, <1>2, <1>4 DEF Added, PoolSteps
<1>5. ASSUME Loop(t)
      PROVE  Quiet(t)
  BY <1>1, <1>2, <1>3, <1>5 DEF Loop, PoolSteps
<1>6. CASE PoolLoad(t)
  BY <1>1, <1>2, <1>6 DEF PoolLoad, PoolSteps
<1>7. CASE PoolTake(t)
  BY <1>1, <1>2, <1>3, <1>7 DEF PoolTake, PoolSteps
<1>8. CASE GetHead(t)
  BY <1>1, <1>2, <1>3, <1>8 DEF GetHead, PoolSteps
<1>9. CASE GetRefs(t)
  BY <1>1, <1>2, <1>9 DEF GetRefs, PoolSteps
<1>10. CASE GetHold(t)
  BY <1>1, <1>2, <1>10 DEF GetHold, PoolSteps
<1>11. CASE GetNext(t)
  BY <1>1, <1>2, <1>11 DEF GetNext, PoolSteps
<1>12. CASE GetSwap(t)
  BY <1>1, <1>2, <1>12 DEF GetSwap, PoolSteps
<1>13. CASE GetTaken(t)
  BY <1>3, <1>13 DEF GetTaken
<1>14. CASE GetDrop(t)
  BY <1>1, <1>2, <1>5, <1>14 DEF GetDrop, PoolSteps
<1>15. CASE AddFlag(t)
  BY <1>1, <1>2, <1>4, <1>15 DEF AddFlag, PoolSteps
<1>16. CASE LinkHead(t)
  BY <1>1, <1>2, <1>16 DEF LinkHead, PoolSteps
<1>17. CASE LinkNext(t)
  BY <1>1, <1>2, <1>17 DEF LinkNext, PoolSteps
<1>18. CASE LinkRefs(t)
  BY <1>1, <1>2, <1>18 DEF LinkRefs, PoolSteps
<1>19. CASE LinkSwap(t)
  BY <1>1, <1>2, <1>4, <1>19 DEF LinkSwap, PoolSteps
<1>20. CASE Unlink(t)
  BY <1>1, <1>2, <1>4, <1>20 DEF Unlink, PoolSteps
<1> QED  BY <1>6, <1>7, <1>8, <1>9, <1>10, <1>11, <1>12, <1>13, <1>14, <1>15, <1>16, <1>17,
            <1>18, <1>19, <1>20 DEF PoolStep

\* The end of a call forgets the producer it used.
LEMMA FinishQuiet ==
  ASSUME LocalsOK, NEW t \in Threads, NEW short, Finish(t, short)
  PROVE  Quiet(t)
<1> DEFINE m == [Idle EXCEPT !.failing = me[t].failing, !.short = short]
<1>1. /\ Fields \subseteq DOMAIN m /\ m.pc = "idle" /\ m.back = "idle"
  BY DEF Idle, Fields
<1>2. me' = [me EXCEPT ![t] = m]
  BY DEF Finish
<1> HIDE DEF m
<1>3. DOMAIN me' = Threads /\ me'[t] = m /\ \A u \in Threads \ {t} : me'[u] = me[u]
  BY <1>2 DEF LocalsOK
<1>4. LocalsOK'
  BY <1>1, <1>3 DEF LocalsOK, Backs
<1> QED  BY <1>1, <1>3, <1>4 DEF Quiet, Enqueuing, PoolSteps, Registering, Lacking

\* An enqueue that has its producer keeps it to its end.
LEMMA PutQuiet ==
  ASSUME LocalsOK, NEW t \in Threads, PutStep(t)
  PROVE  Quiet(t)
<1> USE DEF At, Fields
<1>1. me[t].back \in Backs /\ Fields \subseteq DOMAIN me[t]
  BY DEF LocalsOK
<1>2. ASSUME NEW pc, NEW m, Go(t, pc, m), Fields \subseteq DOMAIN m, m.back \in Backs,
             m.producer = me[t].producer, me[t].pc \in {"first", "attach", "unindex"},
             pc \in {"first", "attach", "unindex", "requisition", "add"}
      PROVE  Quiet(t)
  <2>1. /\ DOMAIN me' = Threads /\ \A u \in Threads \ {t} : me'[u] = me[u]
        /\ Fields \subseteq DOMAIN me'[t] /\ me'[t].pc = pc /\ me'[t].back = m.back
        /\ me'[t].producer = me[t].producer
    BY <1>2, GoIs
  <2>2. LocalsOK'
    BY <1>2, <2>1 DEF LocalsOK
  <2> QED  BY <1>2, <2>1, <2>2 DEF Quiet, Enqueuing, Registering, Lacking
<1>3. CASE Enqueue(t)
  <2> DEFINE m == [me[t] EXCEPT !.items = Head(todo[t]).items]
  <2>1. Go(t, "search", m) /\ Fields \subseteq DOMAIN m /\ m.back = me[t].back
    BY <1>1, <1>3 DEF Enqueue
  <2> HIDE DEF m
  <2>2. /\ DOMAIN me' = Threads /\ \A u \in Threads \ {t} : me'[u] = me[u]
        /\ Fields \subseteq DOMAIN me'[t] /\ me'[t].pc = "search" /\ me'[t].back = me[t].back
    BY <2>1, GoIs
  <2>3. LocalsOK'
    BY <1>1, <2>2 DEF LocalsOK
  <2> QED  BY <2>2, <2>3 DEF Quiet, Enqueuing, PoolSteps, Registering, Lacking
<1>4. CASE insert_block_index_entry(t)
  BY <1>1, <1>2, <1>4 DEF insert_block_index_entry, Backs
<1>5. CASE Attach(t)
  BY <1>1, <1>2, <1>5 DEF Attach
<1>6. CASE Unindex(t)
  BY <1>1, <1>2, <1>6 DEF Unindex
<1>7. CASE add_blocks_to_free_list(t)
  BY <1>1, <1>2, <1>7 DEF add_blocks_to_free_list, Backs
<1>8. CASE Refused(t)
  BY <1>8, FinishQuiet DEF Refused
<1>9. CASE Publish(t)
  BY <1>9, FinishQuiet DEF Publish
<1> QED  BY <1>3, <1>4, <1>5, <1>6, <1>7, <1>8, <1>9 DEF PutStep

\* A dequeue neither registers its thread nor uses the thread's own producer.
LEMMA TakeQuiet ==
  ASSUME LocalsOK, NEW t \in Threads, TakeStep(t)
  PROVE  Quiet(t)
<1> USE DEF At, Fields
<1>1. me[t].back \in Backs /\ Fields \subseteq DOMAIN me[t]
  BY DEF LocalsOK
<1> DEFINE Taking == {"rotate", "tail", "over", "optimistic", "claim", "again", "correct",
                      "head", "find", "key", "move", "assert", "empty", "detach", "dequeued"}
<1>2. ASSUME NEW pc, NEW m, Go(t, pc, m), Fields \subseteq DOMAIN m, m.back \in Backs,
             pc \in Taking \/ (pc = "add" /\ m.back = "freed")
      PROVE  Quiet(t)
  <2>1. /\ DOMAIN me' = Threads /\ \A u \in Threads \ {t} : me'[u] = me[u]
        /\ Fields \subseteq DOMAIN me'[t] /\ me'[t].pc = pc /\ me'[t].back = m.back
    BY <1>2, GoIs
  <2>2. LocalsOK'
    BY <1>2, <2>1 DEF LocalsOK
  <2> QED  BY <1>2, <2>1, <2>2 DEF Quiet, Enqueuing, PoolSteps, Registering, Lacking
<1>3. CASE Dequeue(t)
  <2> DEFINE asked == [me[t] EXCEPT !.max = Head(todo[t]).max,
                                    !.promised = Cardinality(Present(Names))]
  <2>1. \/ Finish(t, FALSE)
        \/ Go(t, "rotate", [asked EXCEPT !.listTail = TailOfList])
        \/ Go(t, "tail", [asked EXCEPT !.ptr = token[t].currentProducer])
    BY <1>3 DEF Dequeue
  <2>2. Fields \subseteq DOMAIN asked /\ asked.back = me[t].back
    BY <1>1
  <2> HIDE DEF asked
  <2> QED  BY <1>1, <1>2, <2>1, <2>2, FinishQuiet
<1>4. CASE update_current_producer_after_rotation(t)
  <2>1. PICK new : Go(t, "tail", [me[t] EXCEPT !.ptr = new])
    BY <1>4 DEF update_current_producer_after_rotation
  <2> QED  BY <1>1, <1>2, <2>1
<1>5. CASE Dequeued(t)
  <2>1. \/ \E short : Finish(t, short)
        \/ \E ptr, listTail, max : Go(t, "tail", [me[t] EXCEPT !.ptr = ptr, !.walking = TRUE,
                                     !.n = 0, !.listTail = listTail, !.max = max])
    BY <1>5 DEF Dequeued
  <2> QED  BY <1>1, <1>2, <2>1, FinishQuiet
<1>6. CASE LoadTail(t)
  BY <1>1, <1>2, <1>6 DEF LoadTail
<1>7. CASE LoadOvercommit(t)
  BY <1>1, <1>2, <1>7 DEF LoadOvercommit
<1>8. CASE LoadCount(t)
  BY <1>1, <1>2, <1>8 DEF LoadCount
<1>9. CASE Claim(t)
  BY <1>1, <1>2, <1>9 DEF Claim
<1>10. CASE LoadAgain(t)
  BY <1>1, <1>2, <1>10 DEF LoadAgain
<1>11. CASE Correct(t)
  BY <1>1, <1>2, <1>11 DEF Correct
<1>12. CASE TakeHead(t)
  BY <1>1, <1>2, <1>12 DEF TakeHead
<1>13. CASE FindTail(t)
  BY <1>1, <1>2, <1>13 DEF FindTail
<1>14. CASE FindKey(t)
  BY <1>1, <1>2, <1>14 DEF FindKey
<1>15. CASE Move(t)
  BY <1>1, <1>2, <1>15 DEF Move
<1>16. ASSUME NextBlock(t)
       PROVE  Quiet(t)
  BY <1>1, <1>2, <1>16 DEF NextBlock
<1>17. CASE set_many_empty(t)
  BY <1>1, <1>2, <1>16, <1>17 DEF set_many_empty
<1>18. CASE Detach(t)
  BY <1>1, <1>2, <1>18 DEF Detach, Backs
<1>19. CASE Freed(t)
  BY <1>16, <1>19 DEF Freed
<1> QED  BY <1>3, <1>4, <1>5, <1>6, <1>7, <1>8, <1>9, <1>10, <1>11, <1>12, <1>13, <1>14, <1>15,
            <1>17, <1>18, <1>19 DEF TakeStep

-----------------------------------------------------------------------------
(* The steps of get_or_add_implicit_producer.                              *)

\* A step of the search or of the registration preserves the invariant.
LEMMA HashPreserves ==
  ASSUME OwnInv, NEW t \in Threads, HashStep(t)
  PROVE  OwnInv'
<1> USE DEF At, Fields
<1>1. me[t].back \in Backs /\ Fields \subseteq DOMAIN me[t] /\ LocalsOK
  BY DEF OwnInv, LocalsOK
<1>2. /\ hashes \in Seq(Tables) /\ hashes # << >> /\ HashesOK /\ Reached /\ producerCount \in Nat
      /\ Len(hashes) \in DOMAIN hashes
  BY DEF OwnInv, HashesOK
<1>3. ASSUME NEW pc, NEW m, Go(t, pc, m), Fields \subseteq DOMAIN m, m.back = me[t].back
      PROVE  /\ LocalsOK' /\ \A u \in Threads \ {t} : me'[u] = me[u]
             /\ me'[t].pc = pc /\ me'[t].producer = m.producer /\ me'[t].mainHash = m.mainHash
  <2>1. /\ DOMAIN me' = Threads /\ \A u \in Threads \ {t} : me'[u] = me[u]
        /\ Fields \subseteq DOMAIN me'[t] /\ me'[t].pc = pc /\ me'[t].back = me[t].back
        /\ me'[t].producer = m.producer /\ me'[t].mainHash = m.mainHash
    BY <1>1, <1>3, GoIs
  <2> QED  BY <1>1, <2>1 DEF LocalsOK
<1>4. ASSUME UNCHANGED hashes
      PROVE  Reached' /\ \A u : ProducersOf(u)' = ProducersOf(u)
  BY <1>2, <1>4 DEF ProducersOf, Reached, Reaches, Probe
\* Steps that go on from one point without a producer to the next, with a table.
<1>5. ASSUME NEW pc \in Lacking, NEW m, Go(t, pc, m), Fields \subseteq DOMAIN m,
             m.back = me[t].back, m.mainHash \in DOMAIN hashes,
             me[t].pc \in Lacking, UNCHANGED <<hashes, producerCount>>
      PROVE  OwnInv'
  <2>1. /\ LocalsOK' /\ \A u \in Threads \ {t} : me'[u] = me[u]
        /\ me'[t].pc = pc /\ me'[t].mainHash = m.mainHash
    BY <1>3, <1>5
  <2>2. Reached' /\ \A u \in Threads : ProducersOf(u)' = ProducersOf(u)
    BY <1>4, <1>5
  <2>3. ProducersOf(t) = {}
    BY <1>5 DEF OwnInv, Fresh
  <2>4. Claimed(t)' = {} /\ ~Enqueuing(t)'
    BY <1>5, <2>1, <2>2, <2>3 DEF Claimed, Lacking, Enqueuing, PoolSteps
  <2> QED  BY <1>2, <1>5, <2>1, <2>2, <2>3, <2>4, OwnStep
<1>6. CASE Search(t)
  <2>1. UNCHANGED <<hashes, producerCount>>
    BY <1>6 DEF Search, hashVars
  <2>2. Reached' /\ \A u \in Threads : ProducersOf(u)' = ProducersOf(u)
    BY <1>4, <2>1
  <2>3. ASSUME NEW h \in Find(t), NEW pc \in {"first", "readd"},
               Go(t, pc, [me[t] EXCEPT !.producer = hashes[h].value[Slot(hashes[h], t)],
                                       !.mainHash = Len(hashes)])
        PROVE  OwnInv'
    <3> DEFINE value == hashes[h].value[Slot(hashes[h], t)]
    <3> DEFINE m == [me[t] EXCEPT !.producer = value, !.mainHash = Len(hashes)]
    <3>1. value \in ProducersOf(t)
      BY <1>2, FindSucceeds
    <3> HIDE DEF value
    <3>2. /\ Fields \subseteq DOMAIN m /\ m.back = me[t].back /\ m.producer = value
          /\ m.mainHash = Len(hashes)
      BY <1>1
    <3>3. Go(t, pc, m)
      BY <2>3 DEF value
    <3> HIDE DEF m
    <3>4. /\ LocalsOK' /\ \A u \in Threads \ {t} : me'[u] = me[u]
          /\ me'[t].pc = pc /\ me'[t].producer = value /\ me'[t].mainHash = Len(hashes)
      BY <1>3, <3>2, <3>3
    <3>5. Claimed(t)' \subseteq Claimed(t)
      BY <2>2, <3>1, <3>4 DEF Claimed
    <3>6. pc \notin Lacking \cup {"enlist"}
      BY DEF Lacking
    <3> QED  BY <1>2, <2>1, <2>2, <3>1, <3>4, <3>5, <3>6, OwnStep
  <2>4. ASSUME Find(t) = {}, Go(t, "count", [me[t] EXCEPT !.mainHash = Len(hashes)])
        PROVE  OwnInv'
    <3>1. /\ LocalsOK' /\ \A u \in Threads \ {t} : me'[u] = me[u]
          /\ me'[t].pc = "count" /\ me'[t].mainHash = Len(hashes)
      BY <1>1, <1>3, <2>4
    <3>2. ProducersOf(t)' = {}
      BY <1>2, <2>2, <2>4, FindFails
    <3>3. Claimed(t)' = {} /\ ~Enqueuing(t)'
      BY <3>1, <3>2 DEF Claimed, Enqueuing, PoolSteps
    <3> QED  BY <1>2, <2>1, <2>2, <3>1, <3>2, <3>3, OwnStep
  <2> QED  BY <1>6, <2>3, <2>4 DEF Search
<1>7. CASE Readd(t)
  <2> DEFINE p == me[t].producer
             h == me[t].mainHash
  <2>1. h \in DOMAIN hashes /\ p \in Claimed(t) /\ p \in Nat
    <3>1. me[t].pc = "readd"
      BY <1>7 DEF Readd
    <3>2. h \in DOMAIN hashes
      BY <3>1 DEF OwnInv, MainHashOK, Registering
    <3>3. p \in Claimed(t)
      BY <3>1 DEF Claimed
    <3>4. Claimed(t) \subseteq 1 .. producerCount
      BY DEF OwnInv, Named
    <3> QED  BY <1>2, <3>2, <3>3, <3>4
  <2>2. Insert(h, t, p) /\ Go(t, "first", me[t]) /\ producerCount' = producerCount
    BY <1>7 DEF Readd
  <2> HIDE DEF h
  <2>3. /\ hashes' \in Seq(Tables) /\ hashes' # << >> /\ DOMAIN hashes' = DOMAIN hashes
        /\ Reached' /\ ProducersOf(t)' = ProducersOf(t) \cup {p}
        /\ \A u \in Threads \ {t} : ProducersOf(u)' = ProducersOf(u)
    BY <1>2, <2>1, <2>2, InsertStep
  <2>4. /\ LocalsOK' /\ \A u \in Threads \ {t} : me'[u] = me[u]
        /\ me'[t].pc = "first" /\ me'[t].producer = p
    BY <1>1, <1>3, <2>2
  <2>5. Claimed(t)' \subseteq Claimed(t)
    BY <2>1, <2>3, <2>4 DEF Claimed
  <2>6. "first" \notin Lacking \cup {"enlist"} /\ "first" \notin Registering
    BY DEF Lacking, Registering
  <2> QED  BY <1>2, <2>2, <2>3, <2>4, <2>5, <2>6, OwnStep
<1>8. CASE CountThread(t)
  BY <1>1, <1>5, <1>8 DEF CountThread, OwnInv, MainHashOK, Registering, Lacking
<1>9. CASE Grow(t)
  BY <1>1, <1>5, <1>9 DEF Grow, OwnInv, MainHashOK, Registering, Lacking
<1>10. CASE Resize(t)
  <2>1. CASE UNCHANGED hashes
    BY <1>1, <1>2, <1>5, <1>10, <2>1 DEF Resize, Lacking
  <2>2. ASSUME NEW c \in Doubled(Len(hashes), me[t].newCount),
               hashes' = Append(hashes, EmptyHash(c)),
               Go(t, "resized", [me[t] EXCEPT !.mainHash = Len(hashes) + 1])
        PROVE  OwnInv'
    <3>1. c \in 1 .. MaxCapacity
      BY DEF Doubled
    <3>2. /\ hashes' \in Seq(Tables) /\ hashes' # << >> /\ Reached'
          /\ DOMAIN hashes' = DOMAIN hashes \cup {Len(hashes) + 1}
          /\ \A u \in Threads : ProducersOf(u)' = ProducersOf(u)
      BY <1>2, <2>2, <3>1, NewTable
    <3>3. /\ LocalsOK' /\ \A u \in Threads \ {t} : me'[u] = me[u]
          /\ me'[t].pc = "resized" /\ me'[t].mainHash = Len(hashes) + 1
      BY <1>1, <1>3, <2>2
    <3>4. ProducersOf(t)' = {}
      BY <1>10, <3>2 DEF Resize, OwnInv, Fresh, Lacking
    <3>5. Claimed(t)' = {} /\ ~Enqueuing(t)'
      BY <3>3, <3>4 DEF Claimed, Enqueuing, PoolSteps
    <3>6. producerCount' = producerCount
      BY <1>10 DEF Resize
    <3> QED  BY <1>2, <3>2, <3>3, <3>4, <3>5, <3>6, OwnStep
  <2> QED  BY <1>10, <2>1, <2>2 DEF Resize
<1>11. CASE Resized(t)
  BY <1>1, <1>5, <1>11 DEF Resized, OwnInv, MainHashOK, Registering, Lacking
<1>12. CASE Room(t)
  BY <1>1, <1>2, <1>5, <1>12 DEF Room, OwnInv, MainHashOK, Registering, Lacking, hashVars
<1>13. CASE Create(t)
  <2> DEFINE m == [me[t] EXCEPT !.producer = producerCount + 1]
  <2>1. /\ Fields \subseteq DOMAIN m /\ m.back = me[t].back /\ m.mainHash = me[t].mainHash
        /\ m.producer = producerCount + 1 /\ Go(t, "enlist", m)
    BY <1>1, <1>13 DEF Create
  <2> HIDE DEF m
  <2>2. /\ LocalsOK' /\ \A u \in Threads \ {t} : me'[u] = me[u]
        /\ me'[t].pc = "enlist" /\ me'[t].producer = producerCount + 1
        /\ me'[t].mainHash = me[t].mainHash
    BY <1>3, <2>1
  <2>3. UNCHANGED hashes /\ producerCount' = producerCount + 1
    BY <1>13 DEF Create
  <2>4. Reached' /\ \A u \in Threads : ProducersOf(u)' = ProducersOf(u)
    BY <1>4, <2>3
  <2>5. ProducersOf(t) = {} /\ me[t].mainHash \in DOMAIN hashes
    BY <1>13 DEF Create, OwnInv, Fresh, MainHashOK, Registering, Lacking
  <2>6. Claimed(t)' = {producerCount'} /\ ~Enqueuing(t)'
    BY <2>2, <2>3, <2>4, <2>5 DEF Claimed, Enqueuing, PoolSteps
  <2> QED  BY <1>2, <2>2, <2>3, <2>4, <2>5, <2>6, OwnStep
<1>14. CASE Enlist(t)
  <2>1. /\ LocalsOK' /\ \A u \in Threads \ {t} : me'[u] = me[u]
        /\ me'[t].pc = "readd" /\ me'[t].producer = me[t].producer /\ me'[t].mainHash = me[t].mainHash
    BY <1>1, <1>3, <1>14 DEF Enlist
  <2>2. UNCHANGED <<hashes, producerCount>>
    BY <1>14 DEF Enlist
  <2>3. Reached' /\ \A u \in Threads : ProducersOf(u)' = ProducersOf(u)
    BY <1>4, <2>2
  <2>4. Claimed(t)' = Claimed(t) /\ ~Enqueuing(t)'
    BY <1>14, <2>1, <2>3 DEF Enlist, Claimed, Enqueuing, PoolSteps
  <2>5. me[t].mainHash \in DOMAIN hashes /\ "readd" \notin Lacking \cup {"enlist"}
    BY <1>14 DEF Enlist, OwnInv, MainHashOK, Registering, Lacking
  <2> QED  BY <1>2, <2>1, <2>2, <2>3, <2>4, <2>5, OwnStep
<1>15. CASE AllocationFails(t)
  <2>1. /\ LocalsOK' /\ \A u \in Threads \ {t} : me'[u] = me[u]
        /\ me'[t].pc = "refused"
    BY <1>1, <1>3, <1>15 DEF AllocationFails
  <2>2. UNCHANGED <<hashes, producerCount>>
    BY <1>15 DEF AllocationFails
  <2>3. Quiet(t)
    BY <2>1 DEF Quiet, Enqueuing, PoolSteps, Registering, Lacking
  <2> QED  BY <2>2, <2>3, QuietStep
<1> QED  BY <1>6, <1>7, <1>8, <1>9, <1>10, <1>11, <1>12, <1>13, <1>14, <1>15 DEF HashStep

-----------------------------------------------------------------------------
(* The theorems.                                                           *)

\* A new queue has one empty table and no producer.
LEMMA OwnInit ==
  ASSUME Init
  PROVE  OwnInv
<1>1. LocalsOK /\ \A t \in Threads : me[t].pc = "idle"
  BY DEF Init, Idle, LocalsOK, Fields, Backs
<1>2. workload.hash \in 1 .. MaxCapacity
  BY QueueAssumption DEF Init
<1>3. hashes = <<EmptyHash(workload.hash)>> /\ producerCount = 0
  BY DEF Init, ProducerHashInit
<1>4. EmptyHash(workload.hash) \in Tables
  BY <1>2 DEF EmptyHash, Tables
<1>5. HashesOK
  BY <1>3, <1>4 DEF HashesOK
<1>6. \A h \in DOMAIN hashes : \A i \in DOMAIN hashes[h].key : hashes[h].key[i] = None
  <2>1. \A h \in DOMAIN hashes : hashes[h] = EmptyHash(workload.hash)
    BY <1>3
  <2>2. \A i \in DOMAIN EmptyHash(workload.hash).key : EmptyHash(workload.hash).key[i] = None
    BY DEF EmptyHash
  <2> QED  BY <2>1, <2>2
<1>7. Reached
  BY <1>6 DEF Reached
<1>8. \A t \in Threads : ProducersOf(t) = {}
  <2>1. ASSUME NEW t \in Threads
        PROVE  ProducersOf(t) = {}
    <3>1. t # None
      BY PoolAssumption
    <3> QED  BY <1>6, <3>1, ProducersOfIs
  <2> QED  BY <2>1
<1>9. \A t \in Threads : Claimed(t) = {} /\ ~Enqueuing(t) /\ me[t].pc \notin Registering
  BY <1>1, <1>8 DEF Claimed, Enqueuing, PoolSteps, Registering, Lacking
<1> QED  BY <1>1, <1>5, <1>7, <1>8, <1>9
         DEF OwnInv, MainHashOK, Named, Apart, Fresh, Settled

\* The invariant is inductive.
LEMMA OwnNext ==
  ASSUME OwnInv, [Next]_vars
  PROVE  OwnInv'
<1>1. ASSUME NEW t \in Threads, Step(t)
      PROVE  OwnInv'
  <2>1. LocalsOK
    BY DEF OwnInv
  <2>2. CASE HashStep(t)
    BY <2>2, HashPreserves
  <2>3. CASE (PoolStep(t) \/ PutStep(t) \/ TakeStep(t)) /\ UNCHANGED hashVars
    <3>1. Quiet(t)
      BY <2>1, <2>3, PoolQuiet, PutQuiet, TakeQuiet
    <3>2. UNCHANGED <<hashes, producerCount>>
      BY <2>3 DEF hashVars
    <3> QED  BY <3>1, <3>2, QuietStep
  <2> QED  BY <1>1, <2>2, <2>3 DEF Step
<1>2. CASE UNCHANGED vars
  <2>1. UNCHANGED <<me, hashes, producerCount>>
    BY <1>2 DEF vars, hashVars
  <2>2. \A t \in Threads : ProducersOf(t)' = ProducersOf(t)
    BY <2>1 DEF ProducersOf
  <2>3. \A t \in Threads : Claimed(t)' = Claimed(t) /\ Enqueuing(t)' = Enqueuing(t)
    BY <2>1, <2>2 DEF Claimed, Enqueuing
  <2>4. LocalsOK' /\ HashesOK' /\ MainHashOK' /\ Fresh'
    BY <2>1, <2>2 DEF OwnInv, LocalsOK, HashesOK, MainHashOK, Fresh
  <2>5. Reached'
    BY <2>1 DEF OwnInv, Reached, Reaches, Probe
  <2>6. Named' /\ Apart' /\ Settled'
    BY <2>1, <2>2, <2>3 DEF OwnInv, Named, Apart, Settled
  <2> QED  BY <2>4, <2>5, <2>6 DEF OwnInv
<1> QED  BY <1>1, <1>2 DEF Next, Terminated

\* The invariant holds of every state the queue reaches.
THEOREM OwnInvariant == Spec => []OwnInv
BY OwnInit, OwnNext, PTL DEF Spec

\* get_or_add_implicit_producer gives a thread the same producer at every call, found in
\* whichever table it was entered, and no other thread gets it: a resize, a failed
\* allocation or an insertion into the old table while another is made never costs a
\* thread its producer.
THEOREM ProducersAreOwn == Spec => []OwnProducer
<1>1. ASSUME OwnInv
      PROVE  OwnProducer
  <2>1. ASSUME NEW t \in Threads
        PROVE  Cardinality(ProducersOf(t)) <= 1
    <3>1. \A p, q \in ProducersOf(t) : p = q
      BY <1>1 DEF OwnInv, Named, Claimed
    <3>2. CASE ProducersOf(t) = {}
      <4>1. Cardinality(ProducersOf(t)) = 0
        BY <3>2, FS_EmptySet
      <4> QED  BY <4>1
    <3>3. CASE ProducersOf(t) # {}
      <4>1. PICK p : p \in ProducersOf(t)
        BY <3>3
      <4>2. ProducersOf(t) = {p}
        BY <3>1, <4>1
      <4>3. Cardinality({p}) = 1
        BY FS_Singleton
      <4> QED  BY <4>2, <4>3
    <3> QED  BY <3>2, <3>3
  <2>2. \A t \in Threads : \A u \in Threads \ {t} : ProducersOf(t) \cap ProducersOf(u) = {}
    BY <1>1 DEF OwnInv, Apart, Claimed
  <2> QED  BY <2>1, <2>2 DEF OwnProducer
<1> QED  BY <1>1, OwnInvariant, PTL

\* Two enqueues that run at once, whatever they are in the middle of (indexing a block,
\* waiting for one from the free list, taking a failed bulk back), write to different
\* producers: the plain loads and stores of tailIndex, tailBlock and the block
\* index in ImplicitProducer::enqueue have one writer.
THEOREM OneWriter == Spec => []SingleWriter
<1>1. ASSUME OwnInv
      PROVE  SingleWriter
  <2>1. \A t \in Threads : Enqueuing(t) => me[t].producer \in Claimed(t)
    BY <1>1 DEF OwnInv, Settled, Claimed
  <2> QED  BY <1>1, <2>1 DEF OwnInv, Apart, SingleWriter
<1> QED  BY <1>1, OwnInvariant, PTL

-----------------------------------------------------------------------------
(* The walk of a consumer over the producers: its inductive invariant.     *)

\* The locals of a dequeue, the counters of a producer, and the steps of a dequeue: up to
\* the items it gets, and while it moves them and frees their blocks.
Kept == {"items", "ptr", "walking", "listTail", "max", "given", "promised", "short", "tailIndex",
         "overcommit", "dequeueCount", "want", "n"}
Counters == {"headIndex", "tailIndex", "dequeueOptimisticCount", "dequeueOvercommit"}
Claiming == {"over", "optimistic", "claim", "again", "head"}
Moving == {"find", "key", "move", "assert", "empty", "detach", "freed", "dequeued"}
Taking(t) ==
  \/ me[t].pc \in Moving
  \/ me[t].pc \in PoolSteps /\ me[t].back = "freed"
Consuming(t) == me[t].pc \in Claiming \cup {"rotate", "tail", "correct"} \/ Taking(t)

\* The list has every producer that a table gives, and each once.
Listed == {producerList[i] : i \in DOMAIN producerList}
ListInv ==
  /\ producerList \in Seq(1 .. producerCount)
  /\ \A i, j \in DOMAIN producerList : producerList[i] = producerList[j] => i = j
  /\ \A t \in Threads : /\ me[t].pc = "enlist" => me[t].producer \notin Listed
                        /\ me[t].pc = "readd" => me[t].producer \in Listed
                        /\ ProducersOf(t) \subseteq Listed
  /\ \A p \in 1 .. producerCount : \E t \in Threads : p \in Claimed(t)

\* A thread in a dequeue has a dequeue to do.
CallsOf(t) == {workload.calls[t][i] : i \in DOMAIN workload.calls[t]}
CallInv ==
  /\ workload \in Workloads /\ DOMAIN todo = Threads
  /\ \A t \in Threads :
       /\ todo[t] \in Seq(CallsOf(t)) /\ (me[t].pc # "idle" => todo[t] # << >>)
       /\ Consuming(t) => Head(todo[t]).op = "take"
       /\ me[t].pc \in PoolSteps => me[t].back # "idle"
       /\ Kept \subseteq DOMAIN me[t] /\ Len(me[t].items) \in Nat

\* A token's producers are on the list.
TokenOK(t) ==
  /\ {"initialOffset", "lastKnownGlobalOffset", "itemsConsumedFromCurrent", "currentProducer",
      "desiredProducer"} \subseteq DOMAIN token[t]
  /\ token[t].initialOffset \in Nat /\ token[t].lastKnownGlobalOffset \in Int
  /\ \/ token[t].desiredProducer = None
     \/ token[t].desiredProducer \in Listed /\ token[t].currentProducer \in Listed

\* The producer a walk is at, the tail it began from and the producer it will end at are
\* on the list, none of them before that tail.
OnRing(t) ==
  /\ me[t].ptr \in Listed /\ token[t].desiredProducer # None /\ me[t].walking \in BOOLEAN
  /\ IF me[t].walking
     THEN /\ me[t].listTail \in Listed /\ Place(me[t].listTail) <= Place(me[t].ptr)
          /\ Place(me[t].listTail) <= Place(token[t].currentProducer)
     ELSE me[t].ptr = token[t].currentProducer

RingOK(t) ==
  /\ TokenOK(t)
  /\ me[t].pc = "idle" => me[t].walking = FALSE /\ me[t].given = 0
  /\ me[t].pc = "rotate" => me[t].walking = FALSE /\ me[t].listTail \in Listed
  /\ Consuming(t) /\ me[t].pc # "rotate" => OnRing(t)

RingInv ==
  /\ DOMAIN token = Threads /\ globalExplicitConsumerOffset \in Int
  /\ \A t \in Threads : RingOK(t)

\* Only a listed producer has items.
CounterInv ==
  /\ DOMAIN producers = Names /\ IsFiniteSet(Present(Names))
  /\ \A p \in Names :
       /\ Counters \subseteq DOMAIN producers[p] /\ \A f \in Counters : producers[p][f] \in Nat
       /\ p \notin Listed => producers[p].tailIndex = producers[p].headIndex

\* With one consumer nothing is ever claimed in vain, and what is claimed and not yet
\* taken is what that consumer is about to take.
Exact ==
  \A p \in Names :
    /\ producers[p].dequeueOvercommit = 0 /\ producers[p].headIndex <= producers[p].tailIndex
    /\ (\A t \in Threads : ~(me[t].pc \in {"again", "head"} /\ me[t].ptr = p))
         => producers[p].dequeueOptimisticCount = producers[p].headIndex

\* The producers that a walk has still before it: those that follow ptr on the ring that
\* begins at listTail, as far as the token's producer.
Between(from, to, y) == IF from < to THEN from < y /\ y < to ELSE y > from \/ y < to
AheadIn(list, walking, ptr, listTail, current) ==
  IF ~walking THEN {list[i] : i \in DOMAIN list} \ {ptr}
  ELSE {list[i] : i \in {k \in PlaceIn(list, listTail) .. Len(list) :
                            Between(PlaceIn(list, ptr), PlaceIn(list, current), k)}}
Ahead(t) ==
  AheadIn(producerList, me[t].walking, me[t].ptr, me[t].listTail, token[t].currentProducer)

CallMax(t) == Head(todo[t]).max

\* What a dequeue has computed so far.
Amounts(t) ==
  /\ me[t].max \in Nat /\ me[t].given \in Nat /\ me[t].promised \in Nat
  /\ me[t].pc \in Claiming \cup {"correct"} => me[t].tailIndex \in Nat
  /\ me[t].pc \in (Claiming \ {"over"}) \cup {"correct"} => me[t].overcommit \in Nat
  /\ me[t].pc \in {"claim", "again", "head", "correct"} => me[t].want \in 0 .. me[t].max
  /\ me[t].pc \in {"again", "head", "correct"} => me[t].dequeueCount \in Nat
  /\ me[t].pc \in {"head", "correct"} => me[t].n \in 0 .. me[t].want
  /\ Taking(t) => me[t].n \in 0 .. me[t].max
AmountInv == \A t \in Threads : Consuming(t) => Amounts(t)

\* What was promised is what was given and what is present with the producers that are
\* still to be asked: before the walk, before a producer is asked, while it is asked, and
\* when it was.
AtRotate(t) ==
  /\ me[t].given = 0 /\ me[t].max = CallMax(t)
  /\ me[t].promised <= Cardinality(Present(Listed))

AtTail(t) ==
  /\ me[t].given + me[t].max = CallMax(t)
  /\ me[t].promised <= me[t].given + Cardinality(Present(Ahead(t) \cup {me[t].ptr}))

AtClaim(t) ==
  LET m == me[t]
      q == producers[m.ptr]
      seen == m.tailIndex - q.headIndex
  IN  /\ m.given + m.max = CallMax(t)
      /\ m.tailIndex \in q.headIndex .. q.tailIndex
      /\ m.promised <= m.given + seen + Cardinality(Present(Ahead(t)))
      /\ m.pc # "over" => m.overcommit = 0
      /\ m.pc \in {"claim", "again", "head"} =>
           m.want <= seen /\ (m.want = m.max \/ m.want = seen)
      /\ m.pc \in {"again", "head"} => q.dequeueOptimisticCount = q.headIndex + m.want
      /\ m.pc = "again" => m.dequeueCount = q.headIndex
      /\ m.pc = "head" => m.n = m.want

AtMove(t) ==
  /\ me[t].given + me[t].max - me[t].n = CallMax(t)
  /\ \/ me[t].n = me[t].max
     \/ me[t].promised <= me[t].given + Cardinality(Present(Ahead(t)))

TakeOK(t) ==
  /\ me[t].short = FALSE
  /\ me[t].pc # "correct"
  /\ me[t].pc = "rotate" => AtRotate(t)
  /\ me[t].pc = "tail" => AtTail(t)
  /\ me[t].pc \in Claiming => AtClaim(t)
  /\ Taking(t) => AtMove(t)
TakeInv == \A t \in Threads : TakeOK(t)

\* What the proofs use of the queue with any number of consumers, and with one.
QueueInv ==
  /\ OwnInv /\ ListInv /\ CallInv /\ RingInv /\ CounterInv /\ AmountInv
  /\ Listed \subseteq Names
WalkInv == OneConsumer => Exact /\ TakeInv

-----------------------------------------------------------------------------
(* The list of producers.                                                  *)

\* The producers on the list and their places.
LEMMA ListedIs ==
  ASSUME ListInv
  PROVE  /\ Len(producerList) \in Nat /\ DOMAIN producerList = 1 .. Len(producerList)
         /\ Listed \subseteq 1 .. producerCount
         /\ \A i \in DOMAIN producerList :
              producerList[i] \in Listed /\ Place(producerList[i]) = i
         /\ \A p \in Listed : Place(p) \in DOMAIN producerList /\ producerList[Place(p)] = p
<1>1. Len(producerList) \in Nat /\ DOMAIN producerList = 1 .. Len(producerList)
  BY DEF ListInv
<1>2. \A i \in DOMAIN producerList : producerList[i] \in 1 .. producerCount
  <2> DEFINE S == 1 .. producerCount
  <2>1. producerList \in Seq(S)
    BY DEF ListInv
  <2> HIDE DEF S
  <2>2. \A i \in DOMAIN producerList : producerList[i] \in S
    BY <2>1
  <2> QED  BY <2>2 DEF S
<1>3. Listed \subseteq 1 .. producerCount
  BY <1>2 DEF Listed
<1>4. \A p \in Listed : Place(p) \in DOMAIN producerList /\ producerList[Place(p)] = p
  BY DEF Listed, Place, PlaceIn
<1>5. ASSUME NEW i \in DOMAIN producerList
      PROVE  producerList[i] \in Listed /\ Place(producerList[i]) = i
  <2>1. producerList[i] \in Listed
    BY DEF Listed
  <2> QED  BY <1>4, <2>1 DEF ListInv
<1> QED  BY <1>1, <1>3, <1>4, <1>5

\* A step that leaves the list alone, takes no thread's producer away and gives the
\* thread that takes it only a listed one.
LEMMA ListFrame ==
  ASSUME ListInv, NEW t \in Threads, UNCHANGED <<producerList, producerCount>>,
         \A u \in Threads \ {t} : me'[u] = me[u] /\ ProducersOf(u)' = ProducersOf(u),
         Claimed(t) \subseteq Claimed(t)', ProducersOf(t)' \subseteq Listed,
         me'[t].pc # "enlist", me'[t].pc = "readd" => me'[t].producer \in Listed
  PROVE  ListInv'
<1>1. Listed' = Listed
  BY DEF Listed
<1>2. \A u \in Threads : Claimed(u) \subseteq Claimed(u)'
  BY DEF Claimed
<1>3. \A p \in 1 .. producerCount : \E u \in Threads : p \in Claimed(u)'
  BY <1>2 DEF ListInv
<1>4. \A u \in Threads : /\ me'[u].pc = "enlist" => me'[u].producer \notin Listed
                         /\ me'[u].pc = "readd" => me'[u].producer \in Listed
                         /\ ProducersOf(u)' \subseteq Listed
  BY DEF ListInv
<1> QED  BY <1>1, <1>3, <1>4 DEF ListInv

\* A step of the search or of the registration: the list has every producer that a table
\* gives, and each once.
LEMMA ListHash ==
  ASSUME OwnInv, ListInv, NEW t \in Threads, HashStep(t)
  PROVE  ListInv'
<1> USE DEF At, Fields
<1>1. me[t].back \in Backs /\ Fields \subseteq DOMAIN me[t] /\ LocalsOK
  BY DEF OwnInv, LocalsOK
<1>2. /\ hashes \in Seq(Tables) /\ hashes # << >> /\ HashesOK /\ Reached /\ producerCount \in Nat
  BY DEF OwnInv, HashesOK
<1>3. ASSUME NEW pc, NEW m, Go(t, pc, m), Fields \subseteq DOMAIN m
      PROVE  /\ \A u \in Threads \ {t} : me'[u] = me[u]
             /\ me'[t].pc = pc /\ me'[t].producer = m.producer
  BY <1>1, <1>3, GoIs
<1>4. ASSUME UNCHANGED hashes
      PROVE  \A u : ProducersOf(u)' = ProducersOf(u)
  BY <1>4 DEF ProducersOf
<1>5. \A u \in Threads : ProducersOf(u) \subseteq Listed
  BY DEF ListInv
\* A thread that has no producer goes on without one.
<1>6. ASSUME me[t].pc \in Lacking, \A u \in Threads \ {t} : me'[u] = me[u],
             me'[t].pc \in Lacking \cup {"refused"},
             \A u \in Threads : ProducersOf(u)' = ProducersOf(u),
             UNCHANGED <<producerList, producerCount>>
      PROVE  ListInv'
  <2>1. Claimed(t) \subseteq Claimed(t)'
    BY <1>6 DEF Claimed, Lacking
  <2>2. me'[t].pc \notin {"enlist", "readd"}
    BY <1>6 DEF Lacking
  <2> QED  BY <1>5, <1>6, <2>1, <2>2, ListFrame
<1>7. CASE Search(t)
  <2>1. UNCHANGED <<hashes, producerList, producerCount>> /\ me[t].pc = "search"
    BY <1>7 DEF Search, hashVars
  <2>2. \A u \in Threads : ProducersOf(u)' = ProducersOf(u)
    BY <1>4, <2>1
  <2>3. Claimed(t) \subseteq Claimed(t)'
    BY <2>1, <2>2 DEF Claimed
  <2>4. ASSUME NEW h \in Find(t), NEW pc \in {"first", "readd"},
               Go(t, pc, [me[t] EXCEPT !.producer = hashes[h].value[Slot(hashes[h], t)],
                                       !.mainHash = Len(hashes)])
        PROVE  ListInv'
    <3> DEFINE value == hashes[h].value[Slot(hashes[h], t)]
               m == [me[t] EXCEPT !.producer = value, !.mainHash = Len(hashes)]
    <3>1. value \in ProducersOf(t)
      BY <1>2, FindSucceeds
    <3> HIDE DEF value
    <3>2. Fields \subseteq DOMAIN m /\ m.producer = value
      BY <1>1
    <3>3. Go(t, pc, m)
      BY <2>4 DEF value
    <3> HIDE DEF m
    <3>4. /\ \A u \in Threads \ {t} : me'[u] = me[u]
          /\ me'[t].pc = pc /\ me'[t].producer = value
      BY <1>3, <3>2, <3>3
    <3> QED  BY <1>5, <2>1, <2>2, <2>3, <3>1, <3>4, ListFrame
  <2>5. ASSUME Go(t, "count", [me[t] EXCEPT !.mainHash = Len(hashes)])
        PROVE  ListInv'
    <3>1. (\A u \in Threads \ {t} : me'[u] = me[u]) /\ me'[t].pc = "count"
      BY <1>1, <1>3, <2>5
    <3> QED  BY <1>5, <2>1, <2>2, <2>3, <3>1, ListFrame
  <2> QED  BY <1>7, <2>4, <2>5 DEF Search
<1>8. CASE Readd(t)
  <2> DEFINE p == me[t].producer
             h == me[t].mainHash
  <2>1. h \in DOMAIN hashes /\ p \in Nat /\ p \in Listed /\ me[t].pc = "readd"
    <3>1. me[t].pc = "readd"
      BY <1>8 DEF Readd
    <3>2. h \in DOMAIN hashes
      BY <3>1 DEF OwnInv, MainHashOK, Registering
    <3>3. p \in Claimed(t)
      BY <3>1 DEF Claimed
    <3>4. Claimed(t) \subseteq 1 .. producerCount
      BY DEF OwnInv, Named
    <3> QED  BY <1>2, <3>1, <3>2, <3>3, <3>4 DEF ListInv
  <2>2. Insert(h, t, p) /\ Go(t, "first", me[t]) /\ UNCHANGED <<producerList, producerCount>>
    BY <1>8 DEF Readd
  <2> HIDE DEF h
  <2>3. /\ ProducersOf(t)' = ProducersOf(t) \cup {p}
        /\ \A u \in Threads \ {t} : ProducersOf(u)' = ProducersOf(u)
    BY <1>2, <2>1, <2>2, InsertStep
  <2>4. (\A u \in Threads \ {t} : me'[u] = me[u]) /\ me'[t].pc = "first"
    BY <1>1, <1>3, <2>2
  <2>5. Claimed(t) \subseteq Claimed(t)'
    BY <2>3 DEF Claimed
  <2> QED  BY <1>5, <2>1, <2>2, <2>3, <2>4, <2>5, ListFrame
<1>9. CASE CountThread(t) \/ Grow(t) \/ Resized(t) \/ Room(t) \/ AllocationFails(t)
  <2>1. UNCHANGED <<hashes, producerList, producerCount>> /\ me[t].pc \in Lacking
    BY <1>9 DEF CountThread, Grow, Resized, Room, AllocationFails, hashVars, Lacking
  <2>2. \A u \in Threads : ProducersOf(u)' = ProducersOf(u)
    BY <1>4, <2>1
  <2>3. (\A u \in Threads \ {t} : me'[u] = me[u]) /\ me'[t].pc \in Lacking \cup {"refused"}
    BY <1>1, <1>3, <1>9 DEF CountThread, Grow, Resized, Room, AllocationFails, Lacking
  <2> QED  BY <1>6, <2>1, <2>2, <2>3
<1>10. CASE Resize(t)
  <2>1. UNCHANGED <<producerList, producerCount>> /\ me[t].pc \in Lacking
    BY <1>10 DEF Resize, Lacking
  <2>2. \A u \in Threads : ProducersOf(u)' = ProducersOf(u)
    <3>1. CASE UNCHANGED hashes
      BY <1>4, <3>1
    <3>2. ASSUME NEW c \in Doubled(Len(hashes), me[t].newCount),
                 hashes' = Append(hashes, EmptyHash(c))
          PROVE  \A u \in Threads : ProducersOf(u)' = ProducersOf(u)
      <4>1. c \in 1 .. MaxCapacity
        BY DEF Doubled
      <4> QED  BY <1>2, <3>2, <4>1, NewTable
    <3> QED  BY <1>10, <3>1, <3>2 DEF Resize
  <2>3. (\A u \in Threads \ {t} : me'[u] = me[u]) /\ me'[t].pc \in Lacking \cup {"refused"}
    BY <1>1, <1>3, <1>10 DEF Resize, Lacking
  <2> QED  BY <1>6, <2>1, <2>2, <2>3
<1>11. CASE Create(t)
  <2> DEFINE m == [me[t] EXCEPT !.producer = producerCount + 1]
  <2>1. Fields \subseteq DOMAIN m /\ m.producer = producerCount + 1 /\ Go(t, "enlist", m)
    BY <1>1, <1>11 DEF Create
  <2> HIDE DEF m
  <2>2. /\ \A u \in Threads \ {t} : me'[u] = me[u]
        /\ me'[t].pc = "enlist" /\ me'[t].producer = producerCount + 1
    BY <1>3, <2>1
  <2>3. UNCHANGED <<hashes, producerList>> /\ producerCount' = producerCount + 1
    BY <1>11 DEF Create
  <2>4. \A u \in Threads : ProducersOf(u)' = ProducersOf(u)
    BY <1>4, <2>3
  <2>5. ProducersOf(t) = {} /\ Claimed(t) = {}
    BY <1>11 DEF Create, OwnInv, Fresh, Lacking, Claimed
  <2>6. Listed' = Listed /\ Listed \subseteq 1 .. producerCount
    BY <2>3, ListedIs DEF Listed
  <2>7. \A p \in 1 .. producerCount' : \E u \in Threads : p \in Claimed(u)'
    <3>1. producerCount' \in Claimed(t)'
      BY <2>2, <2>3 DEF Claimed
    <3>2. \A u \in Threads \ {t} : Claimed(u)' = Claimed(u)
      BY <2>2, <2>4 DEF Claimed
    <3>3. \A p \in 1 .. producerCount : \E u \in Threads \ {t} : p \in Claimed(u)
      BY <2>5 DEF ListInv
    <3> QED  BY <1>2, <2>3, <3>1, <3>2, <3>3
  <2>8. \A u \in Threads : /\ me'[u].pc = "enlist" => me'[u].producer \notin Listed
                           /\ me'[u].pc = "readd" => me'[u].producer \in Listed
                           /\ ProducersOf(u)' \subseteq Listed
    <3>1. producerCount + 1 \notin Listed
      BY <1>2, <2>6
    <3> QED  BY <2>2, <2>4, <3>1 DEF ListInv
  <2>9. producerList' \in Seq(1 .. producerCount')
    BY <1>2, <2>3 DEF ListInv
  <2> QED  BY <2>3, <2>6, <2>7, <2>8, <2>9 DEF ListInv
<1>12. CASE Enlist(t)
  <2> DEFINE p == me[t].producer
  <2>1. /\ \A u \in Threads \ {t} : me'[u] = me[u]
        /\ me'[t].pc = "readd" /\ me'[t].producer = p /\ me[t].pc = "enlist"
    BY <1>1, <1>3, <1>12 DEF Enlist
  <2>2. UNCHANGED <<hashes, producerCount>> /\ producerList' = <<p>> \o producerList
    BY <1>12 DEF Enlist
  <2>3. \A u \in Threads : ProducersOf(u)' = ProducersOf(u)
    BY <1>4, <2>2
  <2>4. \A u \in Threads : Claimed(u)' = Claimed(u)
    BY <2>1, <2>3 DEF Claimed
  <2>5. p \in 1 .. producerCount /\ p \in Claimed(t)
    BY <2>1 DEF OwnInv, Named, Claimed
  <2>6. /\ producerList' \in Seq(1 .. producerCount) /\ DOMAIN producerList' = 1 .. Len(producerList) + 1
        /\ producerList'[1] = p
        /\ \A i \in 2 .. Len(producerList) + 1 : producerList'[i] = producerList[i - 1]
    BY <2>2, <2>5 DEF ListInv
  <2>7. DOMAIN producerList = 1 .. Len(producerList) /\ Len(producerList) \in Nat
    BY DEF ListInv
  <2>8. Listed' = Listed \cup {p}
    <3>1. \A i \in DOMAIN producerList : i + 1 \in 2 .. Len(producerList) + 1 /\ producerList'[i + 1] = producerList[i]
      BY <2>6, <2>7
    <3>2. Listed \subseteq Listed'
      BY <2>6, <2>7, <3>1 DEF Listed
    <3>3. p \in Listed'
      BY <2>6, <2>7 DEF Listed
    <3>4. Listed' \subseteq Listed \cup {p}
      BY <2>6, <2>7 DEF Listed
    <3> QED  BY <3>2, <3>3, <3>4
  <2>9. p \notin Listed /\ \A i \in DOMAIN producerList : producerList[i] # p
    BY <2>1 DEF ListInv, Listed
  <2>10. \A i, j \in DOMAIN producerList' : producerList'[i] = producerList'[j] => i = j
    <3> SUFFICES ASSUME NEW i \in DOMAIN producerList', NEW j \in DOMAIN producerList',
                        producerList'[i] = producerList'[j]
                 PROVE  i = j
      OBVIOUS
    <3>1. \A k \in DOMAIN producerList' :
            k = 1 \/ (k - 1 \in DOMAIN producerList /\ producerList'[k] = producerList[k - 1])
      BY <2>6, <2>7
    <3>2. i \in Nat /\ j \in Nat
      BY <2>6, <2>7
    <3>3. CASE i = 1 \/ j = 1
      BY <2>6, <2>9, <3>1, <3>3
    <3>4. CASE i # 1 /\ j # 1
      <4>1. i - 1 = j - 1
        BY <3>1, <3>4 DEF ListInv
      <4> QED  BY <3>2, <4>1
    <3> QED  BY <3>3, <3>4
  <2>11. \A u \in Threads : /\ me'[u].pc = "enlist" => me'[u].producer \notin Listed'
                            /\ me'[u].pc = "readd" => me'[u].producer \in Listed'
                            /\ ProducersOf(u)' \subseteq Listed'
    <3>1. ASSUME NEW u \in Threads \ {t}, me[u].pc = "enlist"
          PROVE  me[u].producer # p
      <4>1. me[u].producer \in Claimed(u)
        BY <3>1 DEF Claimed
      <4> QED  BY <2>5, <4>1 DEF OwnInv, Apart
    <3> QED  BY <2>1, <2>3, <2>8, <3>1 DEF ListInv
  <2> QED  BY <2>2, <2>4, <2>6, <2>10, <2>11 DEF ListInv
<1> QED  BY <1>7, <1>8, <1>9, <1>10, <1>11, <1>12 DEF HashStep

\* A thread that enqueues nothing new and gives up nothing leaves the list as it is.
LEMMA ListQuiet ==
  ASSUME ListInv, NEW t \in Threads, Quiet(t), UNCHANGED hashVars,
         me[t].pc \notin {"enlist", "readd"}
  PROVE  ListInv'
<1>1. UNCHANGED <<hashes, producerList, producerCount>>
  BY DEF hashVars
<1>2. \A u \in Threads : ProducersOf(u)' = ProducersOf(u)
  BY <1>1 DEF ProducersOf
<1>3. Claimed(t) \subseteq Claimed(t)'
  BY <1>2 DEF Claimed
<1>4. (\A u \in Threads \ {t} : me'[u] = me[u]) /\ me'[t].pc \notin {"enlist", "readd"}
  BY DEF Quiet, Registering
<1>5. ProducersOf(t)' \subseteq Listed
  BY <1>2 DEF ListInv
<1> QED  BY <1>1, <1>2, <1>3, <1>4, <1>5, ListFrame

\* Every step keeps the list.
LEMMA ListNext ==
  ASSUME OwnInv, ListInv, [Next]_vars
  PROVE  ListInv'
<1>1. ASSUME NEW t \in Threads, Step(t)
      PROVE  ListInv'
  <2>1. LocalsOK
    BY DEF OwnInv
  <2>2. CASE HashStep(t)
    BY <2>2, ListHash
  <2>3. CASE (PoolStep(t) \/ PutStep(t) \/ TakeStep(t)) /\ UNCHANGED hashVars
    <3>1. Quiet(t)
      BY <2>1, <2>3, PoolQuiet, PutQuiet, TakeQuiet
    <3>2. me[t].pc \notin {"enlist", "readd"}
      <4>1. PoolStep(t) => me[t].pc \notin {"enlist", "readd"}
        BY ZenonT(30) DEF PoolStep, PoolLoad, PoolTake, GetHead, GetRefs, GetHold, GetNext, GetSwap,
               GetTaken, GetDrop, AddFlag, LinkHead, LinkNext, LinkRefs, LinkSwap, Unlink, At
      <4>2. PutStep(t) => me[t].pc \notin {"enlist", "readd"}
        BY ZenonT(60) DEF PutStep, Enqueue, insert_block_index_entry, Attach, Unindex,
               add_blocks_to_free_list, Refused, Publish, At
      <4>3. TakeStep(t) => me[t].pc \notin {"enlist", "readd"}
        BY Zenon DEF TakeStep, Dequeue, update_current_producer_after_rotation, Dequeued, LoadTail,
               LoadOvercommit, LoadCount, Claim, LoadAgain, Correct, TakeHead, FindTail, FindKey,
               Move, set_many_empty, Detach, Freed, At
      <4> QED  BY <2>3, <4>1, <4>2, <4>3
    <3> QED  BY <2>3, <3>1, <3>2, ListQuiet
  <2> QED  BY <1>1, <2>2, <2>3 DEF Step
<1>2. CASE UNCHANGED vars
  <2>1. UNCHANGED <<me, hashes, producerList, producerCount>>
    BY <1>2 DEF vars, hashVars
  <2>2. \A t \in Threads : ProducersOf(t)' = ProducersOf(t)
    BY <2>1 DEF ProducersOf
  <2>3. Listed' = Listed /\ \A t \in Threads : Claimed(t)' = Claimed(t)
    BY <2>1, <2>2 DEF Claimed, Listed
  <2> QED  BY <2>1, <2>2, <2>3 DEF ListInv
<1> QED  BY <1>1, <1>2 DEF Next, Terminated

\* The list is empty at first.
LEMMA ListInit ==
  ASSUME Init, OwnInv
  PROVE  ListInv
<1>1. producerList = << >> /\ producerCount = 0
  BY DEF Init, ProducerHashInit
<1>2. \A t \in Threads : me[t].pc = "idle"
  BY DEF Init, Idle
<1>3. \A t \in Threads : ProducersOf(t) = {}
  BY <1>1 DEF OwnInv, Named, Claimed
<1>4. producerList \in Seq(1 .. producerCount) /\ DOMAIN producerList = {}
  BY <1>1
<1>5. 1 .. producerCount = {}
  BY <1>1
<1> QED  BY <1>2, <1>3, <1>4, <1>5 DEF ListInv

\* There are no more producers than threads: each thread has at most one.
LEMMA ProducersNamed ==
  ASSUME OwnInv, ListInv
  PROVE  1 .. producerCount \subseteq Names /\ Listed \subseteq Names
<1> DEFINE S == 1 .. producerCount
           f == [p \in S |-> CHOOSE t \in Threads : p \in Claimed(t)]
<1>1. producerCount \in Nat /\ IsFiniteSet(Threads)
  BY PoolAssumption DEF OwnInv, HashesOK
<1>2. \A p \in S : f[p] \in Threads /\ p \in Claimed(f[p])
  BY DEF ListInv
<1>3. f \in [S -> Threads]
  BY <1>2
<1>4. \A p, q \in S : f[p] = f[q] => p = q
  BY <1>2 DEF OwnInv, Named
<1>5. f \in Injection(S, Threads)
  BY <1>3, <1>4 DEF Injection, IsInjective
<1>6. Cardinality(S) = producerCount
  <2>1. 1 \in Int /\ producerCount \in Int
    BY <1>1
  <2>2. Cardinality(1 .. producerCount) = IF 1 > producerCount THEN 0 ELSE producerCount - 1 + 1
    BY <2>1, FS_Interval
  <2> QED  BY <1>1, <2>2
<1> HIDE DEF f
<1>7. Cardinality(S) <= Cardinality(Threads) /\ Cardinality(Threads) \in Nat
  BY <1>1, <1>5, FS_Injection, FS_CardinalityType
<1>8. 1 .. producerCount \subseteq Names
  BY <1>1, <1>6, <1>7 DEF Names
<1> QED  BY <1>8, ListedIs

-----------------------------------------------------------------------------
(* The calls and the locals of a thread that dequeues.                     *)

\* Thread t's step keeps the locals of its dequeue, which goes on if it was going on.
Keeps(t) ==
  /\ \A u \in Threads \ {t} : me'[u] = me[u]
  /\ Kept \subseteq DOMAIN me'[t] /\ \A f \in Kept : me'[t][f] = me[t][f]
Calm(t) ==
  /\ Keeps(t) /\ me[t].pc # "idle" /\ me'[t].pc # "idle"
  /\ me'[t].pc \in PoolSteps => me'[t].back # "idle"
  /\ Consuming(t) => Taking(t)
  /\ Consuming(t)' => Taking(t) /\ Taking(t)'

\* Go with a change of other locals.
LEMMA GoKeeps ==
  ASSUME LocalsOK, CallInv, NEW t \in Threads, NEW pc, NEW m, Go(t, pc, m),
         DOMAIN m = DOMAIN me[t], \A f \in Kept : m[f] = me[t][f]
  PROVE  Keeps(t) /\ me'[t].pc = pc /\ me'[t].back = m.back
<1>1. Kept \subseteq DOMAIN m /\ Fields \subseteq DOMAIN m /\ DOMAIN me = Threads
  BY DEF LocalsOK, CallInv
<1>2. "pc" \notin Kept /\ "pc" # "back" /\ "back" \in DOMAIN m /\ "pc" \in DOMAIN m
  BY <1>1 DEF Kept, Fields
<1> DEFINE n == [m EXCEPT !.pc = pc]
<1>3. me' = [me EXCEPT ![t] = n]
  BY DEF Go
<1>4. DOMAIN n = DOMAIN m /\ n.pc = pc /\ n.back = m.back /\ \A f \in Kept : n[f] = m[f]
  BY <1>1, <1>2
<1> HIDE DEF n
<1>5. me'[t] = n /\ \A u \in Threads \ {t} : me'[u] = me[u]
  BY <1>1, <1>3
<1> QED  BY <1>1, <1>4, <1>5 DEF Keeps

\* A step of the free list is no step of the walk.
LEMMA PoolCalm ==
  ASSUME LocalsOK, CallInv, NEW t \in Threads, PoolStep(t)
  PROVE  Calm(t)
<1> USE DEF At
<1>1. me[t].pc \in PoolSteps /\ me[t].back \in Backs /\ Fields \subseteq DOMAIN me[t]
  BY DEF PoolStep, PoolLoad, PoolTake, GetHead, GetRefs, GetHold, GetNext, GetSwap, GetTaken,
         GetDrop, AddFlag, LinkHead, LinkNext, LinkRefs, LinkSwap, Unlink, PoolSteps, LocalsOK
<1>2. ASSUME NEW pc, NEW m, Go(t, pc, m), pc \in PoolSteps \cup {me[t].back},
             DOMAIN m = DOMAIN me[t], \A f \in Kept : m[f] = me[t][f], m.back = me[t].back
      PROVE  Calm(t)
  <2>1. Keeps(t) /\ me'[t].pc = pc /\ me'[t].back = me[t].back
    BY <1>2, GoKeeps
  <2>2. me[t].back # "idle"
    BY <1>1 DEF CallInv
  <2>3. pc \in PoolSteps \/ pc \in {"attach", "unindex"} \/ (pc = "freed" /\ me[t].back = "freed")
    BY <1>1, <1>2, <2>2 DEF Backs
  <2> QED  BY <1>1, <2>1, <2>2, <2>3 DEF Calm, Consuming, Taking, Claiming, Moving, PoolSteps
<1> DEFINE Ok(m) == DOMAIN m = DOMAIN me[t] /\ (\A f \in Kept : m[f] = me[t][f]) /\ m.back = me[t].back
<1>3. /\ Ok(me[t]) /\ \A x : Ok([me[t] EXCEPT !.block = x]) /\ Ok([me[t] EXCEPT !.head = x])
                            /\ Ok([me[t] EXCEPT !.refs = x]) /\ Ok([me[t] EXCEPT !.next = x])
                            /\ Ok([me[t] EXCEPT !.inGet = x]) /\ Ok([me[t] EXCEPT !.listHead = x])
      /\ \A x, y : /\ Ok([me[t] EXCEPT !.head = x, !.node = y])
                   /\ Ok([me[t] EXCEPT !.block = x, !.inGet = y])
  BY <1>1 DEF Kept, Fields
<1>4. \A pc, m : Go(t, pc, m) /\ pc \in PoolSteps \cup {me[t].back} /\ Ok(m) => Calm(t)
  BY SMTT(60), <1>2
<1> HIDE DEF Ok
<1>5. \A block : Return(t, block) => Calm(t)
  BY ZenonT(60), <1>3, <1>4 DEF Return
<1>6. Added(t) => Calm(t)
  BY ZenonT(60), <1>3, <1>4 DEF Added, PoolSteps
<1>7. Loop(t) => Calm(t)
  BY ZenonT(60), <1>3, <1>4, <1>5 DEF Loop, PoolSteps
<1>8. CASE PoolLoad(t) \/ PoolTake(t) \/ GetHead(t) \/ GetRefs(t)
  BY ZenonT(60), <1>3, <1>4, <1>5, <1>8 DEF PoolLoad, PoolTake, GetHead, GetRefs, PoolSteps
<1>9. CASE GetHold(t) \/ GetNext(t) \/ GetSwap(t) \/ GetTaken(t) \/ GetDrop(t)
  BY ZenonT(60), <1>3, <1>4, <1>5, <1>7, <1>9
  DEF GetHold, GetNext, GetSwap, GetTaken, GetDrop, PoolSteps
<1>10. CASE AddFlag(t) \/ LinkHead(t) \/ LinkNext(t) \/ LinkRefs(t) \/ LinkSwap(t) \/ Unlink(t)
  BY <1>3, <1>4, <1>6, <1>10
     DEF AddFlag, LinkHead, LinkNext, LinkRefs, LinkSwap, Unlink, PoolSteps
<1> QED  BY <1>8, <1>9, <1>10 DEF PoolStep

\* Nor is a step of the search for a producer or of its registration.
LEMMA HashCalm ==
  ASSUME LocalsOK, CallInv, NEW t \in Threads, HashStep(t)
  PROVE  Calm(t)
<1> USE DEF At
<1>1. me[t].pc \in Registering \cup {"search"} /\ Fields \subseteq DOMAIN me[t]
  BY DEF HashStep, Search, Readd, CountThread, Grow, Resize, Resized, Room, Create, Enlist,
         AllocationFails, Registering, Lacking, LocalsOK
<1>2. ASSUME NEW pc, NEW m, Go(t, pc, m), pc \in Registering \cup {"first", "refused"},
             DOMAIN m = DOMAIN me[t], \A f \in Kept : m[f] = me[t][f]
      PROVE  Calm(t)
  <2>1. Keeps(t) /\ me'[t].pc = pc
    BY <1>2, GoKeeps
  <2> QED  BY <1>1, <1>2, <2>1
           DEF Calm, Consuming, Taking, Claiming, Moving, PoolSteps, Registering, Lacking
<1> DEFINE Ok(m) == DOMAIN m = DOMAIN me[t] /\ \A f \in Kept : m[f] = me[t][f]
<1>3. /\ Ok(me[t]) /\ \A x : Ok([me[t] EXCEPT !.mainHash = x]) /\ Ok([me[t] EXCEPT !.newCount = x])
                            /\ Ok([me[t] EXCEPT !.producer = x]) /\ Ok([me[t] EXCEPT !.failing = x])
      /\ \A x, y : Ok([me[t] EXCEPT !.producer = x, !.mainHash = y])
  BY <1>1 DEF Kept, Fields
<1>4. \A pc, m : Go(t, pc, m) /\ pc \in Registering \cup {"first", "refused"} /\ Ok(m) => Calm(t)
  BY <1>2
<1> HIDE DEF Ok
<1>5. CASE Search(t)
  BY <1>3, <1>4, <1>5 DEF Search, Registering, Lacking
<1>6. CASE Readd(t) \/ CountThread(t) \/ Grow(t) \/ Resize(t)
  BY <1>3, <1>4, <1>6 DEF Readd, CountThread, Grow, Resize, Registering, Lacking
<1>7. CASE Resized(t) \/ Room(t) \/ Create(t) \/ Enlist(t) \/ AllocationFails(t)
  BY <1>3, <1>4, <1>7 DEF Resized, Room, Create, Enlist, AllocationFails, Registering, Lacking
<1> QED  BY <1>5, <1>6, <1>7 DEF HashStep

\* The steps of an enqueue between its start and its end.
LEMMA PutCalm ==
  ASSUME LocalsOK, CallInv, NEW t \in Threads,
         \/ insert_block_index_entry(t) \/ Attach(t) \/ Unindex(t) \/ add_blocks_to_free_list(t)
  PROVE  Calm(t) /\ todo' = todo
<1> USE DEF At
<1>1. Fields \subseteq DOMAIN me[t] /\ me[t].pc \in {"first", "attach", "unindex"}
  BY DEF LocalsOK, insert_block_index_entry, Attach, Unindex, add_blocks_to_free_list
<1>2. ASSUME NEW pc, NEW m, Go(t, pc, m),
             \/ pc \in {"first", "attach", "unindex"}
             \/ pc \in {"requisition", "add"} /\ m.back \in {"attach", "unindex"},
             DOMAIN m = DOMAIN me[t], \A f \in Kept : m[f] = me[t][f]
      PROVE  Calm(t)
  <2>1. Keeps(t) /\ me'[t].pc = pc /\ me'[t].back = m.back
    BY <1>2, GoKeeps
  <2> QED  BY <1>1, <1>2, <2>1 DEF Calm, Consuming, Taking, Claiming, Moving, PoolSteps
<1> DEFINE Ok(m) == DOMAIN m = DOMAIN me[t] /\ \A f \in Kept : m[f] = me[t][f]
<1>3. /\ Ok(me[t]) /\ \A x : Ok([me[t] EXCEPT !.back = x]) /\ Ok([me[t] EXCEPT !.blocks = x])
      /\ \A x, y : Ok([me[t] EXCEPT !.blocks = x, !.freed = y])
      /\ \A x, y, z : Ok([me[t] EXCEPT !.node = x, !.freed = y, !.back = z])
  BY <1>1 DEF Kept, Fields
<1>4. /\ \A x : [me[t] EXCEPT !.back = x].back = x
      /\ \A x, y, z : [me[t] EXCEPT !.node = x, !.freed = y, !.back = z].back = z
  BY <1>1 DEF Fields
<1>5. \A pc, m : /\ Go(t, pc, m) /\ Ok(m)
                 /\ \/ pc \in {"first", "attach", "unindex"}
                    \/ pc \in {"requisition", "add"} /\ m.back \in {"attach", "unindex"}
                 => Calm(t)
  BY ZenonT(30), <1>2
<1> HIDE DEF Ok
<1>6. CASE insert_block_index_entry(t) \/ Attach(t)
  BY Zenon, <1>3, <1>4, <1>5, <1>6 DEF insert_block_index_entry, Attach
<1>7. CASE Unindex(t)
  BY <1>3, <1>5, <1>7 DEF Unindex
<1>8. CASE add_blocks_to_free_list(t)
  <2>1. PICK x, y : Go(t, "add", [me[t] EXCEPT !.node = x, !.freed = y, !.back = "unindex"])
    BY <1>8 DEF add_blocks_to_free_list
  <2> DEFINE m == [me[t] EXCEPT !.node = x, !.freed = y, !.back = "unindex"]
  <2>2. Go(t, "add", m) /\ Ok(m)
    BY <1>3, <2>1, Zenon
  <2>3. m.back = "unindex"
    BY <1>1 DEF Fields
  <2> HIDE DEF m
  <2>4. Calm(t)
    BY <1>5, <2>2, <2>3
  <2> QED  BY <1>8, <2>4 DEF add_blocks_to_free_list
<1> QED  BY <1>6, <1>7, <1>8

\* The steps that move the items a dequeue has claimed.
LEMMA MoveCalm ==
  ASSUME LocalsOK, CallInv, NEW t \in Threads,
         \/ FindTail(t) \/ FindKey(t) \/ Move(t) \/ set_many_empty(t) \/ Detach(t) \/ Freed(t)
  PROVE  Calm(t) /\ todo' = todo /\ token' = token
           /\ globalExplicitConsumerOffset' = globalExplicitConsumerOffset
<1> USE DEF At
<1>1. Fields \subseteq DOMAIN me[t] /\ me[t].pc \in Moving
  BY Zenon DEF LocalsOK, FindTail, FindKey, Move, set_many_empty, Detach, Freed, Moving
<1>2. ASSUME NEW pc, NEW m, Go(t, pc, m), pc \in Moving \/ (pc = "add" /\ m.back = "freed"),
             DOMAIN m = DOMAIN me[t], \A f \in Kept : m[f] = me[t][f]
      PROVE  Calm(t)
  <2>1. Keeps(t) /\ me'[t].pc = pc /\ me'[t].back = m.back
    BY <1>2, GoKeeps
  <2>2. me[t].pc # "idle" /\ Taking(t) /\ Taking(t)' /\ pc # "idle"
    BY <1>1, <1>2, <2>1 DEF Taking, Moving, PoolSteps
  <2>3. pc \in PoolSteps => m.back # "idle"
    BY <1>2 DEF Moving, PoolSteps
  <2> QED  BY <2>1, <2>2, <2>3 DEF Calm
<1> DEFINE Ok(m) == DOMAIN m = DOMAIN me[t] /\ \A f \in Kept : m[f] = me[t][f]
<1>3. /\ Ok(me[t]) /\ \A x : Ok([me[t] EXCEPT !.slot = x])
      /\ \A x, y : Ok([me[t] EXCEPT !.node = x, !.back = y])
      /\ \A x, y, z : Ok([me[t] EXCEPT !.block = x, !.index = y, !.count = z])
  BY <1>1 DEF Kept, Fields
<1>4. \A x, y : [me[t] EXCEPT !.node = x, !.back = y].back = y
  BY <1>1 DEF Fields
<1>5. \A pc, m : Go(t, pc, m) /\ Ok(m) /\ (pc \in Moving \/ (pc = "add" /\ m.back = "freed"))
                   => Calm(t)
  BY <1>2
<1> HIDE DEF Ok
<1>6. NextBlock(t) => Calm(t)
  BY <1>3, <1>5 DEF NextBlock, Moving
<1>7. Calm(t)
  <2>1. CASE FindTail(t) \/ FindKey(t) \/ Move(t)
    BY Zenon, <1>3, <1>5, <2>1 DEF FindTail, FindKey, Move, Moving
  <2>2. CASE set_many_empty(t) \/ Freed(t)
    BY <1>3, <1>5, <1>6, <2>2 DEF set_many_empty, Freed, Moving
  <2>3. CASE Detach(t)
    <3>1. PICK x : Go(t, "add", [me[t] EXCEPT !.node = x, !.back = "freed"])
      BY <2>3 DEF Detach
    <3> DEFINE m == [me[t] EXCEPT !.node = x, !.back = "freed"]
    <3>2. Go(t, "add", m) /\ Ok(m) /\ m.back = "freed"
      BY ZenonT(60), <1>3, <1>4, <3>1
    <3> HIDE DEF m
    <3> QED  BY <1>5, <3>2
  <2> QED  BY ZenonT(30), <2>1, <2>2, <2>3
<1>8. UNCHANGED <<todo, token, globalExplicitConsumerOffset>>
  BY Zenon DEF FindTail, FindKey, Move, set_many_empty, Detach, Freed, takeVars
<1> QED  BY ZenonT(30), <1>7, <1>8

\* Each kind of step and the calls that are left.
LEMMA CallCalm ==
  ASSUME CallInv, NEW t \in Threads, Calm(t), UNCHANGED <<todo, workload>>
  PROVE  CallInv'
<1>1. Len(me'[t].items) \in Nat /\ Kept \subseteq DOMAIN me'[t]
  BY DEF Calm, Keeps, CallInv, Kept
<1>2. \A u \in Threads \ {t} : me'[u] = me[u] /\ Consuming(u)' = Consuming(u)
  BY DEF Calm, Keeps, Consuming, Taking
<1>3. \A u \in Threads : CallsOf(u)' = CallsOf(u)
  BY DEF CallsOf
<1>4. /\ me[t].pc # "idle" /\ (Consuming(t)' => Consuming(t))
      /\ me'[t].pc \in PoolSteps => me'[t].back # "idle"
  BY DEF Calm, Consuming
<1> QED  BY <1>1, <1>2, <1>3, <1>4 DEF CallInv

\* The state after a call has returned.
LEMMA FinishIs ==
  ASSUME LocalsOK, CallInv, NEW t \in Threads, NEW short, Finish(t, short)
  PROVE  /\ \A u \in Threads \ {t} : me'[u] = me[u] /\ todo'[u] = todo[u]
         /\ Kept \subseteq DOMAIN me'[t] /\ me'[t].pc = "idle" /\ me'[t].short = short
         /\ me'[t].items = << >> /\ me'[t].walking = FALSE /\ me'[t].given = 0
         /\ ~Consuming(t)'
         /\ DOMAIN todo' = Threads /\ todo'[t] = Tail(todo[t])
<1> DEFINE m == [Idle EXCEPT !.failing = me[t].failing, !.short = short]
<1>1. Kept \subseteq DOMAIN m /\ m.pc = "idle" /\ m.short = short /\ m.items = << >>
      /\ m.walking = FALSE /\ m.given = 0
  BY DEF Idle, Kept
<1>2. me' = [me EXCEPT ![t] = m] /\ todo' = [todo EXCEPT ![t] = Tail(@)]
  BY DEF Finish
<1> HIDE DEF m
<1>3. DOMAIN me = Threads /\ DOMAIN todo = Threads
  BY DEF LocalsOK, CallInv
<1>4. me'[t] = m /\ \A u \in Threads \ {t} : me'[u] = me[u]
  BY <1>2, <1>3
<1>5. /\ DOMAIN todo' = Threads /\ todo'[t] = Tail(todo[t])
      /\ \A u \in Threads \ {t} : todo'[u] = todo[u]
  BY <1>2, <1>3
<1>6. ~Consuming(t)'
  BY <1>1, <1>4 DEF Consuming, Taking, Claiming, Moving, PoolSteps
<1> QED  BY <1>1, <1>4, <1>5, <1>6

\* A call returns.
LEMMA CallFinish ==
  ASSUME LocalsOK, CallInv, NEW t \in Threads, NEW short, Finish(t, short), todo[t] # << >>,
         UNCHANGED workload
  PROVE  CallInv'
<1>1. /\ \A u \in Threads \ {t} : me'[u] = me[u] /\ todo'[u] = todo[u]
      /\ Kept \subseteq DOMAIN me'[t] /\ me'[t].pc = "idle"
      /\ me'[t].items = << >> /\ ~Consuming(t)'
      /\ DOMAIN todo' = Threads /\ todo'[t] = Tail(todo[t])
  BY FinishIs
<1>2. \A u \in Threads \ {t} : Consuming(u)' = Consuming(u)
  BY <1>1 DEF Consuming, Taking
<1>3. \A u \in Threads : CallsOf(u)' = CallsOf(u)
  BY DEF CallsOf
<1>4. Tail(todo[t]) \in Seq(CallsOf(t)) /\ Len(<< >>) \in Nat /\ "idle" \notin PoolSteps
  BY DEF CallInv, PoolSteps
<1> QED  BY ZenonT(60), <1>1, <1>2, <1>3, <1>4 DEF CallInv

\* The next call is one of the thread's.
LEMMA CallIs ==
  ASSUME CallInv, NEW t \in Threads, todo[t] # << >>
  PROVE  Head(todo[t]) \in CallsOf(t) /\ IsCall(Head(todo[t]))
<1>1. todo[t] \in Seq(CallsOf(t)) /\ workload \in Workloads
  BY DEF CallInv
<1>2. Head(todo[t]) \in CallsOf(t)
  BY <1>1
<1>3. \A c \in CallsOf(t) : IsCall(c)
  BY <1>1, QueueAssumption DEF CallsOf
<1> QED  BY <1>2, <1>3

\* A step within a dequeue, or the first one of a call.
LEMMA CallGo ==
  ASSUME LocalsOK, CallInv, NEW t \in Threads, NEW pc, NEW m, Go(t, pc, m),
         DOMAIN m = DOMAIN me[t], Len(m.items) \in Nat, UNCHANGED <<todo, workload>>,
         todo[t] # << >>, Head(todo[t]).op = "take" \/ pc = "search", pc \notin PoolSteps
  PROVE  CallInv'
<1>1. Kept \subseteq DOMAIN m /\ Fields \subseteq DOMAIN m /\ DOMAIN me = Threads
  BY DEF LocalsOK, CallInv
<1> DEFINE n == [m EXCEPT !.pc = pc]
<1>2. me' = [me EXCEPT ![t] = n]
  BY DEF Go
<1>3. DOMAIN n = DOMAIN m /\ n.pc = pc /\ n.items = m.items
  BY <1>1 DEF Fields, Kept
<1> HIDE DEF n
<1>4. me'[t] = n /\ \A u \in Threads \ {t} : me'[u] = me[u]
  BY <1>1, <1>2
<1>5. Consuming(t)' => Head(todo[t]).op = "take"
  BY <1>3, <1>4 DEF Consuming, Taking, Claiming, Moving, PoolSteps
<1>6. \A u \in Threads \ {t} : Consuming(u)' = Consuming(u)
  BY <1>4 DEF Consuming, Taking
<1>7. \A u \in Threads : CallsOf(u)' = CallsOf(u)
  BY DEF CallsOf
<1>8. Kept \subseteq DOMAIN me'[t] /\ Len(me'[t].items) \in Nat /\ me'[t].pc \notin PoolSteps
  BY <1>1, <1>3, <1>4
<1> QED  BY <1>4, <1>5, <1>6, <1>7, <1>8 DEF CallInv

\* A step of a dequeue before it moves items.
LEMMA CallTake ==
  ASSUME LocalsOK, CallInv, NEW t \in Threads, UNCHANGED workload,
         \/ Dequeue(t) \/ update_current_producer_after_rotation(t) \/ Dequeued(t)
         \/ LoadTail(t) \/ LoadOvercommit(t) \/ LoadCount(t) \/ Claim(t) \/ LoadAgain(t)
         \/ Correct(t) \/ TakeHead(t)
  PROVE  CallInv'
<1> USE DEF At
<1>1. todo[t] # << >> /\ Head(todo[t]).op = "take"
  <2>1. CASE Dequeue(t)
    BY <2>1 DEF Dequeue, Calling
  <2>2. CASE ~Dequeue(t)
    <3>1. Consuming(t) /\ me[t].pc # "idle"
      BY <2>2 DEF update_current_producer_after_rotation, Dequeued, LoadTail, LoadOvercommit,
         LoadCount, Claim, LoadAgain, Correct, TakeHead, Consuming, Taking, Claiming, Moving
    <3> QED  BY <3>1 DEF CallInv
  <2> QED  BY <2>1, <2>2
<1>2. Fields \subseteq DOMAIN me[t] /\ Kept \subseteq DOMAIN me[t] /\ Len(me[t].items) \in Nat
  BY DEF LocalsOK, CallInv
<1> DEFINE Ok(m) == DOMAIN m = DOMAIN me[t] /\ m.items = me[t].items
<1>3. /\ Ok(me[t]) /\ \A x : /\ Ok([me[t] EXCEPT !.ptr = x]) /\ Ok([me[t] EXCEPT !.tailIndex = x])
                             /\ Ok([me[t] EXCEPT !.overcommit = x]) /\ Ok([me[t] EXCEPT !.want = x])
                             /\ Ok([me[t] EXCEPT !.n = x]) /\ Ok([me[t] EXCEPT !.dequeueCount = x])
      /\ \A x, y, z : Ok([me[t] EXCEPT !.index = x, !.end = y, !.given = z])
      /\ \A x, y, z : /\ Ok([[me[t] EXCEPT !.max = x, !.promised = y] EXCEPT !.listTail = z])
                      /\ Ok([[me[t] EXCEPT !.max = x, !.promised = y] EXCEPT !.ptr = z])
      /\ \A x, y, z : Ok([me[t] EXCEPT !.ptr = x, !.walking = TRUE, !.n = 0, !.listTail = y, !.max = z])
  BY <1>2 DEF Kept
<1>4. \A pc, m : Go(t, pc, m) /\ Ok(m) /\ todo' = todo /\ pc \notin PoolSteps => CallInv'
  BY <1>1, <1>2, CallGo
<1>5. \A short : Finish(t, short) => CallInv'
  BY <1>1, CallFinish
<1> HIDE DEF Ok
<1>6. CASE Dequeue(t)
  <2>1. \/ \E x : Finish(t, x)
        \/ \E x, y, z : /\ todo' = todo
             /\ Go(t, "rotate", [[me[t] EXCEPT !.max = x, !.promised = y] EXCEPT !.listTail = z])
        \/ \E x, y, z : /\ todo' = todo
             /\ Go(t, "tail", [[me[t] EXCEPT !.max = x, !.promised = y] EXCEPT !.ptr = z])
    BY <1>6 DEF Dequeue
  <2> QED  BY <1>3, <1>4, <1>5, <2>1, Zenon DEF PoolSteps
<1>7. CASE update_current_producer_after_rotation(t)
  <2>1. \E x : Go(t, "tail", [me[t] EXCEPT !.ptr = x]) /\ todo' = todo
    BY <1>7 DEF update_current_producer_after_rotation
  <2> QED  BY <1>3, <1>4, <2>1, Zenon DEF PoolSteps
<1>8. CASE Dequeued(t)
  <2>1. \/ \E short : Finish(t, short)
        \/ \E x, y, z : /\ todo' = todo
             /\ Go(t, "tail", [me[t] EXCEPT !.ptr = x, !.walking = TRUE,
                               !.n = 0, !.listTail = y, !.max = z])
    BY ZenonT(60), <1>8 DEF Dequeued
  <2> QED  BY <1>3, <1>4, <1>5, <2>1, Zenon DEF PoolSteps
<1>9. CASE LoadTail(t) \/ LoadOvercommit(t) \/ LoadCount(t)
  BY ZenonT(60), <1>3, <1>4, <1>9 DEF LoadTail, LoadOvercommit, LoadCount, takeVars, PoolSteps
<1>10. CASE Claim(t) \/ LoadAgain(t)
  BY ZenonT(60), <1>3, <1>4, <1>10 DEF Claim, LoadAgain, takeVars, PoolSteps
<1>11. CASE Correct(t)
  BY <1>3, <1>4, <1>11 DEF Correct, takeVars, PoolSteps
<1>12. CASE TakeHead(t)
  <2>1. \E x, y, z : Go(t, "find", [me[t] EXCEPT !.index = x, !.end = y, !.given = z]) /\ todo' = todo
    BY <1>12 DEF TakeHead, takeVars
  <2> QED  BY <1>3, <1>4, <2>1, Zenon DEF PoolSteps
<1> QED  BY <1>6, <1>7, <1>8, <1>9, <1>10, <1>11, <1>12

\* Every step keeps what is known of the calls.
LEMMA CallNext ==
  ASSUME LocalsOK, CallInv, [Next]_vars
  PROVE  CallInv'
<1>1. ASSUME NEW t \in Threads, Step(t)
      PROVE  CallInv'
  <2>1. workload' = workload
    BY <1>1 DEF Step
  <2>2. CASE (PoolStep(t) \/ HashStep(t)) /\ todo' = todo
    BY <2>1, <2>2, PoolCalm, HashCalm, CallCalm
  <2>3. CASE PutStep(t)
    <3>1. CASE Enqueue(t)
      <4> DEFINE m == [me[t] EXCEPT !.items = Head(todo[t]).items]
      <4>1. todo[t] # << >> /\ Head(todo[t]).op = "put" /\ Go(t, "search", m) /\ todo' = todo
        BY <3>1 DEF Enqueue, Calling
      <4>2. IsSequence(Head(todo[t]).items)
        BY <4>1, CallIs DEF IsCall
      <4>3. Len(Head(todo[t]).items) \in Nat
        BY <4>2 DEF IsSequence
      <4>4. DOMAIN m = DOMAIN me[t] /\ m.items = Head(todo[t]).items
        BY DEF CallInv, Kept
      <4> HIDE DEF m
      <4> QED  BY <2>1, <4>1, <4>3, <4>4, CallGo DEF PoolSteps
    <3>2. CASE Refused(t) \/ Publish(t)
      <4>1. Finish(t, FALSE) /\ me[t].pc # "idle"
        BY Zenon, <3>2 DEF Refused, Publish, At
      <4>2. todo[t] # << >>
        BY <4>1 DEF CallInv
      <4> QED  BY Zenon, <2>1, <4>1, <4>2, CallFinish
    <3> QED  BY <2>1, <2>3, <3>1, <3>2, PutCalm, CallCalm DEF PutStep
  <2>4. CASE TakeStep(t)
    BY <2>1, <2>4, CallTake, MoveCalm, CallCalm DEF TakeStep
  <2> QED  BY <1>1, <2>2, <2>3, <2>4 DEF Step
<1>2. CASE UNCHANGED vars
  <2>1. UNCHANGED <<me, todo, workload>>
    BY <1>2 DEF vars
  <2> QED  BY SMTT(60), <2>1 DEF CallInv, Consuming, Taking, CallsOf
<1> QED  BY <1>1, <1>2 DEF Next, Terminated

\* No call was made yet.
LEMMA CallInit ==
  ASSUME Init
  PROVE  CallInv
<1>1. workload \in Workloads /\ todo = workload.calls
  BY DEF Init
<1>2. DOMAIN todo = Threads /\ \A t \in Threads : IsSequence(workload.calls[t])
  BY <1>1, QueueAssumption
<1>3. \A t \in Threads : todo[t] \in Seq(CallsOf(t))
  BY <1>1, <1>2 DEF IsSequence, CallsOf
<1>4. \A t \in Threads : /\ me[t].pc = "idle" /\ Kept \subseteq DOMAIN me[t] /\ me[t].items = << >>
  BY DEF Init, Idle, Kept
<1>5. \A t \in Threads : ~Consuming(t) /\ Len(me[t].items) \in Nat /\ me[t].pc \notin PoolSteps
  BY <1>4 DEF Consuming, Taking, Claiming, Moving, PoolSteps
<1> QED  BY <1>1, <1>2, <1>3, <1>4, <1>5 DEF CallInv

-----------------------------------------------------------------------------
(* What the steps of a dequeue change.                                     *)

\* Thread t goes on at pc with one of its locals changed.
Sets(t, pc, f, v) ==
  /\ \A u \in Threads \ {t} : me'[u] = me[u]
  /\ me'[t].pc = pc /\ Kept \subseteq DOMAIN me'[t]
  /\ me'[t][f] = v /\ \A g \in Kept \ {f} : me'[t][g] = me[t][g]

\* What Go sets, for locals that differ in one of the kept ones.
LEMMA GoSets ==
  ASSUME LocalsOK, CallInv, NEW t \in Threads, NEW pc, NEW m, Go(t, pc, m), NEW f \in Kept,
         DOMAIN m = DOMAIN me[t], \A g \in Kept \ {f} : m[g] = me[t][g]
  PROVE  Sets(t, pc, f, m[f])
<1>1. Kept \subseteq DOMAIN m /\ Fields \subseteq DOMAIN m /\ DOMAIN me = Threads
  BY DEF LocalsOK, CallInv
<1>2. "pc" \notin Kept /\ "pc" \in DOMAIN m
  BY <1>1 DEF Kept, Fields
<1> DEFINE n == [m EXCEPT !.pc = pc]
<1>3. me' = [me EXCEPT ![t] = n]
  BY DEF Go
<1>4. DOMAIN n = DOMAIN m /\ n.pc = pc /\ \A g \in Kept : n[g] = m[g]
  BY <1>1, <1>2
<1> HIDE DEF n
<1>5. me'[t] = n /\ \A u \in Threads \ {t} : me'[u] = me[u]
  BY <1>1, <1>3
<1> QED  BY <1>1, <1>4, <1>5 DEF Sets

\* The same, for one EXCEPT.
LEMMA GoSetsOne ==
  ASSUME LocalsOK, CallInv, NEW t \in Threads, NEW f \in Kept, NEW v, NEW pc,
         Go(t, pc, [me[t] EXCEPT ![f] = v])
  PROVE  Sets(t, pc, f, v)
<1> DEFINE m == [me[t] EXCEPT ![f] = v]
<1>1. DOMAIN m = DOMAIN me[t] /\ m[f] = v /\ \A g \in Kept \ {f} : m[g] = me[t][g]
  BY DEF CallInv
<1>2. Go(t, pc, m)
  OBVIOUS
<1> HIDE DEF m
<1>3. Sets(t, pc, f, m[f])
  BY <1>1, <1>2, GoSets
<1> QED  BY <1>1, <1>3

Least2(a, b) == IF a < b THEN a ELSE b

\* What the loads of a dequeue and its claim set.
LEMMA LoadsAre ==
  ASSUME LocalsOK, CallInv, NEW t \in Threads
  PROVE  /\ LoadTail(t) => Sets(t, "over", "tailIndex", Theirs(t).tailIndex)
         /\ LoadOvercommit(t) => Sets(t, "optimistic", "overcommit", Theirs(t).dequeueOvercommit)
         /\ LoadCount(t) =>
              LET desired == me[t].tailIndex - (Theirs(t).dequeueOptimisticCount - me[t].overcommit)
              IN  \/ desired > 0 /\ Sets(t, "claim", "want", Least2(desired, me[t].max))
                  \/ ~(desired > 0) /\ Sets(t, "dequeued", "n", 0)
         /\ Claim(t) => Sets(t, "again", "dequeueCount", Theirs(t).dequeueOptimisticCount)
         /\ TakeHead(t) => Sets(t, "find", "given", me[t].given + me[t].n)
<1>1. Kept \subseteq DOMAIN me[t] /\ Fields \subseteq DOMAIN me[t]
  BY DEF LocalsOK, CallInv
<1>2. ASSUME NEW f \in Kept, NEW v, NEW pc, Go(t, pc, [me[t] EXCEPT ![f] = v])
      PROVE  Sets(t, pc, f, v)
  BY <1>2, GoSetsOne
<1>3. LoadTail(t) => Sets(t, "over", "tailIndex", Theirs(t).tailIndex)
  <2> SUFFICES ASSUME LoadTail(t) PROVE Sets(t, "over", "tailIndex", Theirs(t).tailIndex)
    OBVIOUS
  <2> DEFINE m == [me[t] EXCEPT !.tailIndex = Theirs(t).tailIndex]
  <2>1. Go(t, "over", m) /\ "tailIndex" \in Kept
    BY DEF LoadTail, Kept
  <2> QED  BY <1>2, <2>1
<1>4. LoadOvercommit(t) => Sets(t, "optimistic", "overcommit", Theirs(t).dequeueOvercommit)
  <2> SUFFICES ASSUME LoadOvercommit(t)
               PROVE  Sets(t, "optimistic", "overcommit", Theirs(t).dequeueOvercommit)
    OBVIOUS
  <2> DEFINE m == [me[t] EXCEPT !.overcommit = Theirs(t).dequeueOvercommit]
  <2>1. Go(t, "optimistic", m) /\ "overcommit" \in Kept
    BY DEF LoadOvercommit, Kept
  <2> QED  BY <1>2, <2>1
<1>5. ASSUME LoadCount(t)
      PROVE  LET desired == me[t].tailIndex - (Theirs(t).dequeueOptimisticCount - me[t].overcommit)
             IN  \/ desired > 0 /\ Sets(t, "claim", "want", Least2(desired, me[t].max))
                 \/ ~(desired > 0) /\ Sets(t, "dequeued", "n", 0)
  <2> DEFINE desired == me[t].tailIndex - (Theirs(t).dequeueOptimisticCount - me[t].overcommit)
             m == [me[t] EXCEPT !.want = Least2(desired, me[t].max)]
             k == [me[t] EXCEPT !.n = 0]
  <2>1. /\ "want" \in Kept /\ "n" \in Kept
        /\ desired > 0 => Go(t, "claim", m)
        /\ ~(desired > 0) => Go(t, "dequeued", k)
    BY <1>5 DEF LoadCount, Kept, Least2
  <2>2. Go(t, "claim", m) => Sets(t, "claim", "want", Least2(desired, me[t].max))
    BY <1>2, <2>1
  <2>3. Go(t, "dequeued", k) => Sets(t, "dequeued", "n", 0)
    BY <1>2, <2>1
  <2> QED  BY <2>1, <2>2, <2>3
<1>6. Claim(t) => Sets(t, "again", "dequeueCount", Theirs(t).dequeueOptimisticCount)
  <2> SUFFICES ASSUME Claim(t)
               PROVE  Sets(t, "again", "dequeueCount", Theirs(t).dequeueOptimisticCount)
    OBVIOUS
  <2> DEFINE m == [me[t] EXCEPT !.dequeueCount = Theirs(t).dequeueOptimisticCount]
  <2>1. Go(t, "again", m) /\ "dequeueCount" \in Kept
    BY DEF Claim, Kept
  <2> QED  BY <1>2, <2>1
<1>7. ASSUME TakeHead(t)
      PROVE  Sets(t, "find", "given", me[t].given + me[t].n)
  <2> DEFINE m == [me[t] EXCEPT !.index = Theirs(t).headIndex,
                                !.end = Theirs(t).headIndex + me[t].n,
                                !.given = me[t].given + me[t].n]
  <2>1. Go(t, "find", m) /\ "given" \in Kept
    BY <1>7 DEF TakeHead, Kept
  <2>2. DOMAIN m = DOMAIN me[t] /\ m.given = me[t].given + me[t].n
        /\ \A g \in Kept \ {"given"} : m[g] = me[t][g]
    BY <1>1 DEF Kept
  <2> HIDE DEF m
  <2> QED  BY <2>1, <2>2, GoSets
<1> QED  BY <1>3, <1>4, <1>5, <1>6, <1>7

\* What the second look at the tail and the correction set.
LEMMA ClaimsAre ==
  ASSUME LocalsOK, CallInv, NEW t \in Threads
  PROVE  /\ LoadAgain(t) =>
              LET actual == Theirs(t).tailIndex - (me[t].dequeueCount - me[t].overcommit)
                  n == IF actual <= 0 THEN 0 ELSE Least2(actual, me[t].want)
              IN  Sets(t, IF n < me[t].want THEN "correct" ELSE "head", "n", n)
         /\ Correct(t) => Sets(t, IF me[t].n = 0 THEN "dequeued" ELSE "head", "n", me[t].n)
<1>1. Kept \subseteq DOMAIN me[t] /\ Fields \subseteq DOMAIN me[t]
  BY DEF LocalsOK, CallInv
<1>2. ASSUME NEW f \in Kept, NEW v, NEW pc, Go(t, pc, [me[t] EXCEPT ![f] = v])
      PROVE  Sets(t, pc, f, v)
  BY <1>2, GoSetsOne
<1>3. "n" \in Kept /\ "ptr" \in Kept
  BY DEF Kept
<1>4. ASSUME LoadAgain(t)
      PROVE  LET actual == Theirs(t).tailIndex - (me[t].dequeueCount - me[t].overcommit)
                 n == IF actual <= 0 THEN 0 ELSE Least2(actual, me[t].want)
             IN  Sets(t, IF n < me[t].want THEN "correct" ELSE "head", "n", n)
  <2> DEFINE actual == Theirs(t).tailIndex - (me[t].dequeueCount - me[t].overcommit)
             n == IF actual <= 0 THEN 0 ELSE Least2(actual, me[t].want)
             pc == IF n < me[t].want THEN "correct" ELSE "head"
             m == [me[t] EXCEPT !.n = n]
  <2>1. Go(t, pc, m)
    BY <1>4 DEF LoadAgain, Least2
  <2> HIDE DEF n, pc
  <2>2. Sets(t, pc, "n", n)
    BY <1>2, <1>3, <2>1
  <2> QED  BY <2>2 DEF n, pc
<1>5. ASSUME Correct(t)
      PROVE  Sets(t, IF me[t].n = 0 THEN "dequeued" ELSE "head", "n", me[t].n)
  <2> DEFINE pc == IF me[t].n = 0 THEN "dequeued" ELSE "head"
  <2>1. Go(t, pc, me[t])
    BY <1>5 DEF Correct
  <2> HIDE DEF pc
  <2>2. Sets(t, pc, "n", me[t].n)
    BY <1>3, <2>1, GoSets
  <2> QED  BY <2>2 DEF pc
<1> QED  BY <1>4, <1>5

-----------------------------------------------------------------------------
(* The ring of producers a dequeue walks along.                            *)

\* The list stays, or a producer is put in front of it.
Grows == producerList' = producerList \/ \E p : producerList' = <<p>> \o producerList

\* All producers keep their places relative to each other.
LEMMA Shifted ==
  ASSUME ListInv, ListInv', Grows
  PROVE  /\ Listed \subseteq Listed'
         /\ \E d \in {0, 1} :
              /\ Len(producerList') = Len(producerList) + d
              /\ \A q \in Listed : PlaceIn(producerList', q) = Place(q) + d
              /\ \A i \in DOMAIN producerList : producerList'[i + d] = producerList[i]
<1>1. CASE producerList' = producerList
  <2>1. Listed' = Listed /\ \A q : PlaceIn(producerList', q) = Place(q)
    BY <1>1 DEF Listed, Place
  <2>2. /\ Len(producerList') = Len(producerList) + 0
        /\ \A q \in Listed : PlaceIn(producerList', q) = Place(q) + 0
        /\ \A i \in DOMAIN producerList : producerList'[i + 0] = producerList[i]
    BY <1>1, <2>1, ListedIs
  <2> QED  BY <2>1, <2>2
<1>2. ASSUME NEW p, producerList' = <<p>> \o producerList
      PROVE  /\ Listed \subseteq Listed'
             /\ Len(producerList') = Len(producerList) + 1
             /\ \A q \in Listed : PlaceIn(producerList', q) = Place(q) + 1
             /\ \A i \in DOMAIN producerList : producerList'[i + 1] = producerList[i]
  <2>1. /\ Len(producerList) \in Nat /\ DOMAIN producerList = 1 .. Len(producerList)
        /\ \A q \in Listed : Place(q) \in DOMAIN producerList /\ producerList[Place(q)] = q
    BY ListedIs
  <2>2. /\ Len(producerList') = Len(producerList) + 1
        /\ \A i \in DOMAIN producerList : producerList'[i + 1] = producerList[i]
    <3> DEFINE S == 1 .. producerCount
    <3>1. producerList \in Seq(S)
      BY DEF ListInv
    <3> HIDE DEF S
    <3>2. producerList \in Seq(S \cup {p}) /\ <<p>> \in Seq(S \cup {p})
      BY <3>1
    <3> QED  BY <1>2, <2>1, <3>2
  <2>3. DOMAIN producerList' = 1 .. Len(producerList) + 1
    <3>1. DOMAIN producerList' = 1 .. Len(producerList')
      BY DEF ListInv
    <3> QED  BY <2>2, <3>1
  <2>4. ASSUME NEW i \in DOMAIN producerList', NEW q, producerList'[i] = q
        PROVE  q \in Listed' /\ PlaceIn(producerList', q) = i
    <3>1. q \in Listed'
      BY <2>4 DEF Listed
    <3>2. /\ PlaceIn(producerList', q) \in DOMAIN producerList'
          /\ producerList'[PlaceIn(producerList', q)] = q
      BY <2>4 DEF PlaceIn
    <3>3. \A j, k \in DOMAIN producerList' : producerList'[j] = producerList'[k] => j = k
      BY DEF ListInv
    <3> QED  BY <2>4, <3>1, <3>2, <3>3
  <2>5. ASSUME NEW q \in Listed
        PROVE  q \in Listed' /\ PlaceIn(producerList', q) = Place(q) + 1
    <3>1. Place(q) + 1 \in DOMAIN producerList' /\ producerList'[Place(q) + 1] = q
      BY <2>1, <2>2, <2>3
    <3> QED  BY <2>4, <3>1
  <2> QED  BY <2>2, <2>5
<1> QED  BY <1>1, <1>2 DEF Grows

\* A thread that goes on where it is on the ring stays on it when the list grows.
LEMMA RingThread ==
  ASSUME ListInv, ListInv', Grows, NEW t \in Threads, OnRing(t), TokenOK(t),
         me'[t].ptr = me[t].ptr, me'[t].walking = me[t].walking,
         me'[t].listTail = me[t].listTail, token'[t] = token[t]
  PROVE  OnRing(t)'
<1>1. PICK d \in {0, 1} : \A q \in Listed : PlaceIn(producerList', q) = Place(q) + d
  BY Shifted, Zenon
<1>2. Listed \subseteq Listed'
  BY Shifted
<1>3. \A q \in Listed : Place(q) \in Nat
  BY ListedIs
<1>4. token[t].currentProducer \in Listed
  BY DEF OnRing, TokenOK
<1>5. CASE me[t].walking
  <2>1. /\ me[t].ptr \in Listed /\ me[t].listTail \in Listed
        /\ Place(me[t].listTail) <= Place(me[t].ptr)
        /\ Place(me[t].listTail) <= Place(token[t].currentProducer)
    BY <1>5 DEF OnRing
  <2>2. /\ PlaceIn(producerList', me[t].listTail) <= PlaceIn(producerList', me[t].ptr)
        /\ PlaceIn(producerList', me[t].listTail)
             <= PlaceIn(producerList', token[t].currentProducer)
    BY <1>1, <1>3, <1>4, <2>1
  <2> QED  BY <1>2, <1>5, <2>1, <2>2 DEF OnRing, Place
<1>6. CASE ~me[t].walking
  BY <1>2, <1>6 DEF OnRing
<1> QED  BY <1>5, <1>6

\* One thread's step on the ring.
LEMMA RingStep ==
  ASSUME ListInv, ListInv', RingInv, Grows, NEW t \in Threads,
         \A u \in Threads \ {t} : me'[u] = me[u] /\ token'[u] = token[u],
         DOMAIN token' = Threads, globalExplicitConsumerOffset' \in Int, RingOK(t)'
  PROVE  RingInv'
<1>1. Listed \subseteq Listed'
  BY Shifted
<1>2. ASSUME NEW u \in Threads \ {t}
      PROVE  RingOK(u)'
  <2>1. RingOK(u) /\ me'[u] = me[u] /\ token'[u] = token[u]
    BY DEF RingInv
  <2>2. TokenOK(u)'
    BY <1>1, <2>1 DEF RingOK, TokenOK
  <2>3. Consuming(u)' = Consuming(u)
    BY <2>1 DEF Consuming, Taking
  <2>4. OnRing(u) => OnRing(u)'
    BY <2>1, RingThread DEF RingOK
  <2> QED  BY <1>1, <2>1, <2>2, <2>3, <2>4 DEF RingOK
<1> QED  BY <1>2 DEF RingInv

\* The first step of a dequeue, and the step from one producer to the next.
LEMMA DequeueIs ==
  ASSUME LocalsOK, CallInv, NEW t \in Threads, Dequeue(t)
  PROVE  \/ Finish(t, FALSE)
         \/ /\ todo' = todo /\ \A u \in Threads \ {t} : me'[u] = me[u]
            /\ Kept \subseteq DOMAIN me'[t]
            /\ me'[t].max = Head(todo[t]).max /\ me'[t].promised = Cardinality(Present(Names))
            /\ \A g \in Kept \ {"max", "promised", "listTail", "ptr"} : me'[t][g] = me[t][g]
            /\ \/ /\ me'[t].pc = "rotate" /\ me'[t].listTail = TailOfList
                  /\ token[t].desiredProducer # None \/ producerList # << >>
               \/ /\ me'[t].pc = "tail" /\ me'[t].ptr = token[t].currentProducer
                  /\ token[t].desiredProducer # None
<1>1. Kept \subseteq DOMAIN me[t] /\ Fields \subseteq DOMAIN me[t] /\ DOMAIN me = Threads
  BY DEF LocalsOK, CallInv
<1> DEFINE card == Cardinality(Present(Names))
           rot == [[me[t] EXCEPT !.max = Head(todo[t]).max, !.promised = card]
                     EXCEPT !.listTail = TailOfList]
           go == [[me[t] EXCEPT !.max = Head(todo[t]).max, !.promised = card]
                     EXCEPT !.ptr = token[t].currentProducer]
<1>2. \/ Finish(t, FALSE)
      \/ /\ Go(t, "rotate", rot) /\ todo' = todo
         /\ token[t].desiredProducer # None \/ producerList # << >>
      \/ Go(t, "tail", go) /\ todo' = todo /\ token[t].desiredProducer # None
  BY DEF Dequeue
<1> HIDE DEF card
<1> DEFINE Rest(m) == /\ DOMAIN m = DOMAIN me[t] /\ m.max = Head(todo[t]).max /\ m.promised = card
                      /\ \A g \in Kept \ {"max", "promised", "listTail", "ptr"} : m[g] = me[t][g]
<1>3. Rest(rot) /\ rot.listTail = TailOfList /\ Rest(go) /\ go.ptr = token[t].currentProducer
  BY <1>1 DEF Kept
<1> HIDE DEF rot, go
<1>4. ASSUME NEW pc, NEW m, Go(t, pc, m), DOMAIN m = DOMAIN me[t]
      PROVE  /\ \A u \in Threads \ {t} : me'[u] = me[u]
             /\ me'[t].pc = pc /\ Kept \subseteq DOMAIN me'[t] /\ \A g \in Kept : me'[t][g] = m[g]
  <2>1. "pc" \notin Kept /\ "pc" \in DOMAIN m /\ Kept \subseteq DOMAIN m
    BY <1>1, <1>4 DEF Kept, Fields
  <2> DEFINE n == [m EXCEPT !.pc = pc]
  <2>2. me' = [me EXCEPT ![t] = n]
    BY <1>4 DEF Go
  <2>3. DOMAIN n = DOMAIN m /\ n.pc = pc /\ \A g \in Kept : n[g] = m[g]
    BY <2>1
  <2> HIDE DEF n
  <2> QED  BY <1>1, <2>1, <2>2, <2>3
<1>5. {"max", "promised", "listTail", "ptr"} \subseteq Kept
  BY DEF Kept
<1>6. CASE Go(t, "rotate", rot) /\ todo' = todo
           /\ (token[t].desiredProducer # None \/ producerList # << >>)
  <2>1. /\ \A u \in Threads \ {t} : me'[u] = me[u]
        /\ me'[t].pc = "rotate" /\ Kept \subseteq DOMAIN me'[t]
        /\ \A g \in Kept : me'[t][g] = rot[g]
    BY <1>3, <1>4, <1>6
  <2>2. me'[t].max = Head(todo[t]).max /\ me'[t].promised = card /\ me'[t].listTail = TailOfList
    BY <1>3, <1>5, <2>1
  <2>3. \A g \in Kept \ {"max", "promised", "listTail", "ptr"} : me'[t][g] = me[t][g]
    BY <1>3, <2>1
  <2> QED  BY <1>6, <2>1, <2>2, <2>3 DEF card
<1>7. CASE Go(t, "tail", go) /\ todo' = todo /\ token[t].desiredProducer # None
  <2>1. /\ \A u \in Threads \ {t} : me'[u] = me[u]
        /\ me'[t].pc = "tail" /\ Kept \subseteq DOMAIN me'[t]
        /\ \A g \in Kept : me'[t][g] = go[g]
    BY <1>3, <1>4, <1>7
  <2>2. /\ me'[t].max = Head(todo[t]).max /\ me'[t].promised = card
        /\ me'[t].ptr = token[t].currentProducer
    BY <1>3, <1>5, <2>1
  <2>3. \A g \in Kept \ {"max", "promised", "listTail", "ptr"} : me'[t][g] = me[t][g]
    BY <1>3, <2>1
  <2> QED  BY <1>7, <2>1, <2>2, <2>3 DEF card
<1> QED  BY <1>2, <1>6, <1>7

\* What the end of dequeue_bulk does to the token, and where the call goes on.
LEMMA DequeuedIs ==
  ASSUME LocalsOK, CallInv, RingInv, NEW t \in Threads, Dequeued(t)
  PROVE  /\ DOMAIN token' = Threads /\ DOMAIN token'[t] = DOMAIN token[t]
         /\ \A u \in Threads \ {t} : token'[u] = token[u]
         /\ token'[t].initialOffset = token[t].initialOffset
         /\ token'[t].lastKnownGlobalOffset = token[t].lastKnownGlobalOffset
         /\ token'[t].desiredProducer = token[t].desiredProducer
         /\ token'[t].currentProducer =
              IF me[t].walking /\ me[t].n # 0 THEN me[t].ptr ELSE token[t].currentProducer
         /\ \/ /\ me[t].n = me[t].max \/ NextProducer(t) = token'[t].currentProducer
               /\ Finish(t, me[t].given < Least2(me[t].promised, CallMax(t)))
            \/ /\ ~(me[t].n = me[t].max) /\ ~(NextProducer(t) = token'[t].currentProducer)
               /\ todo' = todo /\ \A u \in Threads \ {t} : me'[u] = me[u]
               /\ me'[t].pc = "tail" /\ Kept \subseteq DOMAIN me'[t]
               /\ me'[t].ptr = NextProducer(t) /\ me'[t].walking = TRUE
               /\ me'[t].listTail = IF me[t].walking THEN me[t].listTail ELSE TailOfList
               /\ me'[t].max = me[t].max - me[t].n
               /\ \A g \in Kept \ {"ptr", "walking", "n", "listTail", "max"} : me'[t][g] = me[t][g]
<1>1. Kept \subseteq DOMAIN me[t] /\ Fields \subseteq DOMAIN me[t] /\ DOMAIN me = Threads
  BY DEF LocalsOK, CallInv
<1>2. /\ DOMAIN token = Threads
      /\ {"initialOffset", "lastKnownGlobalOffset", "itemsConsumedFromCurrent", "currentProducer",
          "desiredProducer"} \subseteq DOMAIN token[t]
  BY DEF RingInv, RingOK, TokenOK
<1> DEFINE k == token[t]
           a == [k EXCEPT !.itemsConsumedFromCurrent = @ + me[t].n]
           b == [k EXCEPT !.currentProducer = me[t].ptr, !.itemsConsumedFromCurrent = me[t].n]
           new == IF ~me[t].walking THEN a ELSE IF me[t].n = 0 THEN k ELSE b
<1>3. /\ DOMAIN token' = Threads /\ token'[t] = new
      /\ \A u \in Threads \ {t} : token'[u] = token[u]
  <2>1. token' = [token EXCEPT ![t] = new]
    BY Zenon DEF Dequeued
  <2> HIDE DEF new
  <2> QED  BY <1>2, <2>1
<1>4. /\ DOMAIN a = DOMAIN k /\ a.initialOffset = k.initialOffset
      /\ a.lastKnownGlobalOffset = k.lastKnownGlobalOffset
      /\ a.desiredProducer = k.desiredProducer /\ a.currentProducer = k.currentProducer
      /\ DOMAIN b = DOMAIN k /\ b.initialOffset = k.initialOffset
      /\ b.lastKnownGlobalOffset = k.lastKnownGlobalOffset
      /\ b.desiredProducer = k.desiredProducer /\ b.currentProducer = me[t].ptr
  BY <1>2
<1> HIDE DEF a, b
<1>5. /\ DOMAIN new = DOMAIN k /\ new.initialOffset = k.initialOffset
      /\ new.lastKnownGlobalOffset = k.lastKnownGlobalOffset
      /\ new.desiredProducer = k.desiredProducer
      /\ new.currentProducer = IF me[t].walking /\ me[t].n # 0 THEN me[t].ptr ELSE k.currentProducer
  BY <1>4
<1> HIDE DEF new
<1> DEFINE listTail == IF me[t].walking THEN me[t].listTail ELSE TailOfList
           m == [me[t] EXCEPT !.ptr = NextProducer(t), !.walking = TRUE, !.n = 0,
                              !.listTail = listTail, !.max = me[t].max - me[t].n]
<1>7. \/ /\ me[t].n = me[t].max \/ NextProducer(t) = token'[t].currentProducer
         /\ Finish(t, me[t].given < Least2(me[t].promised, CallMax(t)))
      \/ /\ ~(me[t].n = me[t].max) /\ ~(NextProducer(t) = token'[t].currentProducer)
         /\ Go(t, "tail", m) /\ todo' = todo
  BY DEF Dequeued, Least2, CallMax
<1> HIDE DEF listTail
<1>8. /\ DOMAIN m = DOMAIN me[t] /\ m.ptr = NextProducer(t) /\ m.walking = TRUE
      /\ m.listTail = listTail /\ m.max = me[t].max - me[t].n
      /\ \A g \in Kept \ {"ptr", "walking", "n", "listTail", "max"} : m[g] = me[t][g]
  BY <1>1 DEF Kept
<1> HIDE DEF m
<1>9. ASSUME Go(t, "tail", m)
      PROVE  /\ \A u \in Threads \ {t} : me'[u] = me[u]
             /\ me'[t].pc = "tail" /\ Kept \subseteq DOMAIN me'[t] /\ \A g \in Kept : me'[t][g] = m[g]
  <2>1. "pc" \notin Kept /\ "pc" \in DOMAIN m /\ Kept \subseteq DOMAIN m
    BY <1>1, <1>8 DEF Kept, Fields
  <2> DEFINE n == [m EXCEPT !.pc = "tail"]
  <2>2. me' = [me EXCEPT ![t] = n]
    BY <1>9 DEF Go
  <2>3. DOMAIN n = DOMAIN m /\ n.pc = "tail" /\ \A g \in Kept : n[g] = m[g]
    BY <2>1
  <2> HIDE DEF n
  <2> QED  BY <1>1, <2>1, <2>2, <2>3
<1>10. {"ptr", "walking", "listTail", "max"} \subseteq Kept
  BY DEF Kept
<1>11. ASSUME Go(t, "tail", m), todo' = todo
       PROVE  /\ todo' = todo /\ \A u \in Threads \ {t} : me'[u] = me[u]
              /\ me'[t].pc = "tail" /\ Kept \subseteq DOMAIN me'[t]
              /\ me'[t].ptr = NextProducer(t) /\ me'[t].walking = TRUE
              /\ me'[t].listTail = IF me[t].walking THEN me[t].listTail ELSE TailOfList
              /\ me'[t].max = me[t].max - me[t].n
              /\ \A g \in Kept \ {"ptr", "walking", "n", "listTail", "max"} : me'[t][g] = me[t][g]
  BY <1>8, <1>9, <1>10, <1>11 DEF listTail
<1> QED  BY <1>3, <1>5, <1>7, <1>11

-----------------------------------------------------------------------------
(* The steps of the queue.                                                 *)

\* No producer's counter changes.
SameCounts ==
  /\ DOMAIN producers' = Names
  /\ \A p \in Names : /\ Counters \subseteq DOMAIN producers'[p]
                      /\ \A f \in Counters : producers'[p][f] = producers[p][f]

\* A step that neither is part of the walk nor changes a counter.
Silent(t) ==
  /\ Calm(t) /\ Grows /\ SameCounts
  /\ UNCHANGED <<todo, token, globalExplicitConsumerOffset>>

\* Changes of a producer's block index and of its last block.
LEMMA CountsKept ==
  ASSUME CounterInv, NEW p
  PROVE  /\ producers' = producers => SameCounts
         /\ \A i, x, y : producers' = [producers EXCEPT ![p].key[i] = x, ![p].tail = y] => SameCounts
         /\ \A i, x : producers' = [producers EXCEPT ![p].value[i] = x] => SameCounts
         /\ \A s : producers' = [producers EXCEPT ![p] = Rewound(producers[p], s)] => SameCounts
<1>1. DOMAIN producers = Names /\ \A q \in Names : Counters \subseteq DOMAIN producers[q]
  BY DEF CounterInv
<1>2. producers' = producers => SameCounts
  BY <1>1 DEF SameCounts
<1>4. ASSUME NEW i, NEW x, NEW y, producers' = [producers EXCEPT ![p].key[i] = x, ![p].tail = y]
      PROVE  SameCounts
  <2>1. DOMAIN producers' = Names
    BY <1>1, <1>4
  <2>2. \A q \in Names : DOMAIN producers'[q] = DOMAIN producers[q]
    BY <1>1, <1>4
  <2>3. \A q \in Names : \A f \in Counters : producers'[q][f] = producers[q][f]
    BY <1>1, <1>4 DEF Counters
  <2> QED  BY <1>1, <2>1, <2>2, <2>3 DEF SameCounts
<1>5. ASSUME NEW i, NEW x, producers' = [producers EXCEPT ![p].value[i] = x]
      PROVE  SameCounts
  <2>1. DOMAIN producers' = Names
    BY <1>1, <1>5
  <2>2. \A q \in Names : DOMAIN producers'[q] = DOMAIN producers[q]
    BY <1>1, <1>5
  <2>3. \A q \in Names : \A f \in Counters : producers'[q][f] = producers[q][f]
    BY <1>1, <1>5 DEF Counters
  <2> QED  BY <1>1, <2>1, <2>2, <2>3 DEF SameCounts
<1>6. ASSUME NEW s, producers' = [producers EXCEPT ![p] = Rewound(producers[p], s)]
      PROVE  SameCounts
  <2> DEFINE n == Rewound(producers[p], s)
  <2>1. DOMAIN n = DOMAIN producers[p]
    BY DEF Rewound
  <2>2. p \in Names => \A f \in Counters : n[f] = producers[p][f]
    BY <1>1 DEF Rewound, Counters
  <2> HIDE DEF n
  <2>3. producers' = [producers EXCEPT ![p] = n]
    BY <1>6 DEF n
  <2> QED  BY <1>1, <2>1, <2>2, <2>3 DEF SameCounts
<1> QED  BY <1>2, <1>4, <1>5, <1>6

\* Every other step begins or ends a call or is one of a dequeue before it moves items.
Walking(t) ==
  \/ Dequeue(t) \/ update_current_producer_after_rotation(t) \/ Dequeued(t)
  \/ LoadTail(t) \/ LoadOvercommit(t) \/ LoadCount(t) \/ Claim(t) \/ LoadAgain(t)
  \/ Correct(t) \/ TakeHead(t)

\* Each step is silent or one of the walk, of a call or of its end.
LEMMA StepIs ==
  ASSUME LocalsOK, CallInv, CounterInv, NEW t \in Threads, Step(t)
  PROVE  \/ Silent(t)
         \/ UNCHANGED hashVars /\ (Enqueue(t) \/ Refused(t) \/ Publish(t) \/ Walking(t))
<1>1. UNCHANGED hashVars => Grows
  BY DEF hashVars, Grows
<1>2. CASE PoolStep(t) /\ UNCHANGED <<hashVars, todo, queueVars>>
  <2>1. UNCHANGED <<hashVars, todo, token, producers, globalExplicitConsumerOffset>>
    BY <1>2 DEF queueVars
  <2> QED  BY <1>1, <1>2, <2>1, PoolCalm, CountsKept DEF Silent
<1>3. CASE HashStep(t) /\ UNCHANGED <<todo, queueVars>>
  <2>1. UNCHANGED <<todo, token, producers, globalExplicitConsumerOffset>>
    BY <1>3 DEF queueVars
  <2>2. \/ producerList' = producerList
        \/ producerList' = <<me[t].producer>> \o producerList
    BY <1>3 DEF HashStep, Search, Readd, CountThread, Grow, Resize, Resized, Room, Create, Enlist,
                AllocationFails, hashVars
  <2>3. Grows
    BY <2>2, Zenon DEF Grows
  <2> QED  BY <1>3, <2>1, <2>3, HashCalm, CountsKept DEF Silent
<1>4. CASE PutStep(t) /\ UNCHANGED hashVars
  <2> DEFINE p == me[t].producer
  <2>1. CASE insert_block_index_entry(t) \/ Attach(t) \/ Unindex(t) \/ add_blocks_to_free_list(t)
    <3>1. UNCHANGED <<token, globalExplicitConsumerOffset>> /\ Calm(t) /\ todo' = todo
      BY Zenon, <2>1, PutCalm
      DEF insert_block_index_entry, Attach, Unindex, add_blocks_to_free_list, queueVars
    <3>2. SameCounts
      <4>1. CASE insert_block_index_entry(t)
        BY SMTT(60), <4>1, CountsKept DEF insert_block_index_entry
      <4>2. CASE Attach(t)
        <5>1. \/ producers' = [producers EXCEPT ![p] = Rewound(producers[p], producers[p].tail)]
              \/ producers' = [producers EXCEPT ![p].value[producers[p].tail] = me[t].block]
          BY <4>2 DEF Attach
        <5> QED  BY <5>1, CountsKept
      <4>3. CASE Unindex(t)
        BY <4>3, CountsKept DEF Unindex
      <4>4. CASE add_blocks_to_free_list(t)
        BY <4>4, CountsKept DEF add_blocks_to_free_list, queueVars
      <4> QED  BY <2>1, <4>1, <4>2, <4>3, <4>4
    <3> QED  BY ZenonT(30), <1>1, <1>4, <3>1, <3>2 DEF Silent
  <2> QED  BY <1>4, <2>1 DEF PutStep
<1>5. CASE TakeStep(t) /\ UNCHANGED hashVars
  <2>1. CASE FindTail(t) \/ FindKey(t) \/ Move(t) \/ set_many_empty(t) \/ Detach(t) \/ Freed(t)
    <3>1. /\ Calm(t) /\ todo' = todo /\ token' = token
          /\ globalExplicitConsumerOffset' = globalExplicitConsumerOffset
      BY <2>1, MoveCalm
    <3>2. SameCounts
      <4>1. CASE Detach(t)
        BY Zenon, <4>1, CountsKept DEF Detach
      <4>2. CASE ~Detach(t)
        <5>1. producers' = producers
          BY Zenon, <2>1, <4>2 DEF FindTail, FindKey, Move, set_many_empty, Freed
        <5> QED  BY <5>1, CountsKept
      <4> QED  BY <4>1, <4>2
    <3> QED  BY <1>1, <1>5, <3>1, <3>2 DEF Silent
  <2> QED  BY <1>5, <2>1 DEF TakeStep, Walking
<1>6. \/ PoolStep(t) /\ UNCHANGED <<hashVars, todo, queueVars>>
      \/ HashStep(t) /\ UNCHANGED <<poolVars, todo, queueVars>>
      \/ (PutStep(t) \/ TakeStep(t)) /\ UNCHANGED <<poolVars, hashVars>>
  BY Zenon DEF Step
<1> QED  BY <1>2, <1>3, <1>4, <1>5, <1>6

\* The places on the ring.
LEMMA AdvanceListed ==
  ASSUME ListInv, NEW p \in Listed, NEW q \in Listed, NEW n \in Int
  PROVE  Advance(p, q, n) \in Listed
<1>1. Place(p) \in 1 .. Len(producerList) /\ Place(q) \in 1 .. Len(producerList)
      /\ Len(producerList) \in Nat /\ DOMAIN producerList = 1 .. Len(producerList)
  BY ListedIs
<1> DEFINE ring == Len(producerList) + 1 - Place(q)
           x == Place(p) - Place(q) + n
<1>2. ring \in Nat /\ ring > 0 /\ x \in Int
  BY <1>1
<1>3. x % ring \in 0 .. ring - 1
  <2> HIDE DEF ring, x
  <2> QED  BY <1>2
<1>4. Place(q) + (x % ring) \in DOMAIN producerList
  <2> DEFINE y == x % ring
  <2>1. y \in 0 .. ring - 1
    BY <1>3
  <2> HIDE DEF x, y
  <2> QED  BY <1>1, <2>1 DEF y
<1>5. producerList[Place(q) + (x % ring)] \in Listed
  BY <1>4, ListedIs
<1> QED  BY <1>5 DEF Advance

\* The list's tail, where the ring of a call begins.
LEMMA TailListed ==
  ASSUME ListInv, producerList # << >>
  PROVE  TailOfList \in Listed /\ Place(TailOfList) = 1
<1>1. Len(producerList) \in Nat /\ DOMAIN producerList = 1 .. Len(producerList)
  BY ListedIs
<1>2. TailOfList = producerList[1]
  BY DEF TailOfList, ListInv
<1>3. 1 \in DOMAIN producerList
  BY <1>1 DEF ListInv
<1> QED  BY <1>2, <1>3, ListedIs

\* next_prod stays on the ring.
LEMMA NextListed ==
  ASSUME ListInv, NEW p \in Listed, NEW q \in Listed, Place(q) <= Place(p)
  PROVE  /\ NextProd(p, q) \in Listed /\ Place(q) <= Place(NextProd(p, q))
         /\ Place(NextProd(p, q)) = IF Place(p) = Len(producerList) THEN Place(q) ELSE Place(p) + 1
<1>1. Place(p) \in 1 .. Len(producerList) /\ Place(q) \in 1 .. Len(producerList)
      /\ Len(producerList) \in Nat /\ DOMAIN producerList = 1 .. Len(producerList)
  BY ListedIs
<1>2. CASE Place(p) = Len(producerList)
  BY <1>1, <1>2 DEF NextProd
<1>3. CASE Place(p) # Len(producerList)
  <2>1. Place(p) + 1 \in DOMAIN producerList
    BY <1>1, <1>3
  <2>2. NextProd(p, q) \in Listed /\ Place(NextProd(p, q)) = Place(p) + 1
    BY <1>3, <2>1, ListedIs DEF NextProd
  <2> QED  BY <1>1, <1>3, <2>2
<1> QED  BY <1>2, <1>3

\* The rotation gives the token a producer of the list.
LEMMA RotateIs ==
  ASSUME OwnInv, CallInv, ListInv, RingInv, NEW t \in Threads, me[t].listTail \in Listed,
         update_current_producer_after_rotation(t)
  PROVE  \E new \in Listed :
           /\ Sets(t, "tail", "ptr", new) /\ todo' = todo
           /\ DOMAIN token' = Threads /\ DOMAIN token'[t] = DOMAIN token[t]
           /\ \A u \in Threads \ {t} : token'[u] = token[u]
           /\ token'[t].initialOffset = token[t].initialOffset
           /\ token'[t].lastKnownGlobalOffset = globalExplicitConsumerOffset
           /\ token'[t].desiredProducer = new /\ token'[t].currentProducer = new
<1> DEFINE k == token[t]
           tail == me[t].listTail
           x == producerCount - 1 - (k.initialOffset % producerCount)
           first == IF k.desiredProducer # None THEN k.desiredProducer ELSE Advance(tail, tail, x)
           delta == (globalExplicitConsumerOffset - k.lastKnownGlobalOffset) % producerCount
           new == Advance(first, tail, delta)
           after == [k EXCEPT !.desiredProducer = new, !.currentProducer = new,
                              !.lastKnownGlobalOffset = globalExplicitConsumerOffset,
                              !.itemsConsumedFromCurrent = 0]
<1>1. /\ DOMAIN token = Threads /\ globalExplicitConsumerOffset \in Int /\ TokenOK(t)
      /\ Kept \subseteq DOMAIN me[t]
  BY DEF RingInv, RingOK, CallInv
<1>2. producerCount \in Nat /\ producerCount > 0
  <2>1. tail \in 1 .. producerCount
    BY ListedIs
  <2> QED  BY <2>1 DEF OwnInv, HashesOK
<1>3. x \in Int /\ delta \in Int
  <2>1. k.initialOffset % producerCount \in Int
    BY <1>1, <1>2 DEF TokenOK
  <2>2. globalExplicitConsumerOffset - k.lastKnownGlobalOffset \in Int
    BY <1>1 DEF TokenOK
  <2> QED  BY <1>2, <2>1, <2>2
<1> HIDE DEF x, delta
<1>4. Advance(tail, tail, x) \in Listed
  BY <1>3, AdvanceListed
<1>5. first \in Listed
  BY <1>1, <1>4 DEF TokenOK
<1> HIDE DEF first
<1>6. new \in Listed
  BY <1>3, <1>5, AdvanceListed
<1>7. token' = [token EXCEPT ![t] = after] /\ Go(t, "tail", [me[t] EXCEPT !.ptr = new]) /\ todo' = todo
  BY DEF update_current_producer_after_rotation, x, delta, first
<1> HIDE DEF new
<1>8. Sets(t, "tail", "ptr", new)
  <2>1. "ptr" \in Kept
    BY DEF Kept
  <2> QED  BY <1>7, <2>1, GoSetsOne DEF OwnInv
<1>9. /\ DOMAIN after = DOMAIN k /\ after.initialOffset = k.initialOffset
      /\ after.lastKnownGlobalOffset = globalExplicitConsumerOffset
      /\ after.desiredProducer = new /\ after.currentProducer = new
  BY <1>1 DEF TokenOK
<1> HIDE DEF after
<1>10. /\ DOMAIN token' = Threads /\ token'[t] = after
       /\ \A u \in Threads \ {t} : token'[u] = token[u]
  BY <1>1, <1>7
<1> QED  BY <1>6, <1>7, <1>8, <1>9, <1>10

\* A thread that takes a step stays on the ring.
LEMMA RingOkNext ==
  ASSUME OwnInv, CallInv, ListInv, ListInv', CounterInv, RingInv, NEW t \in Threads, Step(t)
  PROVE  /\ \A u \in Threads \ {t} : me'[u] = me[u] /\ token'[u] = token[u]
         /\ DOMAIN token' = Threads /\ globalExplicitConsumerOffset' \in Int /\ RingOK(t)' /\ Grows
<1>1. LocalsOK /\ RingOK(t) /\ TokenOK(t) /\ DOMAIN token = Threads /\ globalExplicitConsumerOffset \in Int
  BY DEF OwnInv, RingInv, RingOK
<1>2. CASE Silent(t)
  <2>1. /\ Calm(t) /\ Keeps(t) /\ Grows /\ token' = token
        /\ globalExplicitConsumerOffset' = globalExplicitConsumerOffset
    BY <1>2 DEF Silent, Calm
  <2>2. /\ me'[t].ptr = me[t].ptr /\ me'[t].walking = me[t].walking /\ me'[t].listTail = me[t].listTail
        /\ \A u \in Threads \ {t} : me'[u] = me[u]
    BY <2>1 DEF Keeps, Kept
  <2>3. TokenOK(t)'
    BY <1>1, <2>1, Shifted DEF TokenOK
  <2>4. ASSUME Consuming(t)' PROVE OnRing(t)' /\ me'[t].pc # "rotate"
    <3>1. Taking(t) /\ Taking(t)'
      BY <2>1, <2>4 DEF Calm
    <3>2. OnRing(t)
      BY <1>1, <3>1 DEF RingOK, Consuming, Taking, Moving, PoolSteps
    <3>3. me'[t].pc # "rotate"
      BY <3>1 DEF Taking, Moving, PoolSteps
    <3> QED  BY <1>1, <2>1, <2>2, <3>2, <3>3, RingThread
  <2>5. me'[t].pc # "idle" /\ (me'[t].pc = "rotate" => Consuming(t)')
    BY <2>1 DEF Calm, Consuming
  <2> QED  BY <1>1, <2>1, <2>2, <2>3, <2>4, <2>5 DEF RingOK
<1> SUFFICES ASSUME UNCHANGED hashVars, Enqueue(t) \/ Refused(t) \/ Publish(t) \/ Walking(t)
             PROVE  /\ \A u \in Threads \ {t} : me'[u] = me[u] /\ token'[u] = token[u]
                    /\ DOMAIN token' = Threads /\ globalExplicitConsumerOffset' \in Int /\ RingOK(t)' /\ Grows
  BY <1>1, <1>2, StepIs
<1>3. /\ producerList' = producerList /\ Listed' = Listed /\ Grows
      /\ \A q : PlaceIn(producerList', q) = Place(q)
  BY DEF hashVars, Listed, Grows, Place
<1>4. ASSUME NEW short, Finish(t, short), TokenOK(t)'
      PROVE  RingOK(t)' /\ \A u \in Threads \ {t} : me'[u] = me[u]
  <2>1. /\ \A u \in Threads \ {t} : me'[u] = me[u]
        /\ me'[t].pc = "idle" /\ me'[t].walking = FALSE /\ me'[t].given = 0 /\ ~Consuming(t)'
    BY <1>1, <1>4, FinishIs
  <2> QED  BY <1>4, <2>1 DEF RingOK
<1>5. token' = token => TokenOK(t)'
  BY <1>1, <1>3 DEF TokenOK
<1>6. CASE Refused(t) \/ Publish(t)
  <2>1. Finish(t, FALSE) /\ token' = token /\ globalExplicitConsumerOffset' = globalExplicitConsumerOffset
    BY Zenon, <1>6 DEF Refused, Publish, queueVars
  <2> QED  BY <1>1, <1>3, <1>4, <1>5, <2>1
<1>7. CASE Enqueue(t)
  <2> DEFINE m == [me[t] EXCEPT !.items = Head(todo[t]).items]
  <2>1. /\ Go(t, "search", m) /\ token' = token
        /\ globalExplicitConsumerOffset' = globalExplicitConsumerOffset
    BY <1>7 DEF Enqueue, queueVars
  <2>2. "items" \in Kept
    BY DEF Kept
  <2>3. Sets(t, "search", "items", Head(todo[t]).items)
    BY <1>1, <2>1, <2>2, GoSetsOne
  <2>4. ~Consuming(t)' /\ me'[t].pc = "search" /\ \A u \in Threads \ {t} : me'[u] = me[u]
    BY <2>3 DEF Sets, Consuming, Taking, Claiming, Moving, PoolSteps
  <2> QED  BY <1>1, <1>3, <1>5, <2>1, <2>4 DEF RingOK
<1>8. CASE Dequeue(t)
  <2>1. token' = token /\ globalExplicitConsumerOffset' = globalExplicitConsumerOffset /\ me[t].pc = "idle"
    BY <1>8 DEF Dequeue, queueVars, At
  <2>2. CASE Finish(t, FALSE)
    BY <1>1, <1>3, <1>4, <1>5, <2>1, <2>2
  <2>3. CASE ~Finish(t, FALSE)
    <3>1. /\ \A u \in Threads \ {t} : me'[u] = me[u]
          /\ \A g \in Kept \ {"max", "promised", "listTail", "ptr"} : me'[t][g] = me[t][g]
          /\ \/ /\ me'[t].pc = "rotate" /\ me'[t].listTail = TailOfList
                /\ token[t].desiredProducer # None \/ producerList # << >>
             \/ /\ me'[t].pc = "tail" /\ me'[t].ptr = token[t].currentProducer
                /\ token[t].desiredProducer # None
      BY <1>1, <1>8, <2>3, DequeueIs
    <3>2. me'[t].walking = FALSE
      BY <1>1, <2>1, <3>1 DEF RingOK, Kept
    <3>3. CASE me'[t].pc = "rotate"
      <4>1. producerList # << >> /\ me'[t].listTail = TailOfList
        BY <1>1, <3>1, <3>3 DEF TokenOK, Listed
      <4>2. me'[t].listTail \in Listed
        BY <4>1, TailListed
      <4> QED  BY <1>1, <1>3, <1>5, <2>1, <3>1, <3>2, <3>3, <4>2 DEF RingOK
    <3>4. CASE me'[t].pc = "tail"
      <4>1. me'[t].ptr = token[t].currentProducer /\ token[t].desiredProducer # None
        BY <3>1, <3>4
      <4>2. OnRing(t)'
        BY <1>1, <1>3, <2>1, <3>2, <4>1 DEF OnRing, TokenOK
      <4> QED  BY <1>1, <1>3, <1>5, <2>1, <3>1, <3>4, <4>2 DEF RingOK
    <3> QED  BY <3>1, <3>3, <3>4
  <2> QED  BY <2>2, <2>3
<1>9. CASE update_current_producer_after_rotation(t)
  <2>1. /\ me[t].pc = "rotate" /\ me[t].listTail \in Listed /\ me[t].walking = FALSE
        /\ globalExplicitConsumerOffset' = globalExplicitConsumerOffset
    BY <1>1, <1>9 DEF update_current_producer_after_rotation, RingOK, At
  <2>2. PICK new \in Listed :
           /\ Sets(t, "tail", "ptr", new)
           /\ DOMAIN token' = Threads /\ DOMAIN token'[t] = DOMAIN token[t]
           /\ \A u \in Threads \ {t} : token'[u] = token[u]
           /\ token'[t].initialOffset = token[t].initialOffset
           /\ token'[t].lastKnownGlobalOffset = globalExplicitConsumerOffset
           /\ token'[t].desiredProducer = new /\ token'[t].currentProducer = new
    BY <1>9, <2>1, RotateIs, Zenon
  <2>3. new # None
    BY PoolAssumption, ListedIs DEF OwnInv, HashesOK
  <2>4. TokenOK(t)'
    BY <1>1, <1>3, <2>2 DEF TokenOK
  <2>5. /\ me'[t].pc = "tail" /\ me'[t].ptr = new /\ me'[t].walking = FALSE
        /\ \A u \in Threads \ {t} : me'[u] = me[u]
    BY <2>1, <2>2 DEF Sets, Kept
  <2>6. OnRing(t)'
    BY <1>3, <2>2, <2>3, <2>5 DEF OnRing
  <2> QED  BY <1>1, <1>3, <2>1, <2>2, <2>4, <2>5, <2>6 DEF RingOK
<1>10. CASE Dequeued(t)
  <2>1. me[t].pc = "dequeued" /\ globalExplicitConsumerOffset' \in Int
    BY <1>1, <1>10 DEF Dequeued, At
  <2>2. OnRing(t)
    BY <1>1, <2>1 DEF RingOK, Consuming, Taking, Moving
  <2>3. /\ DOMAIN token' = Threads /\ DOMAIN token'[t] = DOMAIN token[t]
        /\ \A u \in Threads \ {t} : token'[u] = token[u]
        /\ token'[t].initialOffset = token[t].initialOffset
        /\ token'[t].lastKnownGlobalOffset = token[t].lastKnownGlobalOffset
        /\ token'[t].desiredProducer = token[t].desiredProducer
        /\ token'[t].currentProducer =
             IF me[t].walking /\ me[t].n # 0 THEN me[t].ptr ELSE token[t].currentProducer
    BY <1>1, <1>10, DequeuedIs
  <2>4. TokenOK(t)'
    BY <1>1, <1>3, <2>2, <2>3 DEF TokenOK, OnRing
  <2>5. CASE \E short : Finish(t, short)
    BY <1>3, <1>4, <2>1, <2>3, <2>4, <2>5
  <2>6. CASE ~\E short : Finish(t, short)
    <3> DEFINE tail == IF me[t].walking THEN me[t].listTail ELSE TailOfList
    <3>1. /\ \A u \in Threads \ {t} : me'[u] = me[u]
          /\ me'[t].pc = "tail" /\ me'[t].ptr = NextProducer(t) /\ me'[t].walking = TRUE
          /\ me'[t].listTail = tail
      BY <1>1, <1>10, <2>6, DequeuedIs
    <3>2. me[t].ptr \in Listed /\ token[t].currentProducer \in Listed /\ producerList # << >>
      BY <1>1, <2>2 DEF OnRing, TokenOK, Listed
    <3>3. \A q \in Listed : Place(q) >= 1 /\ Place(q) \in Nat
      BY ListedIs
    <3>4. /\ tail \in Listed /\ Place(tail) <= Place(me[t].ptr)
          /\ Place(tail) <= Place(token[t].currentProducer)
      BY <2>2, <3>2, <3>3, TailListed DEF OnRing
    <3>5. /\ NextProd(me[t].ptr, tail) \in Listed /\ Place(tail) <= Place(NextProd(me[t].ptr, tail))
      BY <3>2, <3>4, NextListed
    <3>6. NextProducer(t) = NextProd(me[t].ptr, tail)
      BY DEF NextProducer
    <3>7. Place(tail) <= Place(token'[t].currentProducer)
      BY <2>3, <3>4
    <3> HIDE DEF tail
    <3>8. OnRing(t)'
      BY <1>3, <2>2, <2>3, <3>1, <3>4, <3>5, <3>6, <3>7 DEF OnRing, Place
    <3> QED  BY <1>3, <2>1, <2>3, <2>4, <3>1, <3>8 DEF RingOK
  <2> QED  BY <2>5, <2>6
<1>11. CASE LoadTail(t) \/ LoadOvercommit(t) \/ LoadCount(t) \/ Claim(t) \/ LoadAgain(t)
            \/ Correct(t) \/ TakeHead(t)
  <2>1. /\ token' = token /\ globalExplicitConsumerOffset' = globalExplicitConsumerOffset
        /\ me[t].pc \in Claiming \cup {"tail", "correct"}
    BY <1>11 DEF LoadTail, LoadOvercommit, LoadCount, Claim, LoadAgain, Correct, TakeHead, takeVars,
                 At, Claiming
  <2>2. \E f \in {"tailIndex", "overcommit", "want", "n", "dequeueCount", "given"} : \E v, pc :
          Sets(t, pc, f, v) /\ pc \notin {"idle", "rotate"}
    <3>1. CASE LoadTail(t)
      BY <1>1, <3>1, LoadsAre
    <3>2. CASE LoadOvercommit(t)
      BY <1>1, <3>2, LoadsAre
    <3>3. CASE LoadCount(t)
      BY <1>1, <3>3, LoadsAre
    <3>4. CASE Claim(t)
      BY <1>1, <3>4, LoadsAre
    <3>5. CASE TakeHead(t)
      BY <1>1, <3>5, LoadsAre
    <3>6. CASE LoadAgain(t)
      BY <1>1, <3>6, ClaimsAre
    <3>7. CASE Correct(t)
      BY <1>1, <3>7, ClaimsAre
    <3> QED  BY <1>11, <3>1, <3>2, <3>3, <3>4, <3>5, <3>6, <3>7
  <2>3. /\ me'[t].ptr = me[t].ptr /\ me'[t].walking = me[t].walking /\ me'[t].listTail = me[t].listTail
        /\ \A u \in Threads \ {t} : me'[u] = me[u]
        /\ me'[t].pc \notin {"idle", "rotate"}
    BY <2>2 DEF Sets, Kept
  <2>4. OnRing(t)
    BY <1>1, <2>1 DEF RingOK, Consuming, Claiming
  <2>5. OnRing(t)'
    BY <1>1, <1>3, <2>1, <2>3, <2>4, RingThread
  <2> QED  BY <1>1, <1>3, <1>5, <2>1, <2>3, <2>5 DEF RingOK
<1> QED  BY <1>6, <1>7, <1>8, <1>9, <1>10, <1>11 DEF Walking

\* Every step keeps tokens and walks on the list.
LEMMA RingNext ==
  ASSUME OwnInv, CallInv, ListInv, ListInv', CounterInv, RingInv, [Next]_vars
  PROVE  RingInv'
<1>1. ASSUME NEW t \in Threads, Step(t)
      PROVE  RingInv'
  BY <1>1, RingOkNext, RingStep
<1>2. CASE UNCHANGED vars
  <2>1. UNCHANGED <<me, token, producerList, globalExplicitConsumerOffset>>
    BY <1>2 DEF vars, hashVars, queueVars
  <2>2. Listed' = Listed
    BY <2>1 DEF Listed
  <2>3. \A t \in Threads : TokenOK(t)' = TokenOK(t) /\ Consuming(t)' = Consuming(t)
    BY <2>1, <2>2 DEF TokenOK, Consuming, Taking
  <2>4. \A t \in Threads : OnRing(t)' = OnRing(t)
    BY <2>1, <2>2 DEF OnRing, Place
  <2>5. \A t \in Threads : RingOK(t)' = RingOK(t)
    BY <2>1, <2>2, <2>3, <2>4 DEF RingOK
  <2> QED  BY <2>1, <2>5 DEF RingInv
<1> QED  BY <1>1, <1>2 DEF Next, Terminated

\* No token has a producer yet.
LEMMA RingInit ==
  ASSUME Init
  PROVE  RingInv
<1>1. /\ token = [t \in Threads |-> ConsumerToken(workload.offset[t])]
      /\ globalExplicitConsumerOffset = 0 /\ workload \in Workloads
  BY DEF Init
<1>2. \A t \in Threads : workload.offset[t] \in Nat
  BY <1>1, QueueAssumption
<1>3. \A t \in Threads : TokenOK(t)
  BY <1>1, <1>2 DEF TokenOK, ConsumerToken
<1>4. \A t \in Threads : me[t].pc = "idle" /\ me[t].walking = FALSE /\ me[t].given = 0
  BY DEF Init, Idle
<1>5. \A t \in Threads : ~Consuming(t)
  BY <1>4 DEF Consuming, Taking, Claiming, Moving, PoolSteps
<1> QED  BY <1>1, <1>3, <1>4, <1>5 DEF RingInv, RingOK

-----------------------------------------------------------------------------
(* The counters of the producers and the amounts a dequeue computes.       *)

\* One counter of one producer changes.
Bumps(p, f, v) ==
  /\ DOMAIN producers' = Names
  /\ \A q \in Names :
       /\ Counters \subseteq DOMAIN producers'[q]
       /\ \A g \in Counters : producers'[q][g] = IF q = p /\ g = f THEN v ELSE producers[q][g]

\* Which counter of which producer a step changes.
LEMMA CountsAre ==
  ASSUME CounterInv, NEW t \in Threads
  PROVE  /\ me[t].producer \in Names /\ Publish(t) =>
              Bumps(me[t].producer, "tailIndex", MyQueue(t).tailIndex + Len(me[t].items))
         /\ me[t].ptr \in Names =>
              /\ Claim(t) => Bumps(me[t].ptr, "dequeueOptimisticCount",
                                   Theirs(t).dequeueOptimisticCount + me[t].want)
              /\ Correct(t) => Bumps(me[t].ptr, "dequeueOvercommit",
                                     Theirs(t).dequeueOvercommit + me[t].want - me[t].n)
              /\ TakeHead(t) => Bumps(me[t].ptr, "headIndex", Theirs(t).headIndex + me[t].n)
<1>1. DOMAIN producers = Names /\ \A q \in Names : Counters \subseteq DOMAIN producers[q]
  BY DEF CounterInv
<1>2. ASSUME me[t].producer \in Names, Publish(t)
      PROVE  Bumps(me[t].producer, "tailIndex", MyQueue(t).tailIndex + Len(me[t].items))
  <2> DEFINE p == me[t].producer
             v == MyQueue(t).tailIndex + Len(me[t].items)
             b == IF me[t].blocks = << >> THEN producers[p].tailBlock
                  ELSE me[t].blocks[Len(me[t].blocks)]
  <2>1. producers' = [producers EXCEPT ![p].tailIndex = v, ![p].tailBlock = b]
    BY Zenon, <1>2 DEF Publish, MyQueue
  <2> HIDE DEF p, v, b
  <2>2. DOMAIN producers' = Names /\ \A q \in Names : DOMAIN producers'[q] = DOMAIN producers[q]
    BY <1>1, <2>1
  <2>3. \A q \in Names : \A g \in Counters :
          producers'[q][g] = IF q = p /\ g = "tailIndex" THEN v ELSE producers[q][g]
    BY <1>1, <2>1 DEF Counters
  <2>4. Bumps(p, "tailIndex", v)
    BY <1>1, <2>2, <2>3 DEF Bumps
  <2> QED  BY ZenonT(30), <2>4 DEF p, v
<1>3. ASSUME NEW p \in Names, NEW f \in Counters, NEW v, producers' = [producers EXCEPT ![p][f] = v]
      PROVE  Bumps(p, f, v)
  <2>2. DOMAIN producers' = Names /\ \A q \in Names : DOMAIN producers'[q] = DOMAIN producers[q]
    BY <1>1, <1>3
  <2>3. \A q \in Names : \A g \in Counters :
          producers'[q][g] = IF q = p /\ g = f THEN v ELSE producers[q][g]
    BY <1>1, <1>3
  <2> QED  BY <1>1, <2>2, <2>3 DEF Bumps
<1>4. Counters = {"headIndex", "tailIndex", "dequeueOptimisticCount", "dequeueOvercommit"}
  BY DEF Counters
<1>5. ASSUME me[t].ptr \in Names, Claim(t)
      PROVE  Bumps(me[t].ptr, "dequeueOptimisticCount", Theirs(t).dequeueOptimisticCount + me[t].want)
  <2>1. producers' = [producers EXCEPT ![me[t].ptr].dequeueOptimisticCount =
                        Theirs(t).dequeueOptimisticCount + me[t].want]
    BY <1>5 DEF Claim, Theirs
  <2> QED  BY <1>3, <1>4, <1>5, <2>1
<1>6. ASSUME me[t].ptr \in Names, Correct(t)
      PROVE  Bumps(me[t].ptr, "dequeueOvercommit", Theirs(t).dequeueOvercommit + me[t].want - me[t].n)
  <2>1. producers' = [producers EXCEPT ![me[t].ptr].dequeueOvercommit =
                        Theirs(t).dequeueOvercommit + me[t].want - me[t].n]
    BY <1>6 DEF Correct, Theirs
  <2> QED  BY <1>3, <1>4, <1>6, <2>1
<1>7. ASSUME me[t].ptr \in Names, TakeHead(t)
      PROVE  Bumps(me[t].ptr, "headIndex", Theirs(t).headIndex + me[t].n)
  <2>1. producers' = [producers EXCEPT ![me[t].ptr].headIndex = Theirs(t).headIndex + me[t].n]
    BY <1>7 DEF TakeHead, Theirs
  <2> QED  BY <1>3, <1>4, <1>7, <2>1
<1> QED  BY <1>2, <1>5, <1>6, <1>7

-----------------------------------------------------------------------------
(* The items that are there.                                               *)

PresentIn(prods, some) ==
  UNION {{p} \X (prods[p].headIndex .. prods[p].tailIndex - 1) : p \in some}

\* What is present with some producers.
LEMMA PresentIs ==
  ASSUME NEW a, NEW S, NEW x
  PROVE  x \in PresentIn(a, S) <=>
           \E p \in S : \E i \in a[p].headIndex .. a[p].tailIndex - 1 : x = <<p, i>>
BY DEF PresentIn

\* More producers, or later tails, have no fewer items.
LEMMA PresentGrows ==
  ASSUME NEW a, NEW b, NEW S, NEW T, IsFiniteSet(PresentIn(b, T)), S \subseteq T,
         \A p \in S : /\ a[p].headIndex \in Int /\ a[p].tailIndex \in Int
                      /\ b[p].headIndex = a[p].headIndex
                      /\ b[p].tailIndex \in Int /\ b[p].tailIndex >= a[p].tailIndex
  PROVE  /\ IsFiniteSet(PresentIn(a, S)) /\ Cardinality(PresentIn(a, S)) \in Nat
         /\ Cardinality(PresentIn(b, T)) \in Nat
         /\ Cardinality(PresentIn(a, S)) <= Cardinality(PresentIn(b, T))
<1>1. PresentIn(a, S) \subseteq PresentIn(b, T)
  <2> SUFFICES ASSUME NEW x \in PresentIn(a, S) PROVE x \in PresentIn(b, T)
    OBVIOUS
  <2>1. PICK p \in S : \E i \in a[p].headIndex .. a[p].tailIndex - 1 : x = <<p, i>>
    BY PresentIs
  <2>2. PICK i \in a[p].headIndex .. a[p].tailIndex - 1 : x = <<p, i>>
    BY <2>1
  <2>3. i \in b[p].headIndex .. b[p].tailIndex - 1 /\ p \in T
    OBVIOUS
  <2> QED  BY <2>2, <2>3, PresentIs
<1> QED  BY <1>1, FS_Subset, FS_CardinalityType

\* A producer adds its own items.
LEMMA PresentAdds ==
  ASSUME NEW a, NEW S, NEW p, IsFiniteSet(PresentIn(a, S)),
         a[p].headIndex \in Nat, a[p].tailIndex \in Nat, a[p].headIndex <= a[p].tailIndex
  PROVE  /\ IsFiniteSet(PresentIn(a, S \cup {p})) /\ Cardinality(PresentIn(a, S)) \in Nat
         /\ Cardinality(PresentIn(a, S \cup {p})) \in Nat
         /\ Cardinality(PresentIn(a, S \cup {p}))
              <= Cardinality(PresentIn(a, S)) + (a[p].tailIndex - a[p].headIndex)
<1> DEFINE own == {p} \X (a[p].headIndex .. a[p].tailIndex - 1)
           rest == PresentIn(a, S)
<1>1. PresentIn(a, S \cup {p}) = rest \cup own
  BY DEF PresentIn
<1>2. IsFiniteSet(own) /\ Cardinality(own) = a[p].tailIndex - a[p].headIndex
  <2> DEFINE I == a[p].headIndex .. a[p].tailIndex - 1
  <2>1. IsFiniteSet(I) /\ Cardinality(I) = a[p].tailIndex - a[p].headIndex
    <3>1. a[p].headIndex \in Int /\ a[p].tailIndex - 1 \in Int
      OBVIOUS
    <3>2. IsFiniteSet(I) /\ Cardinality(I) =
             IF a[p].headIndex > a[p].tailIndex - 1 THEN 0 ELSE (a[p].tailIndex - 1) - a[p].headIndex + 1
      BY <3>1, FS_Interval
    <3> QED  BY <3>2
  <2>2. IsFiniteSet({p}) /\ Cardinality({p}) = 1
    BY FS_Singleton
  <2> HIDE DEF I
  <2>3. IsFiniteSet({p} \X I) /\ Cardinality({p} \X I) = Cardinality({p}) * Cardinality(I)
    BY <2>1, <2>2, FS_Product
  <2>4. Cardinality(I) \in Nat
    BY <2>1, FS_CardinalityType
  <2> QED  BY <2>1, <2>2, <2>3, <2>4 DEF I
<1> HIDE DEF own, rest
<1>3. /\ IsFiniteSet(rest \cup own)
      /\ Cardinality(rest \cup own) = Cardinality(rest) + Cardinality(own) - Cardinality(rest \cap own)
  BY <1>2, FS_Union DEF rest
<1>4. Cardinality(rest) \in Nat /\ Cardinality(own) \in Nat /\ Cardinality(rest \cap own) \in Nat
      /\ Cardinality(rest \cup own) \in Nat
  <2>1. IsFiniteSet(rest \cap own)
    BY <1>2, FS_Subset
  <2> QED  BY <1>2, <1>3, <2>1, FS_CardinalityType DEF rest
<1>5. Cardinality(rest \cup own) <= Cardinality(rest) + Cardinality(own)
  BY <1>3, <1>4
<1> DEFINE all == PresentIn(a, S \cup {p})
<1>6. all = rest \cup own
  BY <1>1
<1> HIDE DEF all
<1>7. /\ IsFiniteSet(all) /\ Cardinality(rest) \in Nat /\ Cardinality(all) \in Nat
      /\ Cardinality(all) <= Cardinality(rest) + (a[p].tailIndex - a[p].headIndex)
  BY <1>2, <1>3, <1>4, <1>5, <1>6
<1> QED  BY <1>7 DEF rest, all

\* Counters that do not change.
LEMMA CounterSame ==
  ASSUME CounterInv, SameCounts, Listed \subseteq Listed'
  PROVE  CounterInv'
<1>1. \A p \in Names : /\ Counters \subseteq DOMAIN producers[p]
                       /\ \A f \in Counters : producers[p][f] \in Nat
                       /\ p \notin Listed => producers[p].tailIndex = producers[p].headIndex
  BY DEF CounterInv
<1>2. \A p \in Names : /\ \A f \in Counters : producers'[p][f] = producers[p][f]
                       /\ Counters \subseteq DOMAIN producers'[p]
  BY DEF SameCounts
<1>3. \A p \in Names : /\ producers[p].headIndex \in Nat /\ producers[p].tailIndex \in Nat
                       /\ producers'[p].headIndex = producers[p].headIndex
                       /\ producers'[p].tailIndex = producers[p].tailIndex
  BY <1>1, <1>2 DEF Counters
<1>4. IsFiniteSet(PresentIn(producers, Names))
  BY DEF CounterInv, Present, PresentIn
<1>5. IsFiniteSet(PresentIn(producers', Names))
  <2>1. \A p \in Names : /\ producers'[p].headIndex \in Int /\ producers'[p].tailIndex \in Int
                         /\ producers[p].headIndex = producers'[p].headIndex
                         /\ producers[p].tailIndex \in Int
                         /\ producers[p].tailIndex >= producers'[p].tailIndex
    BY <1>3
  <2> QED  BY <1>4, <2>1, PresentGrows
<1>6. IsFiniteSet(Present(Names))'
  BY <1>5 DEF Present, PresentIn
<1>7. \A p \in Names : p \notin Listed' => producers'[p].tailIndex = producers'[p].headIndex
  BY <1>1, <1>3
<1> QED  BY <1>1, <1>2, <1>6, <1>7 DEF CounterInv, SameCounts

\* A counter of a listed producer that changes.
LEMMA CounterBump ==
  ASSUME CounterInv, NEW p \in Listed, p \in Names, NEW f \in Counters, NEW v \in Nat,
         Bumps(p, f, v), Listed' = Listed
  PROVE  CounterInv'
<1>1. \A q \in Names : /\ Counters \subseteq DOMAIN producers[q]
                       /\ \A g \in Counters : producers[q][g] \in Nat
                       /\ q \notin Listed => producers[q].tailIndex = producers[q].headIndex
  BY DEF CounterInv
<1>2. \A q \in Names :
        /\ Counters \subseteq DOMAIN producers'[q]
        /\ \A g \in Counters : producers'[q][g] = IF q = p /\ g = f THEN v ELSE producers[q][g]
  BY DEF Bumps
<1>3. "headIndex" \in Counters /\ "tailIndex" \in Counters
  BY DEF Counters
<1>4. \A q \in Names : \A g \in Counters : producers'[q][g] \in Nat
  BY <1>1, <1>2
<1>5. \A q \in Names \ {p} : /\ producers'[q].headIndex = producers[q].headIndex
                             /\ producers'[q].tailIndex = producers[q].tailIndex
  BY <1>2, <1>3
<1>6. IsFiniteSet(PresentIn(producers', Names))
  <2> DEFINE own == {p} \X (producers'[p].headIndex .. producers'[p].tailIndex - 1)
             old == PresentIn(producers, Names)
  <2>1. IsFiniteSet(own)
    <3>1. producers'[p].headIndex \in Int /\ producers'[p].tailIndex - 1 \in Int
      BY <1>3, <1>4
    <3> QED  BY <3>1, FS_Interval, FS_Singleton, FS_Product
  <2>2. IsFiniteSet(old)
    BY DEF CounterInv, Present, PresentIn
  <2>3. PresentIn(producers', Names) \subseteq old \cup own
    <3> SUFFICES ASSUME NEW x \in PresentIn(producers', Names) PROVE x \in old \cup own
      OBVIOUS
    <3>1. PICK q \in Names : \E i \in producers'[q].headIndex .. producers'[q].tailIndex - 1 : x = <<q, i>>
      BY PresentIs
    <3>2. CASE q = p
      BY <3>1, <3>2
    <3>3. CASE q # p
      <4>1. \E i \in producers[q].headIndex .. producers[q].tailIndex - 1 : x = <<q, i>>
        BY <1>5, <3>1, <3>3
      <4> QED  BY <4>1, PresentIs
    <3> QED  BY <3>2, <3>3
  <2> HIDE DEF own, old
  <2>4. IsFiniteSet(old \cup own)
    BY <2>1, <2>2, FS_Union
  <2> QED  BY <2>3, <2>4, FS_Subset
<1>7. IsFiniteSet(Present(Names))'
  BY <1>6 DEF Present, PresentIn
<1>8. \A q \in Names : q \notin Listed' => producers'[q].tailIndex = producers'[q].headIndex
  BY <1>1, <1>5
<1> QED  BY <1>2, <1>4, <1>7, <1>8 DEF CounterInv, Bumps

\* The amounts of a thread that takes a step.
LEMMA AmountStep ==
  ASSUME AmountInv, NEW t \in Threads, \A u \in Threads \ {t} : me'[u] = me[u],
         Consuming(t)' => Amounts(t)'
  PROVE  AmountInv'
<1>1. ASSUME NEW u \in Threads \ {t}, Consuming(u)'
      PROVE  Amounts(u)'
  <2>1. me'[u] = me[u]
    OBVIOUS
  <2>2. Consuming(u) /\ Taking(u)' = Taking(u)
    BY <1>1, <2>1 DEF Consuming, Taking
  <2>3. Amounts(u)
    BY <2>2 DEF AmountInv
  <2> QED  BY <2>1, <2>2, <2>3 DEF Amounts
<1> QED  BY <1>1 DEF AmountInv

\* A step of thread t keeps the counters and the amounts.
LEMMA CountNext ==
  ASSUME OwnInv, CallInv, ListInv, ListInv', RingInv, CounterInv, AmountInv, NEW t \in Threads, Step(t)
  PROVE  CounterInv' /\ AmountInv'
<1>1. LocalsOK /\ RingOK(t) /\ Kept \subseteq DOMAIN me[t] /\ Listed \subseteq Names
  BY ProducersNamed DEF OwnInv, RingInv, CallInv
<1>2. \A u \in Threads \ {t} : me'[u] = me[u]
  BY RingOkNext
<1>3. Listed \subseteq Listed'
  BY RingOkNext, Shifted
<1>4. Consuming(t) => Amounts(t)
  BY DEF AmountInv
<1>5. CASE Silent(t)
  <2>1. Calm(t) /\ Keeps(t) /\ SameCounts
    BY <1>5 DEF Silent, Calm
  <2>2. ASSUME Consuming(t)' PROVE Amounts(t)'
    <3>1. Taking(t) /\ Taking(t)'
      BY <2>1, <2>2 DEF Calm
    <3>2. Amounts(t)
      BY <1>4, <3>1 DEF Consuming
    <3>3. me'[t].max = me[t].max /\ me'[t].given = me[t].given /\ me'[t].promised = me[t].promised
          /\ me'[t].n = me[t].n
      BY <2>1 DEF Keeps, Kept
    <3>4. me'[t].pc \notin Claiming \cup {"correct"}
      BY <3>1 DEF Taking, Moving, PoolSteps, Claiming
    <3> QED  BY <3>1, <3>2, <3>3, <3>4 DEF Amounts, Claiming
  <2> QED  BY <1>2, <1>3, <2>1, <2>2, CounterSame, AmountStep
<1> SUFFICES ASSUME UNCHANGED hashVars, Enqueue(t) \/ Refused(t) \/ Publish(t) \/ Walking(t)
             PROVE  CounterInv' /\ AmountInv'
  BY <1>1, <1>5, StepIs
<1>6. Listed' = Listed
  BY DEF hashVars, Listed
<1>7. producers' = producers => CounterInv'
  BY <1>3, CountsKept, CounterSame
<1>8. ~Consuming(t)' => AmountInv'
  BY <1>2, AmountStep
<1>9. \A short : Finish(t, short) => ~Consuming(t)'
  BY Zenon, <1>1, FinishIs
<1>10. CASE Refused(t) \/ Publish(t)
  <2>1. AmountInv'
    BY Zenon, <1>8, <1>9, <1>10 DEF Refused, Publish
  <2>2. CASE Refused(t)
    BY <1>7, <2>1, <2>2 DEF Refused, queueVars
  <2>3. CASE Publish(t)
    <3>1. me[t].producer \in ProducersOf(t)
      BY <2>3 DEF Publish, At, OwnInv, Settled, Enqueuing
    <3>2. me[t].producer \in Listed /\ me[t].producer \in Names
      BY <1>1, <3>1 DEF ListInv
    <3>3. MyQueue(t).tailIndex + Len(me[t].items) \in Nat
      <4>1. MyQueue(t).tailIndex \in Nat
        BY <3>2 DEF CounterInv, Counters, MyQueue
      <4> QED  BY <4>1 DEF CallInv
    <3>4. Bumps(me[t].producer, "tailIndex", MyQueue(t).tailIndex + Len(me[t].items))
      BY <2>3, <3>2, CountsAre
    <3>5. "tailIndex" \in Counters
      BY DEF Counters
    <3> QED  BY <1>6, <2>1, <3>2, <3>3, <3>4, <3>5, CounterBump
  <2> QED  BY <1>10, <2>2, <2>3
<1>11. CASE Enqueue(t)
  <2>1. Go(t, "search", [me[t] EXCEPT !.items = Head(todo[t]).items]) /\ producers' = producers
    BY <1>11 DEF Enqueue, queueVars
  <2>2. "items" \in Kept
    BY DEF Kept
  <2>3. Sets(t, "search", "items", Head(todo[t]).items)
    BY <1>1, <2>1, <2>2, GoSetsOne
  <2>4. ~Consuming(t)'
    BY <2>3 DEF Sets, Consuming, Taking, Claiming, Moving, PoolSteps
  <2> QED  BY <1>7, <1>8, <2>1, <2>4
<1>12. CASE Dequeue(t)
  <2>1. producers' = producers /\ me[t].pc = "idle" /\ Head(todo[t]).op = "take" /\ todo[t] # << >>
    BY <1>12 DEF Dequeue, queueVars, At, Calling
  <2>2. CASE Finish(t, FALSE)
    BY <1>7, <1>8, <1>9, <2>1, <2>2
  <2>3. CASE ~Finish(t, FALSE)
    <3>1. /\ me'[t].max = Head(todo[t]).max /\ me'[t].promised = Cardinality(Present(Names))
          /\ \A g \in Kept \ {"max", "promised", "listTail", "ptr"} : me'[t][g] = me[t][g]
          /\ me'[t].pc \in {"rotate", "tail"}
      BY <1>1, <1>12, <2>3, DequeueIs
    <3>2. Head(todo[t]).max \in Nat
      BY <2>1, CallIs DEF IsCall
    <3>3. Cardinality(Present(Names)) \in Nat
      BY FS_CardinalityType DEF CounterInv
    <3>4. me'[t].given = 0
      BY <1>1, <2>1, <3>1 DEF RingOK, Kept
    <3>5. ~Taking(t)'
      BY <3>1 DEF Taking, Moving, PoolSteps
    <3>6. Amounts(t)'
      BY <3>1, <3>2, <3>3, <3>4, <3>5 DEF Amounts, Claiming
    <3> QED  BY <1>2, <1>7, <2>1, <3>6, AmountStep
  <2> QED  BY <2>2, <2>3
<1>13. CASE update_current_producer_after_rotation(t)
  <2>1. producers' = producers /\ me[t].pc = "rotate"
    BY <1>13 DEF update_current_producer_after_rotation, At
  <2>2. me[t].listTail \in Listed /\ Amounts(t)
    BY <1>1, <1>4, <2>1 DEF RingOK, Consuming
  <2>3. \E new \in Listed : Sets(t, "tail", "ptr", new)
    BY <1>13, <2>2, RotateIs, Zenon
  <2>4. /\ me'[t].pc = "tail"
        /\ me'[t].max = me[t].max /\ me'[t].given = me[t].given /\ me'[t].promised = me[t].promised
    BY <2>3 DEF Sets, Kept
  <2>5. ~Taking(t)'
    BY <2>4 DEF Taking, Moving, PoolSteps
  <2>6. Amounts(t)'
    BY <2>2, <2>4, <2>5 DEF Amounts, Claiming
  <2> QED  BY <1>2, <1>7, <2>1, <2>6, AmountStep
<1>14. CASE Dequeued(t)
  <2>1. producers' = producers /\ me[t].pc = "dequeued"
    BY <1>14 DEF Dequeued, At
  <2>2. Taking(t) /\ Amounts(t)
    BY <1>4, <2>1 DEF Taking, Moving, Consuming
  <2>3. CASE \E short : Finish(t, short)
    BY <1>7, <1>8, <1>9, <2>1, <2>3
  <2>4. CASE ~\E short : Finish(t, short)
    <3>1. /\ me'[t].pc = "tail" /\ me'[t].max = me[t].max - me[t].n
          /\ \A g \in Kept \ {"ptr", "walking", "n", "listTail", "max"} : me'[t][g] = me[t][g]
      BY <1>1, <1>14, <2>4, DequeuedIs
    <3>2. me'[t].given = me[t].given /\ me'[t].promised = me[t].promised
      BY <3>1 DEF Kept
    <3>3. ~Taking(t)'
      BY <3>1 DEF Taking, Moving, PoolSteps
    <3>4. me[t].max - me[t].n \in Nat
      BY <2>2 DEF Amounts
    <3>5. Amounts(t)'
      BY <2>2, <3>1, <3>2, <3>3, <3>4 DEF Amounts, Claiming
    <3> QED  BY <1>2, <1>7, <2>1, <3>5, AmountStep
  <2> QED  BY <2>3, <2>4
<1>15. CASE LoadTail(t) \/ LoadOvercommit(t) \/ LoadCount(t) \/ Claim(t) \/ LoadAgain(t)
            \/ Correct(t) \/ TakeHead(t)
  <2>1. me[t].pc \in Claiming \cup {"tail", "correct"}
    BY <1>15 DEF LoadTail, LoadOvercommit, LoadCount, Claim, LoadAgain, Correct, TakeHead, At, Claiming
  <2>2. Amounts(t) /\ OnRing(t) /\ Consuming(t)
    BY <1>1, <1>4, <2>1 DEF RingOK, Consuming, Claiming
  <2>3. me[t].ptr \in Listed /\ me[t].ptr \in Names
    BY <1>1, <2>2 DEF OnRing
  <2>4. /\ Theirs(t).headIndex \in Nat /\ Theirs(t).tailIndex \in Nat
        /\ Theirs(t).dequeueOptimisticCount \in Nat /\ Theirs(t).dequeueOvercommit \in Nat
    BY <2>3 DEF CounterInv, Counters, Theirs
  <2>5. Counters = {"headIndex", "tailIndex", "dequeueOptimisticCount", "dequeueOvercommit"}
    BY DEF Counters
  <2>6. ASSUME NEW f, NEW v, NEW pc, Sets(t, pc, f, v), f \in Kept \ {"max", "given", "promised"}
        PROVE  me'[t].max = me[t].max /\ me'[t].given = me[t].given /\ me'[t].promised = me[t].promised
               /\ me'[t].pc = pc /\ me'[t][f] = v /\ \A g \in Kept \ {f} : me'[t][g] = me[t][g]
    BY <2>6 DEF Sets, Kept
  <2>7. {"tailIndex", "overcommit", "want", "n", "dequeueCount"} \subseteq Kept \ {"max", "given", "promised"}
    BY DEF Kept
  <2>8. CASE LoadTail(t)
    <3>1. Sets(t, "over", "tailIndex", Theirs(t).tailIndex) /\ producers' = producers
      BY <1>1, <2>8, LoadsAre DEF LoadTail
    <3>2. ~Taking(t)'
      BY <2>6, <2>7, <3>1 DEF Taking, Moving, PoolSteps
    <3>3. Amounts(t)'
      BY <2>2, <2>4, <2>6, <2>7, <3>1, <3>2 DEF Amounts, Claiming
    <3> QED  BY <1>2, <1>7, <3>1, <3>3, AmountStep
  <2>9. CASE LoadOvercommit(t)
    <3>1. /\ Sets(t, "optimistic", "overcommit", Theirs(t).dequeueOvercommit)
          /\ producers' = producers /\ me[t].pc = "over"
      BY <1>1, <2>9, LoadsAre DEF LoadOvercommit, At
    <3>2. ~Taking(t)' /\ me'[t].tailIndex = me[t].tailIndex
      BY <2>6, <2>7, <3>1 DEF Taking, Moving, PoolSteps
    <3>3. Amounts(t)'
      BY <2>2, <2>4, <2>6, <2>7, <3>1, <3>2 DEF Amounts, Claiming
    <3> QED  BY <1>2, <1>7, <3>1, <3>3, AmountStep
  <2>10. CASE LoadCount(t)
    <3> DEFINE desired == me[t].tailIndex - (Theirs(t).dequeueOptimisticCount - me[t].overcommit)
    <3>1. /\ \/ desired > 0 /\ Sets(t, "claim", "want", Least2(desired, me[t].max))
             \/ ~(desired > 0) /\ Sets(t, "dequeued", "n", 0)
          /\ producers' = producers /\ me[t].pc = "optimistic"
      BY <1>1, <2>10, LoadsAre DEF LoadCount, At
    <3>2. desired \in Int /\ me[t].tailIndex \in Nat /\ me[t].overcommit \in Nat /\ me[t].max \in Nat
      BY <2>2, <2>4, <3>1 DEF Amounts, Claiming
    <3> HIDE DEF desired
    <3>3. CASE desired > 0 /\ Sets(t, "claim", "want", Least2(desired, me[t].max))
      <4>1. Least2(desired, me[t].max) \in 0 .. me[t].max
        BY <3>2, <3>3 DEF Least2
      <4>2. ~Taking(t)' /\ me'[t].tailIndex = me[t].tailIndex /\ me'[t].overcommit = me[t].overcommit
        BY <2>6, <2>7, <3>3 DEF Taking, Moving, PoolSteps
      <4>3. Amounts(t)'
        BY <2>2, <2>6, <2>7, <3>2, <3>3, <4>1, <4>2 DEF Amounts, Claiming
      <4> QED  BY <1>2, <1>7, <3>1, <4>3, AmountStep
    <3>4. CASE Sets(t, "dequeued", "n", 0)
      <4>1. Amounts(t)'
        BY <2>2, <2>6, <2>7, <3>2, <3>4 DEF Amounts, Claiming
      <4> QED  BY <1>2, <1>7, <3>1, <4>1, AmountStep
    <3> QED  BY <3>1, <3>3, <3>4
  <2>11. CASE Claim(t)
    <3>1. /\ Sets(t, "again", "dequeueCount", Theirs(t).dequeueOptimisticCount) /\ me[t].pc = "claim"
      BY <1>1, <2>11, LoadsAre DEF Claim, At
    <3>2. /\ ~Taking(t)' /\ me'[t].tailIndex = me[t].tailIndex
          /\ me'[t].overcommit = me[t].overcommit /\ me'[t].want = me[t].want
      BY <2>6, <2>7, <3>1 DEF Taking, Moving, PoolSteps
    <3>3. Amounts(t)'
      BY <2>2, <2>4, <2>6, <2>7, <3>1, <3>2 DEF Amounts, Claiming
    <3>4. Bumps(me[t].ptr, "dequeueOptimisticCount", Theirs(t).dequeueOptimisticCount + me[t].want)
      BY <2>3, <2>11, CountsAre
    <3>5. Theirs(t).dequeueOptimisticCount + me[t].want \in Nat
      BY <2>2, <2>4, <3>1 DEF Amounts
    <3> QED  BY <1>2, <1>6, <2>3, <2>5, <3>3, <3>4, <3>5, AmountStep, CounterBump
  <2>12. CASE LoadAgain(t)
    <3> DEFINE actual == Theirs(t).tailIndex - (me[t].dequeueCount - me[t].overcommit)
               n == IF actual <= 0 THEN 0 ELSE Least2(actual, me[t].want)
               pc == IF n < me[t].want THEN "correct" ELSE "head"
    <3>1. /\ Sets(t, pc, "n", n) /\ producers' = producers /\ me[t].pc = "again"
      BY <1>1, <2>12, ClaimsAre DEF LoadAgain, At
    <3>2. /\ me[t].dequeueCount \in Nat /\ me[t].overcommit \in Nat /\ me[t].tailIndex \in Nat
          /\ me[t].want \in 0 .. me[t].max /\ me[t].max \in Nat
      BY <2>2, <3>1 DEF Amounts, Claiming
    <3>3. n \in 0 .. me[t].want
      BY <2>4, <3>2 DEF Least2
    <3>4. pc \in {"correct", "head"}
      OBVIOUS
    <3> HIDE DEF n, pc
    <3>5. /\ ~Taking(t)' /\ me'[t].tailIndex = me[t].tailIndex /\ me'[t].dequeueCount = me[t].dequeueCount
          /\ me'[t].overcommit = me[t].overcommit /\ me'[t].want = me[t].want
      BY <2>6, <2>7, <3>1, <3>4 DEF Taking, Moving, PoolSteps
    <3>6. Amounts(t)'
      BY <2>2, <2>6, <2>7, <3>1, <3>2, <3>3, <3>4, <3>5 DEF Amounts, Claiming
    <3> QED  BY <1>2, <1>7, <3>1, <3>6, AmountStep
  <2>13. CASE Correct(t)
    <3> DEFINE pc == IF me[t].n = 0 THEN "dequeued" ELSE "head"
    <3>1. Sets(t, pc, "n", me[t].n) /\ me[t].pc = "correct"
      BY <1>1, <2>13, ClaimsAre DEF Correct, At
    <3>2. /\ me[t].dequeueCount \in Nat /\ me[t].overcommit \in Nat /\ me[t].tailIndex \in Nat
          /\ me[t].want \in 0 .. me[t].max /\ me[t].max \in Nat /\ me[t].n \in 0 .. me[t].want
      BY <2>2, <3>1 DEF Amounts
    <3>3. pc \in {"dequeued", "head"}
      OBVIOUS
    <3> HIDE DEF pc
    <3>4. /\ me'[t].tailIndex = me[t].tailIndex /\ me'[t].dequeueCount = me[t].dequeueCount
          /\ me'[t].overcommit = me[t].overcommit /\ me'[t].want = me[t].want
      BY <2>6, <2>7, <3>1
    <3>5. me[t].n \in 0 .. me[t].max
      BY <3>2
    <3>6. Amounts(t)'
      BY <2>2, <2>6, <2>7, <3>1, <3>2, <3>3, <3>4, <3>5 DEF Amounts, Claiming
    <3>7. Bumps(me[t].ptr, "dequeueOvercommit", Theirs(t).dequeueOvercommit + me[t].want - me[t].n)
      BY <2>3, <2>13, CountsAre
    <3>8. Theirs(t).dequeueOvercommit + me[t].want - me[t].n \in Nat
      BY <2>4, <3>2
    <3> QED  BY <1>2, <1>6, <2>3, <2>5, <3>6, <3>7, <3>8, AmountStep, CounterBump
  <2>14. CASE TakeHead(t)
    <3>1. Sets(t, "find", "given", me[t].given + me[t].n) /\ me[t].pc = "head"
      BY <1>1, <2>14, LoadsAre DEF TakeHead, At
    <3>2. /\ me[t].want \in 0 .. me[t].max /\ me[t].max \in Nat /\ me[t].n \in 0 .. me[t].want
          /\ me[t].given \in Nat /\ me[t].promised \in Nat
      BY <2>2, <3>1 DEF Amounts
    <3>3. /\ me'[t].pc = "find" /\ me'[t].max = me[t].max /\ me'[t].promised = me[t].promised
          /\ me'[t].n = me[t].n /\ me'[t].given = me[t].given + me[t].n
      BY <3>1 DEF Sets, Kept
    <3>4. me[t].n \in 0 .. me[t].max /\ me[t].given + me[t].n \in Nat
      BY <3>2
    <3>5. Amounts(t)'
      BY <3>2, <3>3, <3>4 DEF Amounts, Claiming
    <3>6. Bumps(me[t].ptr, "headIndex", Theirs(t).headIndex + me[t].n)
      BY <2>3, <2>14, CountsAre
    <3>7. Theirs(t).headIndex + me[t].n \in Nat
      BY <2>4, <3>2
    <3> QED  BY <1>2, <1>6, <2>3, <2>5, <3>5, <3>6, <3>7, AmountStep, CounterBump
  <2> QED  BY <1>15, <2>8, <2>9, <2>10, <2>11, <2>12, <2>13, <2>14
<1> QED  BY <1>10, <1>11, <1>12, <1>13, <1>14, <1>15 DEF Walking

-----------------------------------------------------------------------------
(* The producers a walk has still before it.                               *)

\* A list without repetitions, as producerList is.
Ring(list) ==
  /\ Len(list) \in Nat /\ DOMAIN list = 1 .. Len(list)
  /\ \A i, j \in DOMAIN list : list[i] = list[j] => i = j
Of(list) == {list[i] : i \in DOMAIN list}

\* producerList is a ring.
LEMMA RingIs ==
  ASSUME ListInv
  PROVE  Ring(producerList) /\ Of(producerList) = Listed
BY ListedIs DEF Ring, Of, Listed, ListInv

\* It is one after the step.
LEMMA RingIsNext ==
  ASSUME ListInv'
  PROVE  Ring(producerList') /\ Of(producerList') = Listed'
BY DEF Ring, Of, Listed, ListInv

\* The producers of a ring and their places.
LEMMA PlaceIs ==
  ASSUME NEW list, Ring(list)
  PROVE  /\ \A q \in Of(list) : PlaceIn(list, q) \in DOMAIN list /\ list[PlaceIn(list, q)] = q
         /\ \A i \in DOMAIN list : list[i] \in Of(list) /\ PlaceIn(list, list[i]) = i
<1>1. \A q \in Of(list) : PlaceIn(list, q) \in DOMAIN list /\ list[PlaceIn(list, q)] = q
  BY DEF PlaceIn, Of
<1>2. \A i \in DOMAIN list : list[i] \in Of(list)
  BY DEF Of
<1> QED  BY <1>1, <1>2 DEF Ring

\* The producers ahead of a walk.
LEMMA AheadIs ==
  ASSUME NEW list, Ring(list), NEW walking \in BOOLEAN, NEW ptr, NEW listTail, NEW current, NEW q,
         walking => listTail \in Of(list)
  PROVE  q \in AheadIn(list, walking, ptr, listTail, current) <=>
           /\ q \in Of(list)
           /\ IF walking THEN /\ PlaceIn(list, listTail) <= PlaceIn(list, q)
                              /\ Between(PlaceIn(list, ptr), PlaceIn(list, current), PlaceIn(list, q))
              ELSE q # ptr
<1>1. CASE ~walking
  BY <1>1 DEF AheadIn, Of
<1>2. CASE walking
  <2> DEFINE k == PlaceIn(list, listTail)
             B(y) == Between(PlaceIn(list, ptr), PlaceIn(list, current), y)
  <2>1. Len(list) \in Nat /\ DOMAIN list = 1 .. Len(list) /\ k \in 1 .. Len(list)
    BY <1>2, PlaceIs DEF Ring
  <2>2. AheadIn(list, walking, ptr, listTail, current) = {list[i] : i \in {y \in k .. Len(list) : B(y)}}
    BY <1>2 DEF AheadIn
  <2> HIDE DEF B, k
  <2>3. ASSUME NEW i \in k .. Len(list), B(i), q = list[i]
        PROVE  q \in Of(list) /\ k <= PlaceIn(list, q) /\ B(PlaceIn(list, q))
    <3>1. i \in DOMAIN list
      BY <2>1
    <3>2. PlaceIn(list, q) = i /\ q \in Of(list)
      BY <2>3, <3>1, PlaceIs
    <3> QED  BY <2>1, <2>3, <3>2
  <2>4. ASSUME q \in Of(list), k <= PlaceIn(list, q), B(PlaceIn(list, q))
        PROVE  \E i \in {y \in k .. Len(list) : B(y)} : q = list[i]
    <3>1. PlaceIn(list, q) \in 1 .. Len(list) /\ list[PlaceIn(list, q)] = q
      BY <2>1, <2>4, PlaceIs
    <3>2. PlaceIn(list, q) \in k .. Len(list)
      BY <2>1, <2>4, <3>1
    <3> QED  BY <2>4, <3>1, <3>2
  <2>5. q \in AheadIn(list, walking, ptr, listTail, current) <=>
          q \in Of(list) /\ k <= PlaceIn(list, q) /\ B(PlaceIn(list, q))
    BY <2>2, <2>3, <2>4
  <2> QED  BY <1>2, <2>5 DEF B, k
<1> QED  BY <1>1, <1>2

\* The producer that a walk is at is not ahead of it.
LEMMA AheadApart ==
  ASSUME ListInv, NEW t \in Threads, OnRing(t)
  PROVE  me[t].ptr \notin Ahead(t) /\ Ahead(t) \subseteq Listed
<1>1. Ring(producerList) /\ Of(producerList) = Listed
  BY RingIs
<1>2. /\ me[t].walking \in BOOLEAN /\ me[t].ptr \in Listed
      /\ me[t].walking => me[t].listTail \in Listed
  BY DEF OnRing
<1>3. ASSUME NEW q, q \in Ahead(t)
      PROVE  q \in Listed /\ q # me[t].ptr
  <2>1. /\ q \in Of(producerList)
        /\ IF me[t].walking
           THEN /\ PlaceIn(producerList, me[t].listTail) <= PlaceIn(producerList, q)
                /\ Between(PlaceIn(producerList, me[t].ptr),
                           PlaceIn(producerList, token[t].currentProducer), PlaceIn(producerList, q))
           ELSE q # me[t].ptr
    BY <1>1, <1>2, <1>3, AheadIs DEF Ahead
  <2>2. PlaceIn(producerList, me[t].ptr) \in Nat
    BY <1>1, <1>2, PlaceIs DEF Ring
  <2>3. ~Between(PlaceIn(producerList, me[t].ptr), PlaceIn(producerList, token[t].currentProducer),
                 PlaceIn(producerList, me[t].ptr))
    BY <2>2 DEF Between
  <2> QED  BY <1>1, <2>1, <2>3
<1> QED  BY <1>3

\* A producer that is put in front of the list leaves no other out.
LEMMA AheadGrows ==
  ASSUME ListInv, ListInv', Grows, NEW t \in Threads, OnRing(t), TokenOK(t),
         me'[t].ptr = me[t].ptr, me'[t].walking = me[t].walking,
         me'[t].listTail = me[t].listTail, token'[t] = token[t]
  PROVE  Ahead(t) \subseteq Ahead(t)'
<1> DEFINE ptr == me[t].ptr
           walking == me[t].walking
           listTail == me[t].listTail
           cur == token[t].currentProducer
<1>1. Ring(producerList) /\ Of(producerList) = Listed /\ Ring(producerList') /\ Of(producerList') = Listed'
  BY RingIs, RingIsNext
<1>2. /\ walking \in BOOLEAN /\ ptr \in Listed /\ cur \in Listed
      /\ walking => listTail \in Listed
  BY DEF OnRing, TokenOK
<1>3. PICK d \in {0, 1} : \A q \in Listed : PlaceIn(producerList', q) = Place(q) + d
  BY Shifted, Zenon
<1>4. Listed \subseteq Listed'
  BY Shifted
<1>5. \A q \in Listed : Place(q) \in Nat /\ Place(q) = PlaceIn(producerList, q)
  BY ListedIs DEF Place
<1>6. Ahead(t)' = AheadIn(producerList', walking, ptr, listTail, cur)
  BY DEF Ahead
<1>7. ASSUME NEW q \in Ahead(t)
      PROVE  q \in Ahead(t)'
  <2>1. /\ q \in Listed
        /\ IF walking THEN Place(listTail) <= Place(q) /\ Between(Place(ptr), Place(cur), Place(q))
           ELSE q # ptr
    BY <1>1, <1>2, AheadIs DEF Ahead, Place
  <2>2. walking => /\ PlaceIn(producerList', listTail) <= PlaceIn(producerList', q)
                   /\ Between(PlaceIn(producerList', ptr), PlaceIn(producerList', cur),
                              PlaceIn(producerList', q))
    <3> SUFFICES ASSUME walking
                 PROVE  /\ PlaceIn(producerList', listTail) <= PlaceIn(producerList', q)
                        /\ Between(PlaceIn(producerList', ptr), PlaceIn(producerList', cur),
                                   PlaceIn(producerList', q))
      OBVIOUS
    <3>1. /\ PlaceIn(producerList', listTail) = Place(listTail) + d
          /\ PlaceIn(producerList', q) = Place(q) + d
          /\ PlaceIn(producerList', ptr) = Place(ptr) + d
          /\ PlaceIn(producerList', cur) = Place(cur) + d
      BY <1>2, <1>3, <2>1
    <3>2. /\ Place(listTail) \in Nat /\ Place(q) \in Nat /\ Place(ptr) \in Nat /\ Place(cur) \in Nat
      BY <1>2, <1>5, <2>1
    <3> QED  BY <2>1, <3>1, <3>2 DEF Between
  <2> QED  BY <1>1, <1>2, <1>4, <1>6, <2>1, <2>2, AheadIs
<1> QED  BY <1>7

\* next comes after ptr on the ring from listTail on, for a walk to cur; new is where the
\* walk is to end from now on.
OnWay(list, walking, ptr, cur, listTail, next, new) ==
  /\ Ring(list) /\ walking \in BOOLEAN /\ ptr \in Of(list) /\ cur \in Of(list)
  /\ listTail \in Of(list) /\ next \in Of(list) /\ new \in {cur, ptr}
  /\ PlaceIn(list, listTail) <= PlaceIn(list, ptr) /\ PlaceIn(list, listTail) <= PlaceIn(list, cur)
  /\ ~walking => ptr = cur /\ PlaceIn(list, listTail) = 1
  /\ PlaceIn(list, next) = IF PlaceIn(list, ptr) = Len(list) THEN PlaceIn(list, listTail)
                           ELSE PlaceIn(list, ptr) + 1

\* The walk goes on to the next producer: no other is left out, and it is over only when
\* there is none left.
LEMMA WalkOn ==
  ASSUME NEW list, NEW walking, NEW ptr, NEW cur, NEW listTail, NEW next, NEW new,
         OnWay(list, walking, ptr, cur, listTail, next, new)
  PROVE  /\ next = new => AheadIn(list, walking, ptr, listTail, cur) = {}
         /\ next # new => AheadIn(list, walking, ptr, listTail, cur)
                            \subseteq AheadIn(list, TRUE, next, listTail, new) \cup {next}
<1> USE DEF OnWay
<1> DEFINE P(x) == PlaceIn(list, x)
<1>1. /\ Len(list) \in Nat /\ \A q \in Of(list) : P(q) \in 1 .. Len(list)
      /\ \A q, r \in Of(list) : P(q) = P(r) => q = r
  BY PlaceIs DEF Ring
<1>2. ASSUME NEW q \in AheadIn(list, walking, ptr, listTail, cur)
      PROVE  /\ q \in Of(list) /\ P(listTail) <= P(q) /\ q # ptr
             /\ walking => Between(P(ptr), P(cur), P(q))
  <2>1. /\ q \in Of(list)
        /\ IF walking THEN P(listTail) <= P(q) /\ Between(P(ptr), P(cur), P(q)) ELSE q # ptr
    BY <1>2, AheadIs
  <2>2. P(q) \in Nat /\ 1 <= P(q) /\ P(ptr) \in Nat
    BY <1>1, <2>1
  <2>3. CASE walking
    <3>1. P(q) # P(ptr)
      BY <2>1, <2>2, <2>3 DEF Between
    <3> QED  BY <2>1, <2>3, <3>1
  <2>4. CASE ~walking
    BY <2>1, <2>2, <2>4
  <2> QED  BY <2>3, <2>4
<1>3. /\ P(ptr) \in 1 .. Len(list) /\ P(cur) \in 1 .. Len(list) /\ P(listTail) \in 1 .. Len(list)
      /\ P(next) \in 1 .. Len(list) /\ P(new) \in 1 .. Len(list)
  BY <1>1
<1>4. P(new) \in {P(cur), P(ptr)}
  OBVIOUS
<1>5. ASSUME next = new, NEW q \in AheadIn(list, walking, ptr, listTail, cur)
      PROVE  FALSE
  <2>1. P(q) \in 1 .. Len(list) /\ P(q) # P(ptr) /\ P(listTail) <= P(q)
    BY <1>1, <1>2
  <2>2. P(next) = P(new)
    BY <1>5
  <2>3. CASE walking
    <3>1. Between(P(ptr), P(cur), P(q))
      BY <1>2, <2>3
    <3> HIDE DEF P
    <3> QED  BY <1>1, <1>3, <1>4, <2>1, <2>2, <3>1 DEF Between, P
  <2>4. CASE ~walking
    <3>1. P(ptr) = P(cur) /\ P(listTail) = 1
      BY <2>4
    <3> HIDE DEF P
    <3> QED  BY <1>1, <1>3, <1>4, <2>1, <2>2, <3>1 DEF P
  <2> QED  BY <2>3, <2>4
<1>6. ASSUME next # new, NEW q \in AheadIn(list, walking, ptr, listTail, cur), q # next
      PROVE  q \in AheadIn(list, TRUE, next, listTail, new)
  <2>1. q \in Of(list) /\ P(q) \in 1 .. Len(list) /\ P(q) # P(ptr) /\ P(listTail) <= P(q)
    BY <1>1, <1>2
  <2>2. P(next) # P(new) /\ P(q) # P(next)
    BY <1>1, <1>6, <2>1
  <2>3. Between(P(next), P(new), P(q))
    <3>1. CASE walking
      <4>1. Between(P(ptr), P(cur), P(q))
        BY <1>2, <3>1
      <4> HIDE DEF P
      <4> QED  BY <1>1, <1>3, <1>4, <2>1, <2>2, <4>1 DEF Between, P
    <3>2. CASE ~walking
      <4>1. P(ptr) = P(cur) /\ P(listTail) = 1
        BY <3>2
      <4> HIDE DEF P
      <4> QED  BY <1>1, <1>3, <1>4, <2>1, <2>2, <4>1 DEF Between, P
    <3> QED  BY <3>1, <3>2
  <2> QED  BY <2>1, <2>3, AheadIs
<1> QED  BY <1>5, <1>6

\* The counts of items are numbers.
LEMMA PresentFinite ==
  ASSUME NEW b, IsFiniteSet(PresentIn(b, Names)), NEW S, S \subseteq Names,
         \A p \in Names : b[p].headIndex \in Nat /\ b[p].tailIndex \in Nat
  PROVE  IsFiniteSet(PresentIn(b, S)) /\ Cardinality(PresentIn(b, S)) \in Nat
<1>1. \A p \in S : /\ b[p].headIndex \in Int /\ b[p].tailIndex \in Int
                   /\ b[p].headIndex = b[p].headIndex /\ b[p].tailIndex >= b[p].tailIndex
  OBVIOUS
<1> QED  BY <1>1, PresentGrows

\* The counters, and finitely many items.
LEMMA CountsNow ==
  ASSUME CounterInv
  PROVE  /\ IsFiniteSet(PresentIn(producers, Names))
         /\ \A p \in Names : producers[p].headIndex \in Nat /\ producers[p].tailIndex \in Nat
         /\ \A p \in Names : producers[p].dequeueOptimisticCount \in Nat
                               /\ producers[p].dequeueOvercommit \in Nat
         /\ \A S : Present(S) = PresentIn(producers, S)
<1>1. IsFiniteSet(PresentIn(producers, Names))
  BY DEF CounterInv, Present, PresentIn
<1>2. \A S : Present(S) = PresentIn(producers, S)
  BY DEF Present, PresentIn
<1> QED  BY <1>1, <1>2 DEF CounterInv, Counters

\* The same after the step.
LEMMA CountsThen ==
  ASSUME CounterInv'
  PROVE  /\ IsFiniteSet(PresentIn(producers', Names))
         /\ \A p \in Names : producers'[p].headIndex \in Nat /\ producers'[p].tailIndex \in Nat
<1>1. IsFiniteSet(PresentIn(producers', Names))
  BY DEF CounterInv, Present, PresentIn
<1> QED  BY <1>1 DEF CounterInv, Counters

\* Only enqueues of others: the tails grow.
TailsGrow ==
  \A p \in Names :
    /\ producers'[p].headIndex = producers[p].headIndex
    /\ producers'[p].tailIndex >= producers[p].tailIndex
    /\ producers'[p].dequeueOptimisticCount = producers[p].dequeueOptimisticCount
    /\ producers'[p].dequeueOvercommit = producers[p].dequeueOvercommit

\* What a consumer has been promised survives the steps of the others.
LEMMA Undisturbed ==
  ASSUME ListInv, ListInv', CounterInv, CounterInv', Grows, TailsGrow,
         Listed \subseteq Names, Listed' \subseteq Names,
         NEW u \in Threads, TokenOK(u), Amounts(u), token'[u] = token[u],
         Head(todo'[u]) = Head(todo[u]), \A g \in Kept : me'[u][g] = me[u][g]
  PROVE  /\ AtRotate(u) => AtRotate(u)'
         /\ OnRing(u) => /\ AtTail(u) => AtTail(u)'
                         /\ AtClaim(u) /\ me'[u].pc = me[u].pc => AtClaim(u)'
                         /\ AtMove(u) => AtMove(u)'
<1>1. /\ me'[u].max = me[u].max /\ me'[u].given = me[u].given /\ me'[u].promised = me[u].promised
      /\ me'[u].ptr = me[u].ptr /\ me'[u].walking = me[u].walking /\ me'[u].listTail = me[u].listTail
      /\ me'[u].tailIndex = me[u].tailIndex /\ me'[u].overcommit = me[u].overcommit
      /\ me'[u].want = me[u].want /\ me'[u].dequeueCount = me[u].dequeueCount /\ me'[u].n = me[u].n
  BY DEF Kept
<1>2. me[u].max \in Nat /\ me[u].given \in Nat /\ me[u].promised \in Nat /\ CallMax(u)' = CallMax(u)
  BY DEF Amounts, CallMax
<1>3. ASSUME NEW S, NEW T, S \subseteq T, T \subseteq Names
      PROVE  /\ Cardinality(PresentIn(producers, S)) \in Nat
             /\ Cardinality(PresentIn(producers', T)) \in Nat
             /\ Cardinality(PresentIn(producers, S)) <= Cardinality(PresentIn(producers', T))
  <2>1. IsFiniteSet(PresentIn(producers', T))
    BY <1>3, CountsThen, PresentFinite
  <2>2. \A p \in S : /\ producers[p].headIndex \in Int /\ producers[p].tailIndex \in Int
                     /\ producers'[p].headIndex = producers[p].headIndex
                     /\ producers'[p].tailIndex \in Int
                     /\ producers'[p].tailIndex >= producers[p].tailIndex
    BY <1>3, CountsNow, CountsThen DEF TailsGrow
  <2> QED  BY <1>3, <2>1, <2>2, PresentGrows
<1>4. AtRotate(u) => AtRotate(u)'
  <2>1. Listed \subseteq Listed'
    BY Shifted
  <2>2. Cardinality(Present(Listed))' = Cardinality(PresentIn(producers', Listed'))
    BY DEF Present, PresentIn
  <2>3. Cardinality(Present(Listed)) = Cardinality(PresentIn(producers, Listed))
    BY DEF Present, PresentIn
  <2>4. /\ Cardinality(PresentIn(producers, Listed)) \in Nat
        /\ Cardinality(PresentIn(producers', Listed')) \in Nat
        /\ Cardinality(PresentIn(producers, Listed)) <= Cardinality(PresentIn(producers', Listed'))
    BY <1>3, <2>1
  <2> QED  BY <1>1, <1>2, <2>2, <2>3, <2>4 DEF AtRotate
<1> SUFFICES ASSUME OnRing(u)
             PROVE  /\ AtTail(u) => AtTail(u)'
                    /\ AtClaim(u) /\ me'[u].pc = me[u].pc => AtClaim(u)'
                    /\ AtMove(u) => AtMove(u)'
  BY <1>4
<1>5. OnRing(u)' /\ Ahead(u) \subseteq Ahead(u)'
  BY <1>1, RingThread, AheadGrows
<1>6. me[u].ptr \in Names /\ Ahead(u) \subseteq Names /\ Ahead(u)' \subseteq Names
  <2>1. Ahead(u) \subseteq Listed /\ me[u].ptr \in Listed
    BY AheadApart DEF OnRing
  <2>2. Ahead(u)' \subseteq Listed'
    <3> DEFINE A == AheadIn(producerList', me'[u].walking, me'[u].ptr, me'[u].listTail,
                            token'[u].currentProducer)
    <3>1. Ring(producerList') /\ Of(producerList') = Listed'
      BY RingIsNext
    <3>2. me'[u].walking \in BOOLEAN /\ (me'[u].walking => me'[u].listTail \in Listed')
      BY <1>5 DEF OnRing
    <3>3. A \subseteq Listed'
      BY <3>1, <3>2, AheadIs
    <3> QED  BY <3>3 DEF Ahead
  <2> QED  BY <2>1, <2>2
<1> DEFINE c == Cardinality(PresentIn(producers, Ahead(u)))
           d == Cardinality(PresentIn(producers', Ahead(u)'))
           e == Cardinality(PresentIn(producers, Ahead(u) \cup {me[u].ptr}))
           f == Cardinality(PresentIn(producers', Ahead(u)' \cup {me[u].ptr}))
<1>7. c \in Nat /\ d \in Nat /\ c <= d
  BY <1>3, <1>5, <1>6
<1>8. e \in Nat /\ f \in Nat /\ e <= f
  <2>1. Ahead(u) \cup {me[u].ptr} \subseteq Ahead(u)' \cup {me[u].ptr}
    BY <1>5
  <2>2. Ahead(u)' \cup {me[u].ptr} \subseteq Names
    BY <1>6
  <2> QED  BY <1>3, <2>1, <2>2
<1>9. /\ Cardinality(Present(Ahead(u))) = c /\ Cardinality(Present(Ahead(u) \cup {me[u].ptr})) = e
  BY DEF Present, PresentIn
<1>10. Cardinality(Present(Ahead(u)))' = d
  BY DEF Present, PresentIn
<1>11. Cardinality(Present(Ahead(u) \cup {me[u].ptr}))' = f
  BY <1>1 DEF Present, PresentIn
<1> HIDE DEF c, d, e, f
<1>12. AtTail(u) => AtTail(u)'
  BY <1>1, <1>2, <1>8, <1>9, <1>11 DEF AtTail
<1>13. AtMove(u) => AtMove(u)'
  BY <1>1, <1>2, <1>7, <1>9, <1>10 DEF AtMove
<1>14. ASSUME AtClaim(u), me'[u].pc = me[u].pc PROVE AtClaim(u)'
  <2> DEFINE q == producers[me[u].ptr]
             r == producers'[me[u].ptr]
  <2>1. /\ q.headIndex \in Nat /\ q.tailIndex \in Nat /\ r.tailIndex \in Nat
        /\ r.headIndex = q.headIndex /\ r.tailIndex >= q.tailIndex
        /\ r.dequeueOptimisticCount = q.dequeueOptimisticCount
    BY <1>6, CountsNow, CountsThen DEF TailsGrow
  <2>2. me[u].tailIndex \in Nat /\ me[u].tailIndex \in q.headIndex .. q.tailIndex
    BY <1>14, <2>1 DEF AtClaim
  <2> QED  BY <1>1, <1>2, <1>7, <1>9, <1>10, <1>14, <2>1, <2>2 DEF AtClaim
<1> QED  BY <1>12, <1>13, <1>14

-----------------------------------------------------------------------------
(* The only consumer.                                                      *)

\* Two threads that dequeue are one.
LEMMA OnlyConsumer ==
  ASSUME CallInv, OneConsumer, NEW t \in Threads, NEW u \in Threads,
         todo[t] # << >>, Head(todo[t]).op = "take", todo[u] # << >>, Head(todo[u]).op = "take"
  PROVE  t = u
<1> DEFINE C == {v \in Threads : \E i \in DOMAIN workload.calls[v] : workload.calls[v][i].op = "take"}
<1>1. t \in C /\ u \in C
  <2>1. \A v \in Threads : todo[v] # << >> => \E i \in DOMAIN workload.calls[v] :
                                                Head(todo[v]) = workload.calls[v][i]
    BY CallIs DEF CallsOf
  <2> QED  BY <2>1
<1>2. IsFiniteSet(C) /\ Cardinality(C) <= 1
  BY PoolAssumption, FS_Subset DEF OneConsumer
<1> HIDE DEF C
<1>3. SUFFICES ASSUME t # u PROVE FALSE
  OBVIOUS
<1>4. IsFiniteSet({t}) /\ Cardinality({t}) = 1
  BY FS_Singleton
<1> DEFINE D == {t} \cup {u}
<1>5. Cardinality(D) = 2
  <2> DEFINE T == {t}
  <2>1. IsFiniteSet(T) /\ Cardinality(T) = 1 /\ u \notin T
    BY <1>3, <1>4
  <2> HIDE DEF T
  <2>2. Cardinality(T \cup {u}) = Cardinality(T) + 1
    BY <2>1, FS_AddElement
  <2> QED  BY <2>1, <2>2 DEF T
<1>6. Cardinality(D) <= Cardinality(C)
  BY <1>1, <1>2, FS_Subset
<1> HIDE DEF D
<1>7. Cardinality(C) \in Nat
  BY <1>2, FS_CardinalityType
<1> QED  BY <1>2, <1>5, <1>6, <1>7

\* No other thread is in a dequeue.
LEMMA OthersOut ==
  ASSUME CallInv, OneConsumer, NEW t \in Threads,
         Consuming(t) \/ (todo[t] # << >> /\ Head(todo[t]).op = "take")
  PROVE  \A u \in Threads \ {t} : ~Consuming(u)
<1>1. \A u \in Threads : Consuming(u) => todo[u] # << >> /\ Head(todo[u]).op = "take"
  BY DEF CallInv, Consuming, Taking, Claiming, Moving, PoolSteps
<1> QED  BY <1>1, OnlyConsumer

\* A thread's step, and what the others have been promised.
LEMMA TakeThread ==
  ASSUME QueueInv, QueueInv', TakeInv, Grows, NEW t \in Threads,
         \A u \in Threads \ {t} : me'[u] = me[u] /\ token'[u] = token[u] /\ todo'[u] = todo[u],
         (\E u \in Threads \ {t} : Consuming(u)) => TailsGrow, TakeOK(t)'
  PROVE  TakeInv'
<1>1. ASSUME NEW u \in Threads \ {t}
      PROVE  TakeOK(u)'
  <2>1. /\ me'[u] = me[u] /\ token'[u] = token[u] /\ todo'[u] = todo[u] /\ TakeOK(u)
        /\ Taking(u)' = Taking(u)
    BY <1>1 DEF TakeInv, Taking
  <2>2. CASE ~Consuming(u)
    <3>1. me[u].pc \notin Claiming \cup {"rotate", "tail"} /\ ~Taking(u)
      BY <2>2 DEF Consuming
    <3> QED  BY <2>1, <3>1 DEF TakeOK
  <2>3. CASE Consuming(u)
    <3>1. /\ TokenOK(u) /\ Amounts(u) /\ (me[u].pc # "rotate" => OnRing(u))
      BY <2>3 DEF QueueInv, RingInv, RingOK, AmountInv
    <3>2. /\ AtRotate(u) => AtRotate(u)'
          /\ OnRing(u) => /\ AtTail(u) => AtTail(u)'
                          /\ AtClaim(u) => AtClaim(u)'
                          /\ AtMove(u) => AtMove(u)'
      BY <2>1, <2>3, <3>1, Undisturbed DEF QueueInv
    <3>3. Taking(u) => me[u].pc # "rotate"
      BY DEF Taking, Moving, PoolSteps
    <3> QED  BY <2>1, <3>1, <3>2, <3>3 DEF TakeOK, Claiming
  <2> QED  BY <2>2, <2>3
<1> QED  BY <1>1 DEF TakeInv

\* The counters stay exact while only tails grow.
LEMMA ExactKept ==
  ASSUME CounterInv, CounterInv', Exact, TailsGrow, NEW t \in Threads,
         \A u \in Threads \ {t} : me'[u] = me[u],
         me[t].pc \in {"again", "head"} =>
           me'[t].pc \in {"again", "head"} /\ me'[t].ptr = me[t].ptr
  PROVE  Exact'
<1>1. ASSUME NEW p \in Names
      PROVE  /\ producers'[p].dequeueOvercommit = 0
             /\ producers'[p].headIndex <= producers'[p].tailIndex
             /\ (\A u \in Threads : ~(me'[u].pc \in {"again", "head"} /\ me'[u].ptr = p))
                  => producers'[p].dequeueOptimisticCount = producers'[p].headIndex
  <2>1. /\ producers[p].headIndex \in Nat /\ producers[p].tailIndex \in Nat
        /\ producers'[p].tailIndex \in Nat
    BY CountsNow, CountsThen
  <2>2. (\A u \in Threads : ~(me'[u].pc \in {"again", "head"} /\ me'[u].ptr = p)) =>
           \A u \in Threads : ~(me[u].pc \in {"again", "head"} /\ me[u].ptr = p)
    OBVIOUS
  <2> QED  BY <2>1, <2>2 DEF Exact, TailsGrow
<1> QED  BY <1>1 DEF Exact

\* Counters that do not change, and an enqueue's new tail.
LEMMA SameGrow ==
  ASSUME CounterInv, SameCounts
  PROVE  TailsGrow
<1> SUFFICES ASSUME NEW p \in Names
             PROVE  /\ producers'[p].headIndex = producers[p].headIndex
                    /\ producers'[p].tailIndex >= producers[p].tailIndex
                    /\ producers'[p].dequeueOptimisticCount = producers[p].dequeueOptimisticCount
                    /\ producers'[p].dequeueOvercommit = producers[p].dequeueOvercommit
  BY DEF TailsGrow
<1>1. \A f \in Counters : producers'[p][f] = producers[p][f]
  BY DEF SameCounts
<1>2. producers[p].tailIndex \in Nat
  BY CountsNow
<1> QED  BY <1>1, <1>2 DEF Counters

\* An enqueue publishes its items at a tail of its own.
LEMMA PublishGrows ==
  ASSUME QueueInv, NEW t \in Threads, Publish(t)
  PROVE  TailsGrow
<1>1. OwnInv /\ ListInv /\ CallInv /\ CounterInv /\ Listed \subseteq Names
  BY DEF QueueInv
<1>2. me[t].producer \in ProducersOf(t)
  BY <1>1 DEF Publish, At, OwnInv, Settled, Enqueuing
<1>3. me[t].producer \in Names
  BY <1>1, <1>2 DEF ListInv
<1>4. Bumps(me[t].producer, "tailIndex", MyQueue(t).tailIndex + Len(me[t].items))
  BY <1>1, <1>3, CountsAre
<1> SUFFICES ASSUME NEW p \in Names
             PROVE  /\ producers'[p].headIndex = producers[p].headIndex
                    /\ producers'[p].tailIndex >= producers[p].tailIndex
                    /\ producers'[p].dequeueOptimisticCount = producers[p].dequeueOptimisticCount
                    /\ producers'[p].dequeueOvercommit = producers[p].dequeueOvercommit
  BY DEF TailsGrow
<1>5. \A f \in Counters : producers'[p][f] =
         IF p = me[t].producer /\ f = "tailIndex" THEN MyQueue(t).tailIndex + Len(me[t].items)
         ELSE producers[p][f]
  BY <1>4 DEF Bumps
<1>6. producers[p].tailIndex \in Nat /\ Len(me[t].items) \in Nat
  BY <1>1, CountsNow DEF CallInv
<1>7. Counters = {"headIndex", "tailIndex", "dequeueOptimisticCount", "dequeueOvercommit"}
  BY DEF Counters
<1>8. p = me[t].producer => MyQueue(t) = producers[p]
  BY DEF MyQueue
<1> QED  BY <1>5, <1>6, <1>7, <1>8

\* A step that is not one of a dequeue, or one that moves items.
LEMMA WalkQuiet ==
  ASSUME QueueInv, QueueInv', Exact, TakeInv, NEW t \in Threads, Step(t),
         Silent(t) \/ (UNCHANGED hashVars /\ (Enqueue(t) \/ Refused(t) \/ Publish(t)))
  PROVE  Exact' /\ TakeInv'
<1>1. /\ LocalsOK /\ CallInv /\ OwnInv /\ ListInv /\ ListInv' /\ CounterInv /\ CounterInv' /\ RingInv
      /\ AmountInv /\ Listed \subseteq Names /\ Listed' \subseteq Names
      /\ TakeOK(t) /\ RingOK(t) /\ TokenOK(t)
  BY DEF QueueInv, OwnInv, TakeInv, RingInv, RingOK
<1>2. /\ \A u \in Threads \ {t} : me'[u] = me[u] /\ token'[u] = token[u]
      /\ Grows
  BY <1>1, RingOkNext
<1>3. SameCounts => TailsGrow
  BY <1>1, SameGrow
<1>4. CASE Silent(t)
  <2>1. Calm(t) /\ Keeps(t) /\ TailsGrow /\ todo' = todo /\ token' = token
    BY <1>3, <1>4 DEF Silent, Calm
  <2>2. me[t].pc \notin {"again", "head"}
    BY <2>1 DEF Calm, Consuming, Taking, Claiming, Moving, PoolSteps
  <2>3. Exact'
    BY <1>1, <1>2, <2>1, <2>2, ExactKept
  <2>4. TakeOK(t)'
    <3>1. me'[t].short = me[t].short /\ me[t].short = FALSE /\ \A g \in Kept : me'[t][g] = me[t][g]
      BY <1>1, <2>1 DEF Keeps, Kept, TakeOK
    <3>2. CASE ~Consuming(t)'
      BY <3>1, <3>2 DEF TakeOK, Consuming
    <3>3. CASE Consuming(t)'
      <4>1. Taking(t) /\ Taking(t)'
        BY <2>1, <3>3 DEF Calm
      <4>2. me'[t].pc \notin Claiming \cup {"rotate", "tail", "correct"} /\ Consuming(t) /\ me[t].pc # "rotate"
        BY <4>1 DEF Taking, Moving, PoolSteps, Claiming, Consuming
      <4>3. OnRing(t) /\ AtMove(t) /\ Amounts(t)
        BY <1>1, <4>1, <4>2 DEF RingOK, TakeOK, AmountInv
      <4>4. AtMove(t)'
        BY <1>1, <1>2, <2>1, <3>1, <4>3, Undisturbed
      <4> QED  BY <3>1, <4>2, <4>4 DEF TakeOK
    <3> QED  BY <3>2, <3>3
  <2> QED  BY <1>2, <2>1, <2>3, <2>4, TakeThread
<1>5. ASSUME TailsGrow, ~Consuming(t)', me'[t].short = FALSE, me[t].pc \notin {"again", "head"},
             \A u \in Threads \ {t} : todo'[u] = todo[u]
      PROVE  Exact' /\ TakeInv'
  <2>1. TakeOK(t)'
    BY <1>5 DEF TakeOK, Consuming
  <2>2. Exact'
    BY <1>1, <1>2, <1>5, ExactKept
  <2> QED  BY <1>2, <1>5, <2>1, <2>2, TakeThread
<1>6. ASSUME Finish(t, FALSE)
      PROVE  ~Consuming(t)' /\ me'[t].short = FALSE /\ \A u \in Threads \ {t} : todo'[u] = todo[u]
  BY <1>1, <1>6, FinishIs
<1>7. CASE Refused(t)
  <2>1. Finish(t, FALSE) /\ producers' = producers /\ me[t].pc \notin {"again", "head"}
    BY <1>7 DEF Refused, queueVars, At
  <2>2. TailsGrow
    BY <1>1, <1>3, <2>1, CountsKept
  <2> QED  BY <1>5, <1>6, <2>1, <2>2
<1>8. CASE Publish(t)
  <2>1. Finish(t, FALSE) /\ me[t].pc = "first"
    BY <1>8 DEF Publish, At
  <2>2. TailsGrow
    BY <1>8, PublishGrows
  <2> QED  BY SMTT(60), <1>5, <1>6, <2>1, <2>2
<1>9. CASE Enqueue(t)
  <2>1. /\ Go(t, "search", [me[t] EXCEPT !.items = Head(todo[t]).items])
        /\ producers' = producers /\ todo' = todo /\ me[t].pc = "idle"
    BY <1>9 DEF Enqueue, queueVars, At
  <2>2. "items" \in Kept
    BY DEF Kept
  <2>3. Sets(t, "search", "items", Head(todo[t]).items)
    BY <1>1, <2>1, <2>2, GoSetsOne
  <2>4. ~Consuming(t)'
    BY <2>3 DEF Sets, Consuming, Taking, Claiming, Moving, PoolSteps
  <2>5. me'[t].short = FALSE
    BY <1>1, <2>3 DEF Sets, Kept, TakeOK
  <2>6. TailsGrow
    BY <1>1, <1>3, <2>1, CountsKept
  <2> QED  BY <1>5, <2>1, <2>4, <2>5, <2>6
<1> QED  BY <1>4, <1>7, <1>8, <1>9

\* All items are with listed producers.
LEMMA AllListed ==
  ASSUME CounterInv, Listed \subseteq Names
  PROVE  Present(Names) = Present(Listed)
<1>1. Present(Names) = PresentIn(producers, Names) /\ Present(Listed) = PresentIn(producers, Listed)
  BY CountsNow
<1>2. ASSUME NEW x \in PresentIn(producers, Names)
      PROVE  x \in PresentIn(producers, Listed)
  <2>1. PICK p \in Names : \E i \in producers[p].headIndex .. producers[p].tailIndex - 1 : x = <<p, i>>
    BY <1>2, PresentIs
  <2>2. producers[p].headIndex \in Nat /\ producers[p].tailIndex \in Nat
    BY CountsNow
  <2>3. p \in Listed
    BY <2>1, <2>2 DEF CounterInv
  <2> QED  BY <2>1, <2>3, PresentIs
<1>3. ASSUME NEW x \in PresentIn(producers, Listed)
      PROVE  x \in PresentIn(producers, Names)
  BY <1>3, PresentIs
<1> QED  BY <1>1, <1>2, <1>3

\* The beginning of a dequeue, with all producers before it.
LEMMA WalkStart ==
  ASSUME QueueInv, QueueInv', OneConsumer, Exact, TakeInv, NEW t \in Threads, Step(t),
         UNCHANGED hashVars, Dequeue(t) \/ update_current_producer_after_rotation(t)
  PROVE  Exact' /\ TakeInv'
<1>1. /\ LocalsOK /\ CallInv /\ OwnInv /\ ListInv /\ ListInv' /\ CounterInv /\ CounterInv' /\ RingInv
      /\ AmountInv /\ Listed \subseteq Names /\ Listed' \subseteq Names
      /\ TakeOK(t) /\ RingOK(t) /\ TokenOK(t) /\ RingOK(t)'
  BY DEF QueueInv, OwnInv, TakeInv, RingInv, RingOK
<1>2. /\ \A u \in Threads \ {t} : me'[u] = me[u] /\ token'[u] = token[u]
      /\ Grows
  BY <1>1, RingOkNext
<1>3. /\ producers' = producers /\ me[t].pc \in {"idle", "rotate"}
      /\ Consuming(t) \/ (todo[t] # << >> /\ Head(todo[t]).op = "take")
  BY DEF Dequeue, update_current_producer_after_rotation, queueVars, At, Calling, Consuming
<1>4. \A u \in Threads \ {t} : ~Consuming(u)
  BY <1>1, <1>3, OthersOut
<1>5. TailsGrow
  BY <1>1, <1>3, CountsNow DEF TailsGrow
<1>6. Exact'
  BY <1>1, <1>2, <1>3, <1>5, ExactKept
<1>7. producerList' = producerList /\ Listed' = Listed
  BY DEF hashVars, Listed
<1>8. Cardinality(Present(Listed))' = Cardinality(Present(Listed))
  BY <1>3, <1>7 DEF Present
<1>9. ASSUME me'[t].pc = "tail", ~me'[t].walking, me'[t].given = 0, me'[t].short = FALSE,
             me'[t].max = CallMax(t), me'[t].promised <= Cardinality(Present(Listed)), todo' = todo
      PROVE  TakeInv'
  <2>1. OnRing(t)'
    BY <1>1, <1>9 DEF RingOK, Consuming
  <2>2. me'[t].ptr \in Listed
    BY <1>7, <2>1 DEF OnRing
  <2>3. Ahead(t)' \cup {me'[t].ptr} = Listed
    BY <1>7, <1>9, <2>2 DEF Ahead, AheadIn, Listed
  <2>4. Present(Ahead(t) \cup {me[t].ptr})' = Present(Listed)
    BY <1>3, <2>3 DEF Present
  <2>5. CallMax(t) \in Nat /\ CallMax(t)' = CallMax(t) /\ me'[t].promised \in Nat
    <3>1. me'[t].max \in Nat /\ me'[t].promised \in Nat
      BY <1>9 DEF QueueInv, AmountInv, Amounts, Consuming
    <3> QED  BY <1>9, <3>1 DEF CallMax
  <2>6. Cardinality(Present(Listed)) \in Nat
    BY <1>1, CountsNow, PresentFinite
  <2>7. AtTail(t)'
    BY <1>9, <2>4, <2>5, <2>6 DEF AtTail
  <2>8. TakeOK(t)'
    BY <1>9, <2>7 DEF TakeOK, Taking, Moving, PoolSteps, Claiming
  <2> QED  BY <1>2, <1>4, <1>9, <2>8, TakeThread
<1>10. CASE Dequeue(t)
  <2>1. me[t].pc = "idle"
    BY <1>10 DEF Dequeue, At
  <2>2. CASE Finish(t, FALSE)
    <3>1. ~Consuming(t)' /\ me'[t].short = FALSE /\ \A u \in Threads \ {t} : todo'[u] = todo[u]
      BY <1>1, <2>2, FinishIs
    <3>2. TakeOK(t)'
      BY <3>1 DEF TakeOK, Consuming
    <3> QED  BY <1>2, <1>4, <1>6, <3>1, <3>2, TakeThread
  <2>3. CASE ~Finish(t, FALSE)
    <3>1. /\ todo' = todo
          /\ me'[t].max = Head(todo[t]).max /\ me'[t].promised = Cardinality(Present(Names))
          /\ \A g \in Kept \ {"max", "promised", "listTail", "ptr"} : me'[t][g] = me[t][g]
          /\ me'[t].pc \in {"rotate", "tail"}
      BY <1>1, <1>10, <2>3, DequeueIs
    <3>2. me'[t].given = 0 /\ me'[t].walking = FALSE /\ me'[t].short = FALSE
      BY <1>1, <2>1, <3>1 DEF RingOK, TakeOK, Kept
    <3>3. me'[t].promised = Cardinality(Present(Listed)) /\ Cardinality(Present(Listed)) \in Nat
      BY <1>1, <3>1, AllListed, CountsNow, PresentFinite
    <3>4. me'[t].max = CallMax(t) /\ CallMax(t)' = CallMax(t)
      BY <3>1 DEF CallMax
    <3>5. CASE me'[t].pc = "tail"
      <4>1. me'[t].promised <= Cardinality(Present(Listed)) /\ ~me'[t].walking
        BY <3>2, <3>3
      <4> QED  BY <1>6, <1>9, <3>1, <3>2, <3>4, <3>5, <4>1
    <3>6. CASE me'[t].pc = "rotate"
      <4>1. AtRotate(t)'
        BY <1>8, <3>2, <3>3, <3>4 DEF AtRotate
      <4>2. TakeOK(t)'
        BY <3>2, <3>6, <4>1 DEF TakeOK, Taking, Moving, PoolSteps, Claiming
      <4> QED  BY <1>2, <1>4, <1>6, <3>1, <4>2, TakeThread
    <3> QED  BY <3>1, <3>5, <3>6
  <2> QED  BY <2>2, <2>3
<1>11. CASE update_current_producer_after_rotation(t)
  <2>1. me[t].pc = "rotate"
    BY <1>11 DEF update_current_producer_after_rotation, At
  <2>2. AtRotate(t) /\ me[t].walking = FALSE /\ me[t].listTail \in Listed /\ me[t].short = FALSE
    BY <1>1, <2>1 DEF TakeOK, RingOK
  <2>3. PICK new \in Listed : Sets(t, "tail", "ptr", new) /\ todo' = todo
    BY <1>1, <1>11, <2>2, RotateIs, Zenon
  <2>4. /\ me'[t].pc = "tail" /\ me'[t].walking = FALSE /\ me'[t].given = me[t].given
        /\ me'[t].max = me[t].max /\ me'[t].promised = me[t].promised /\ me'[t].short = FALSE
    BY <2>2, <2>3 DEF Sets, Kept
  <2> QED  BY <1>6, <1>9, <2>2, <2>3, <2>4 DEF AtRotate
<1> QED  BY <1>10, <1>11

\* The claim of a producer's items.
LEMMA WalkClaim ==
  ASSUME QueueInv, QueueInv', OneConsumer, Exact, TakeInv, NEW t \in Threads, Step(t),
         UNCHANGED hashVars,
         LoadTail(t) \/ LoadOvercommit(t) \/ LoadCount(t) \/ Claim(t) \/ LoadAgain(t) \/ Correct(t)
           \/ TakeHead(t)
  PROVE  Exact' /\ TakeInv'
<1>1. /\ LocalsOK /\ CallInv /\ OwnInv /\ ListInv /\ ListInv' /\ CounterInv /\ CounterInv' /\ RingInv
      /\ AmountInv /\ Listed \subseteq Names /\ Listed' \subseteq Names
      /\ TakeOK(t) /\ RingOK(t) /\ TokenOK(t)
  BY DEF QueueInv, OwnInv, TakeInv, RingInv, RingOK
<1>2. /\ \A u \in Threads \ {t} : me'[u] = me[u] /\ token'[u] = token[u]
      /\ Grows
  BY <1>1, RingOkNext
<1>3. /\ me[t].pc \in Claiming \cup {"tail"} /\ Consuming(t)
      /\ token' = token /\ todo' = todo /\ ~Correct(t)
  <2>1. me[t].pc # "correct"
    BY <1>1 DEF TakeOK
  <2>2. /\ token' = token /\ todo' = todo /\ ~Correct(t) /\ me[t].pc \in Claiming \cup {"tail"}
    BY <2>1 DEF LoadTail, LoadOvercommit, LoadCount, Claim, LoadAgain, Correct, TakeHead, At, takeVars,
                Claiming
  <2> QED  BY <2>2 DEF Consuming
<1>4. \A u \in Threads \ {t} : ~Consuming(u)
  BY <1>1, <1>3, OthersOut
<1>5. Amounts(t) /\ OnRing(t)
  BY <1>1, <1>3 DEF AmountInv, RingOK, Claiming
<1>6. me[t].ptr \in Names /\ Ahead(t) \subseteq Names /\ me[t].ptr \notin Ahead(t)
  BY <1>1, <1>5, AheadApart DEF OnRing
<1>7. /\ Theirs(t).headIndex \in Nat /\ Theirs(t).tailIndex \in Nat
      /\ Theirs(t).dequeueOptimisticCount \in Nat
      /\ Theirs(t).dequeueOvercommit = 0 /\ Theirs(t).headIndex <= Theirs(t).tailIndex
      /\ me[t].pc \notin {"again", "head"} => Theirs(t).dequeueOptimisticCount = Theirs(t).headIndex
  <2>1. \A u \in Threads \ {t} : ~(me[u].pc \in {"again", "head"})
    BY <1>4 DEF Consuming, Claiming
  <2> QED  BY <1>1, <1>6, <2>1, CountsNow DEF Exact, Theirs
<1> DEFINE c == Cardinality(Present(Ahead(t)))
<1>8. c \in Nat
  BY <1>1, <1>6, CountsNow, PresentFinite
<1>9. me[t].max \in Nat /\ me[t].given \in Nat /\ me[t].promised \in Nat /\ CallMax(t)' = CallMax(t)
  BY <1>3, <1>5 DEF Amounts, CallMax
<1>10. producerList' = producerList
  BY DEF hashVars
<1>11. ASSUME me'[t].ptr = me[t].ptr, me'[t].walking = me[t].walking, me'[t].listTail = me[t].listTail,
              \A p \in Ahead(t) : /\ producers'[p].headIndex = producers[p].headIndex
                                  /\ producers'[p].tailIndex = producers[p].tailIndex
       PROVE  Cardinality(Present(Ahead(t)))' = c
  <2>1. Ahead(t)' = Ahead(t)
    BY <1>3, <1>10, <1>11 DEF Ahead
  <2>2. Present(Ahead(t))' = PresentIn(producers', Ahead(t))
    BY <2>1 DEF Present, PresentIn
  <2>3. PresentIn(producers', Ahead(t)) = PresentIn(producers, Ahead(t))
    BY <1>11 DEF PresentIn
  <2>4. Present(Ahead(t))' = Present(Ahead(t))
    BY <2>2, <2>3 DEF Present, PresentIn
  <2> QED  BY <2>4
<1>12. producers' = producers => TailsGrow
  BY <1>1, CountsNow DEF TailsGrow
<1>13. ASSUME TakeOK(t)' PROVE TakeInv'
  BY <1>2, <1>3, <1>4, <1>13, TakeThread
<1>14. me[t].short = FALSE
  BY <1>1 DEF TakeOK
<1>15. \A pc \in Claiming : pc \notin Moving \cup PoolSteps \cup {"correct", "rotate", "tail"}
  BY DEF Claiming, Moving, PoolSteps
<1>16. ASSUME NEW f \in {"tailIndex", "overcommit", "want", "n", "dequeueCount"}, NEW v, NEW pc,
              Sets(t, pc, f, v)
       PROVE  /\ me'[t].max = me[t].max /\ me'[t].given = me[t].given /\ me'[t].promised = me[t].promised
              /\ me'[t].ptr = me[t].ptr /\ me'[t].walking = me[t].walking
              /\ me'[t].listTail = me[t].listTail /\ me'[t].short = FALSE
              /\ me'[t].pc = pc /\ me'[t][f] = v
              /\ f # "tailIndex" => me'[t].tailIndex = me[t].tailIndex
              /\ f # "overcommit" => me'[t].overcommit = me[t].overcommit
              /\ f # "want" => me'[t].want = me[t].want
              /\ f # "n" => me'[t].n = me[t].n
              /\ f # "dequeueCount" => me'[t].dequeueCount = me[t].dequeueCount
  BY <1>14, <1>16 DEF Sets, Kept
<1>17. ASSUME me'[t].pc \in Claiming, AtClaim(t)', me'[t].short = FALSE PROVE TakeOK(t)'
  BY <1>15, <1>17 DEF TakeOK, Taking
<1> HIDE DEF c
<1>18. Theirs(t) = producers[me[t].ptr]
  BY DEF Theirs
<1>19. CASE LoadTail(t)
  <2>1. /\ Sets(t, "over", "tailIndex", Theirs(t).tailIndex) /\ producers' = producers
        /\ me[t].pc = "tail"
    BY <1>1, <1>19, LoadsAre DEF LoadTail, At
  <2>2. /\ me'[t].max = me[t].max /\ me'[t].given = me[t].given /\ me'[t].promised = me[t].promised
        /\ me'[t].ptr = me[t].ptr /\ me'[t].walking = me[t].walking
        /\ me'[t].listTail = me[t].listTail /\ me'[t].short = FALSE
        /\ me'[t].pc = "over" /\ me'[t].tailIndex = Theirs(t).tailIndex
    BY <1>16, <2>1
  <2>3. Exact'
    BY <1>1, <1>2, <1>12, <2>1, ExactKept
  <2>4. Cardinality(Present(Ahead(t)))' = c
    BY <1>11, <2>1, <2>2
  <2> DEFINE e == Cardinality(Present(Ahead(t) \cup {me[t].ptr}))
  <2>5. e \in Nat /\ e <= c + (Theirs(t).tailIndex - Theirs(t).headIndex)
    <3>1. IsFiniteSet(PresentIn(producers, Ahead(t)))
      BY <1>1, <1>6, CountsNow, PresentFinite
    <3>2. /\ Cardinality(PresentIn(producers, Ahead(t) \cup {me[t].ptr})) \in Nat
          /\ Cardinality(PresentIn(producers, Ahead(t) \cup {me[t].ptr}))
               <= Cardinality(PresentIn(producers, Ahead(t)))
                    + (producers[me[t].ptr].tailIndex - producers[me[t].ptr].headIndex)
      BY <1>7, <1>18, <3>1, PresentAdds
    <3> QED  BY <1>1, <1>18, <3>2, CountsNow DEF c
  <2>6. me[t].given + me[t].max = CallMax(t) /\ me[t].promised <= me[t].given + e
    BY <1>1, <2>1 DEF TakeOK, AtTail
  <2> HIDE DEF e
  <2>7. AtClaim(t)'
    BY <1>7, <1>8, <1>9, <1>18, <2>1, <2>2, <2>4, <2>5, <2>6 DEF AtClaim
  <2> QED  BY <1>13, <1>17, <2>2, <2>3, <2>7 DEF Claiming
<1>20. me[t].pc \in Claiming =>
         /\ me[t].given + me[t].max = CallMax(t)
         /\ me[t].tailIndex \in Theirs(t).headIndex .. Theirs(t).tailIndex
         /\ me[t].promised <= me[t].given + (me[t].tailIndex - Theirs(t).headIndex) + c
         /\ me[t].pc # "over" => me[t].overcommit = 0
         /\ me[t].pc \in {"claim", "again", "head"} =>
              /\ me[t].want \in Nat /\ me[t].want <= me[t].tailIndex - Theirs(t).headIndex
              /\ me[t].want = me[t].max \/ me[t].want = me[t].tailIndex - Theirs(t).headIndex
         /\ me[t].pc \in {"again", "head"} =>
              Theirs(t).dequeueOptimisticCount = Theirs(t).headIndex + me[t].want
         /\ me[t].pc = "again" => me[t].dequeueCount = Theirs(t).headIndex
         /\ me[t].pc = "head" => me[t].n = me[t].want
  BY <1>1, <1>5, <1>9 DEF TakeOK, AtClaim, Theirs, Amounts, c
<1>21. CASE LoadOvercommit(t)
  <2>1. /\ Sets(t, "optimistic", "overcommit", Theirs(t).dequeueOvercommit) /\ producers' = producers
        /\ me[t].pc = "over"
    BY <1>1, <1>21, LoadsAre DEF LoadOvercommit, At
  <2>2. /\ me'[t].max = me[t].max /\ me'[t].given = me[t].given /\ me'[t].promised = me[t].promised
        /\ me'[t].ptr = me[t].ptr /\ me'[t].walking = me[t].walking
        /\ me'[t].listTail = me[t].listTail /\ me'[t].short = FALSE
        /\ me'[t].pc = "optimistic" /\ me'[t].tailIndex = me[t].tailIndex /\ me'[t].overcommit = 0
    BY <1>7, <1>16, <2>1
  <2>3. Exact'
    BY <1>1, <1>2, <1>12, <2>1, ExactKept
  <2>4. Cardinality(Present(Ahead(t)))' = c
    BY <1>11, <2>1, <2>2
  <2>5. me[t].pc \in Claiming
    BY <2>1 DEF Claiming
  <2>6. AtClaim(t)'
    BY <1>7, <1>8, <1>9, <1>18, <1>20, <2>1, <2>2, <2>4, <2>5 DEF AtClaim
  <2> QED  BY <1>13, <1>17, <2>2, <2>3, <2>6 DEF Claiming
<1>22. CASE LoadCount(t)
  <2> DEFINE desired == me[t].tailIndex - (Theirs(t).dequeueOptimisticCount - me[t].overcommit)
             seen == me[t].tailIndex - Theirs(t).headIndex
  <2>1. /\ \/ desired > 0 /\ Sets(t, "claim", "want", Least2(desired, me[t].max))
           \/ ~(desired > 0) /\ Sets(t, "dequeued", "n", 0)
        /\ producers' = producers /\ me[t].pc = "optimistic"
    BY <1>1, <1>22, LoadsAre DEF LoadCount, At
  <2>2. me[t].pc \in Claiming
    BY <2>1 DEF Claiming
  <2>3. desired = seen /\ seen \in Nat /\ me[t].tailIndex \in Nat
    BY <1>7, <1>20, <2>1, <2>2
  <2>4. Exact'
    BY <1>1, <1>2, <1>12, <2>1, ExactKept
  <2> HIDE DEF desired
  <2>5. CASE desired > 0 /\ Sets(t, "claim", "want", Least2(desired, me[t].max))
    <3>1. /\ me'[t].max = me[t].max /\ me'[t].given = me[t].given /\ me'[t].promised = me[t].promised
          /\ me'[t].ptr = me[t].ptr /\ me'[t].walking = me[t].walking
          /\ me'[t].listTail = me[t].listTail /\ me'[t].short = FALSE
          /\ me'[t].pc = "claim" /\ me'[t].tailIndex = me[t].tailIndex
          /\ me'[t].overcommit = me[t].overcommit /\ me'[t].want = Least2(desired, me[t].max)
      BY ZenonT(60), <1>16, <2>5
    <3>2. Cardinality(Present(Ahead(t)))' = c
      BY <1>11, <2>1, <3>1
    <3>3. me'[t].want <= seen /\ (me'[t].want = me[t].max \/ me'[t].want = seen)
      BY <1>9, <2>3, <3>1 DEF Least2
    <3>4. AtClaim(t)'
      BY <1>7, <1>8, <1>9, <1>18, <1>20, <2>1, <2>2, <3>1, <3>2, <3>3 DEF AtClaim
    <3> QED  BY <1>13, <1>17, <2>4, <3>1, <3>4 DEF Claiming
  <2>6. CASE ~(desired > 0) /\ Sets(t, "dequeued", "n", 0)
    <3>1. /\ me'[t].max = me[t].max /\ me'[t].given = me[t].given /\ me'[t].promised = me[t].promised
          /\ me'[t].ptr = me[t].ptr /\ me'[t].walking = me[t].walking
          /\ me'[t].listTail = me[t].listTail /\ me'[t].short = FALSE
          /\ me'[t].pc = "dequeued" /\ me'[t].n = 0
      BY <1>16, <2>6
    <3>2. Cardinality(Present(Ahead(t)))' = c
      BY <1>11, <2>1, <3>1
    <3>3. seen = 0
      BY <2>3, <2>6
    <3>4. me[t].promised <= me[t].given + c /\ me[t].given + me[t].max = CallMax(t)
      BY <1>8, <1>9, <1>20, <2>2, <3>3
    <3>5. AtMove(t)'
      BY <1>8, <1>9, <3>1, <3>2, <3>4 DEF AtMove
    <3>6. TakeOK(t)'
      BY <3>1, <3>5 DEF TakeOK, Claiming
    <3> QED  BY <1>13, <2>4, <3>6
  <2> QED  BY <2>1, <2>5, <2>6
<1>23. CASE Claim(t)
  <2>1. Sets(t, "again", "dequeueCount", Theirs(t).dequeueOptimisticCount) /\ me[t].pc = "claim"
    BY <1>1, <1>23, LoadsAre DEF Claim, At
  <2>2. Bumps(me[t].ptr, "dequeueOptimisticCount", Theirs(t).dequeueOptimisticCount + me[t].want)
    BY <1>1, <1>6, <1>23, CountsAre
  <2>3. /\ me'[t].max = me[t].max /\ me'[t].given = me[t].given /\ me'[t].promised = me[t].promised
        /\ me'[t].ptr = me[t].ptr /\ me'[t].walking = me[t].walking
        /\ me'[t].listTail = me[t].listTail /\ me'[t].short = FALSE
        /\ me'[t].pc = "again" /\ me'[t].tailIndex = me[t].tailIndex
        /\ me'[t].overcommit = me[t].overcommit /\ me'[t].want = me[t].want
        /\ me'[t].dequeueCount = Theirs(t).dequeueOptimisticCount
    BY <1>16, <2>1
  <2>4. me[t].pc \in Claiming /\ Theirs(t).dequeueOptimisticCount = Theirs(t).headIndex
    BY <1>7, <2>1 DEF Claiming
  <2>5. \A p \in Names :
          /\ producers'[p].headIndex = producers[p].headIndex
          /\ producers'[p].tailIndex = producers[p].tailIndex
          /\ producers'[p].dequeueOvercommit = producers[p].dequeueOvercommit
          /\ producers'[p].dequeueOptimisticCount =
               IF p = me[t].ptr THEN Theirs(t).dequeueOptimisticCount + me[t].want
               ELSE producers[p].dequeueOptimisticCount
    BY <2>2 DEF Bumps, Counters
  <2>6. Exact'
    <3>1. ASSUME NEW p \in Names
          PROVE  /\ producers'[p].dequeueOvercommit = 0
                 /\ producers'[p].headIndex <= producers'[p].tailIndex
                 /\ (\A u \in Threads : ~(me'[u].pc \in {"again", "head"} /\ me'[u].ptr = p))
                      => producers'[p].dequeueOptimisticCount = producers'[p].headIndex
      <4>1. producers'[p].dequeueOvercommit = 0 /\ producers'[p].headIndex <= producers'[p].tailIndex
        BY <2>5 DEF Exact
      <4>2. CASE p = me[t].ptr
        BY <2>3, <4>1, <4>2
      <4>3. CASE p # me[t].ptr
        <5>1. (\A u \in Threads : ~(me'[u].pc \in {"again", "head"} /\ me'[u].ptr = p)) =>
                 \A u \in Threads : ~(me[u].pc \in {"again", "head"} /\ me[u].ptr = p)
          BY <1>2, <4>3
        <5> QED  BY <2>5, <4>1, <4>3, <5>1 DEF Exact
      <4> QED  BY <4>2, <4>3
    <3> QED  BY <3>1 DEF Exact
  <2>7. Cardinality(Present(Ahead(t)))' = c
    BY <1>6, <1>11, <2>3, <2>5
  <2>8. /\ producers'[me[t].ptr].headIndex = Theirs(t).headIndex
        /\ producers'[me[t].ptr].tailIndex = Theirs(t).tailIndex
        /\ producers'[me[t].ptr].dequeueOptimisticCount = Theirs(t).headIndex + me[t].want
    BY <1>6, <1>18, <2>4, <2>5
  <2>9. AtClaim(t)'
    BY <1>7, <1>8, <1>9, <1>20, <2>1, <2>3, <2>4, <2>7, <2>8 DEF AtClaim
  <2> QED  BY <1>13, <1>17, <2>3, <2>6, <2>9 DEF Claiming
<1>24. CASE LoadAgain(t)
  <2> DEFINE actual == Theirs(t).tailIndex - (me[t].dequeueCount - me[t].overcommit)
             n == IF actual <= 0 THEN 0 ELSE Least2(actual, me[t].want)
  <2>1. /\ Sets(t, IF n < me[t].want THEN "correct" ELSE "head", "n", n)
        /\ producers' = producers /\ me[t].pc = "again"
    BY <1>1, <1>24, ClaimsAre DEF LoadAgain, At
  <2>2. me[t].pc \in Claiming
    BY <2>1 DEF Claiming
  <2>3. n = me[t].want /\ ~(n < me[t].want)
    BY <1>7, <1>20, <2>1, <2>2 DEF Least2
  <2> HIDE DEF n
  <2>4. Sets(t, "head", "n", me[t].want)
    BY <2>1, <2>3
  <2>5. /\ me'[t].max = me[t].max /\ me'[t].given = me[t].given /\ me'[t].promised = me[t].promised
        /\ me'[t].ptr = me[t].ptr /\ me'[t].walking = me[t].walking
        /\ me'[t].listTail = me[t].listTail /\ me'[t].short = FALSE
        /\ me'[t].pc = "head" /\ me'[t].tailIndex = me[t].tailIndex
        /\ me'[t].overcommit = me[t].overcommit /\ me'[t].want = me[t].want
        /\ me'[t].dequeueCount = me[t].dequeueCount /\ me'[t].n = me[t].want
    BY ZenonT(60), <1>16, <2>4
  <2>6. Exact'
    BY <1>1, <1>2, <1>12, <2>1, <2>5, ExactKept
  <2>7. Cardinality(Present(Ahead(t)))' = c
    BY <1>11, <2>1, <2>5
  <2>8. AtClaim(t)'
    BY <1>7, <1>8, <1>9, <1>18, <1>20, <2>1, <2>2, <2>5, <2>7 DEF AtClaim
  <2> QED  BY <1>13, <1>17, <2>5, <2>6, <2>8 DEF Claiming
<1>25. CASE TakeHead(t)
  <2>1. Sets(t, "find", "given", me[t].given + me[t].n) /\ me[t].pc = "head"
    BY <1>1, <1>25, LoadsAre DEF TakeHead, At
  <2>2. Bumps(me[t].ptr, "headIndex", Theirs(t).headIndex + me[t].n)
    BY <1>1, <1>6, <1>25, CountsAre
  <2>3. /\ me'[t].max = me[t].max /\ me'[t].given = me[t].given + me[t].n
        /\ me'[t].promised = me[t].promised
        /\ me'[t].ptr = me[t].ptr /\ me'[t].walking = me[t].walking
        /\ me'[t].listTail = me[t].listTail /\ me'[t].short = FALSE
        /\ me'[t].pc = "find" /\ me'[t].n = me[t].n
    BY <1>14, <2>1 DEF Sets, Kept
  <2>4. /\ me[t].pc \in Claiming /\ me[t].n = me[t].want /\ me[t].want \in Nat
        /\ me[t].tailIndex \in Nat
    BY <1>7, <1>20, <2>1 DEF Claiming
  <2>5. \A p \in Names :
          /\ producers'[p].headIndex =
               IF p = me[t].ptr THEN Theirs(t).headIndex + me[t].n ELSE producers[p].headIndex
          /\ producers'[p].tailIndex = producers[p].tailIndex
          /\ producers'[p].dequeueOvercommit = producers[p].dequeueOvercommit
          /\ producers'[p].dequeueOptimisticCount = producers[p].dequeueOptimisticCount
    BY <2>2 DEF Bumps, Counters
  <2>6. Exact'
    <3>1. ASSUME NEW p \in Names
          PROVE  /\ producers'[p].dequeueOvercommit = 0
                 /\ producers'[p].headIndex <= producers'[p].tailIndex
                 /\ (\A u \in Threads : ~(me'[u].pc \in {"again", "head"} /\ me'[u].ptr = p))
                      => producers'[p].dequeueOptimisticCount = producers'[p].headIndex
      <4>1. producers'[p].dequeueOvercommit = 0
        BY <2>5 DEF Exact
      <4>2. CASE p = me[t].ptr
        <5>1. Theirs(t).headIndex + me[t].n <= Theirs(t).tailIndex
          BY <1>7, <1>20, <2>1, <2>4
        <5>2. Theirs(t).dequeueOptimisticCount = Theirs(t).headIndex + me[t].n
          BY <1>20, <2>1, <2>4
        <5> QED  BY <1>18, <2>5, <4>1, <4>2, <5>1, <5>2
      <4>3. CASE p # me[t].ptr
        <5>1. (\A u \in Threads : ~(me'[u].pc \in {"again", "head"} /\ me'[u].ptr = p)) =>
                 \A u \in Threads : ~(me[u].pc \in {"again", "head"} /\ me[u].ptr = p)
          BY <1>2, <4>3
        <5> QED  BY <2>5, <4>1, <4>3, <5>1 DEF Exact
      <4> QED  BY <4>2, <4>3
    <3> QED  BY <3>1 DEF Exact
  <2>7. Cardinality(Present(Ahead(t)))' = c
    BY <1>6, <1>11, <2>3, <2>5
  <2>8. /\ (me[t].given + me[t].n) + me[t].max - me[t].n = CallMax(t)
        /\ me[t].n = me[t].max \/ me[t].promised <= (me[t].given + me[t].n) + c
    BY <1>7, <1>8, <1>9, <1>20, <2>1, <2>4
  <2>9. AtMove(t)'
    BY <1>9, <2>3, <2>7, <2>8 DEF AtMove
  <2>10. TakeOK(t)'
    BY <2>3, <2>9 DEF TakeOK, Claiming
  <2> QED  BY <1>13, <2>6, <2>10
<1> QED  BY <1>3, <1>19, <1>21, <1>22, <1>23, <1>24, <1>25

\* A producer is done with: the call ends with what was promised, or goes on.
LEMMA WalkDequeued ==
  ASSUME QueueInv, QueueInv', OneConsumer, Exact, TakeInv, NEW t \in Threads, Step(t),
         UNCHANGED hashVars, Dequeued(t)
  PROVE  Exact' /\ TakeInv'
<1>1. /\ LocalsOK /\ CallInv /\ OwnInv /\ ListInv /\ ListInv' /\ CounterInv /\ CounterInv' /\ RingInv
      /\ AmountInv /\ Listed \subseteq Names /\ Listed' \subseteq Names
      /\ TakeOK(t) /\ RingOK(t) /\ TokenOK(t)
  BY DEF QueueInv, OwnInv, TakeInv, RingInv, RingOK
<1>2. /\ \A u \in Threads \ {t} : me'[u] = me[u] /\ token'[u] = token[u]
      /\ Grows
  BY <1>1, RingOkNext
<1>3. producers' = producers /\ me[t].pc = "dequeued" /\ Taking(t) /\ Consuming(t)
  BY DEF Dequeued, At, Taking, Moving, Consuming
<1>4. \A u \in Threads \ {t} : ~Consuming(u)
  BY <1>1, <1>3, OthersOut
<1>5. TailsGrow
  BY <1>1, <1>3, CountsNow DEF TailsGrow
<1>6. Exact'
  BY <1>1, <1>2, <1>3, <1>5, ExactKept
<1>7. Amounts(t) /\ OnRing(t) /\ AtMove(t) /\ me[t].short = FALSE
  BY <1>1, <1>3 DEF AmountInv, RingOK, TakeOK
<1>8. /\ me[t].max \in Nat /\ me[t].given \in Nat /\ me[t].promised \in Nat /\ me[t].n \in 0 .. me[t].max
  BY <1>3, <1>7 DEF Amounts
<1> DEFINE list == producerList
           walking == me[t].walking
           ptr == me[t].ptr
           cur == token[t].currentProducer
           new == token'[t].currentProducer
           listTail == IF walking THEN me[t].listTail ELSE TailOfList
           next == NextProducer(t)
           c == Cardinality(Present(Ahead(t)))
<1>9. /\ Ring(list) /\ Of(list) = Listed /\ walking \in BOOLEAN /\ ptr \in Listed /\ cur \in Listed
  BY <1>1, <1>7, RingIs DEF OnRing, TokenOK
<1>10. /\ listTail \in Listed /\ Place(listTail) <= Place(ptr) /\ Place(listTail) <= Place(cur)
       /\ ~walking => ptr = cur /\ Place(listTail) = 1
  <2>1. producerList # << >>
    BY <1>9 DEF Listed
  <2>2. \A q \in Listed : Place(q) >= 1
    BY <1>1, ListedIs
  <2> QED  BY <1>1, <1>7, <1>9, <2>1, <2>2, TailListed DEF OnRing
<1>11. next = NextProd(ptr, listTail)
  BY DEF NextProducer
<1>12. /\ next \in Listed
       /\ Place(next) = IF Place(ptr) = Len(list) THEN Place(listTail) ELSE Place(ptr) + 1
  BY <1>1, <1>9, <1>10, <1>11, NextListed
<1>13. new \in {cur, ptr}
  BY <1>1, DequeuedIs
<1>14. Ahead(t) = AheadIn(list, walking, ptr, listTail, cur)
  BY <1>9 DEF Ahead, AheadIn
<1>15. /\ next = new => Ahead(t) = {}
       /\ next # new => Ahead(t) \subseteq AheadIn(list, TRUE, next, listTail, new) \cup {next}
  <2>1. /\ Ring(list) /\ walking \in BOOLEAN /\ ptr \in Of(list) /\ cur \in Of(list)
        /\ listTail \in Of(list) /\ next \in Of(list)
    BY <1>9, <1>10, <1>12
  <2>2. /\ PlaceIn(list, listTail) <= PlaceIn(list, ptr) /\ PlaceIn(list, listTail) <= PlaceIn(list, cur)
        /\ ~walking => ptr = cur /\ PlaceIn(list, listTail) = 1
        /\ PlaceIn(list, next) = IF PlaceIn(list, ptr) = Len(list) THEN PlaceIn(list, listTail)
                                 ELSE PlaceIn(list, ptr) + 1
    BY <1>10, <1>12 DEF Place
  <2> HIDE DEF next, new, listTail, cur, ptr, walking, list
  <2>3. OnWay(list, walking, ptr, cur, listTail, next, new)
    BY <1>13, <2>1, <2>2 DEF OnWay
  <2>4. /\ next = new => AheadIn(list, walking, ptr, listTail, cur) = {}
        /\ next # new => AheadIn(list, walking, ptr, listTail, cur)
                            \subseteq AheadIn(list, TRUE, next, listTail, new) \cup {next}
    BY ZenonT(60), <2>3, WalkOn
  <2> QED  BY <1>14, <2>4
<1>16. c \in Nat
  <2>1. Ahead(t) \subseteq Names
    BY <1>1, <1>7, AheadApart
  <2> QED  BY <1>1, <2>1, CountsNow, PresentFinite
<1>17. Ahead(t) = {} => c = 0
  <2>1. Present({}) = {}
    BY DEF Present
  <2> QED  BY <2>1, FS_EmptySet
<1>18. /\ me[t].given + me[t].max - me[t].n = CallMax(t)
       /\ me[t].n = me[t].max \/ me[t].promised <= me[t].given + c
  BY <1>7 DEF AtMove
<1> HIDE DEF c
<1>19. CASE Finish(t, me[t].given < Least2(me[t].promised, CallMax(t)))
            /\ (me[t].n = me[t].max \/ next = new)
  <2> DEFINE short == me[t].given < Least2(me[t].promised, CallMax(t))
  <2>1. short = FALSE
    BY <1>8, <1>15, <1>16, <1>17, <1>18, <1>19 DEF Least2
  <2>2. Finish(t, short)
    BY <1>19
  <2> HIDE DEF short
  <2>3. ~Consuming(t)' /\ me'[t].short = FALSE /\ \A u \in Threads \ {t} : todo'[u] = todo[u]
    BY <1>1, <2>1, <2>2, FinishIs
  <2>4. TakeOK(t)'
    BY <2>3 DEF TakeOK, Consuming
  <2> QED  BY <1>2, <1>4, <1>6, <2>3, <2>4, TakeThread
<1>20. CASE ~(Finish(t, me[t].given < Least2(me[t].promised, CallMax(t)))
              /\ (me[t].n = me[t].max \/ next = new))
  <2>1. /\ ~(me[t].n = me[t].max) /\ next # new /\ todo' = todo
        /\ me'[t].pc = "tail" /\ me'[t].ptr = next /\ me'[t].walking = TRUE
        /\ me'[t].listTail = listTail /\ me'[t].max = me[t].max - me[t].n
        /\ \A g \in Kept \ {"ptr", "walking", "n", "listTail", "max"} : me'[t][g] = me[t][g]
    BY <1>1, <1>20, DequeuedIs
  <2>2. me'[t].given = me[t].given /\ me'[t].promised = me[t].promised /\ me'[t].short = FALSE
    BY <1>7, <2>1 DEF Kept
  <2> DEFINE B == AheadIn(list, TRUE, next, listTail, new)
  <2>3. Ahead(t)' = B /\ Listed' = Listed
    BY <2>1 DEF Ahead, hashVars, Listed
  <2>4. B \cup {next} \subseteq Names
    <3>1. B \subseteq Of(list)
      BY <1>9, <1>10, AheadIs
    <3> QED  BY <1>1, <1>9, <1>12, <3>1
  <2> HIDE DEF B
  <2> DEFINE e == Cardinality(PresentIn(producers, B \cup {next}))
  <2>5. e \in Nat /\ c <= e
    <3>1. IsFiniteSet(PresentIn(producers, B \cup {next}))
      BY <1>1, <2>4, CountsNow, PresentFinite
    <3>2. Ahead(t) \subseteq B \cup {next}
      BY <1>15, <2>1 DEF B
    <3>3. ASSUME NEW p \in Ahead(t)
          PROVE  /\ producers[p].headIndex \in Int /\ producers[p].tailIndex \in Int
                 /\ producers[p].headIndex = producers[p].headIndex
                 /\ producers[p].tailIndex >= producers[p].tailIndex
      <4>1. p \in Names
        BY <2>4, <3>2
      <4>2. producers[p].headIndex \in Nat /\ producers[p].tailIndex \in Nat
        BY <1>1, <4>1, CountsNow
      <4> QED  BY <4>2
    <3>4. Cardinality(PresentIn(producers, Ahead(t))) <= Cardinality(PresentIn(producers, B \cup {next}))
          /\ Cardinality(PresentIn(producers, B \cup {next})) \in Nat
      BY <3>1, <3>2, <3>3, PresentGrows
    <3> QED  BY <1>1, <3>4, CountsNow DEF c
  <2>6. Cardinality(Present(Ahead(t) \cup {me[t].ptr}))' = e
    BY <1>3, <2>1, <2>3 DEF Present, PresentIn
  <2> HIDE DEF e
  <2>7. AtTail(t)'
    <3>1. CallMax(t)' = CallMax(t)
      BY <2>1 DEF CallMax
    <3>2. me[t].given + (me[t].max - me[t].n) = CallMax(t) /\ me[t].promised <= me[t].given + e
      BY <1>8, <1>16, <1>18, <2>1, <2>5
    <3> QED  BY <2>1, <2>2, <2>6, <3>1, <3>2 DEF AtTail
  <2>8. TakeOK(t)'
    BY <2>1, <2>2, <2>7 DEF TakeOK, Taking, Moving, PoolSteps, Claiming
  <2> QED  BY <1>2, <1>4, <1>6, <2>1, <2>8, TakeThread
<1> QED  BY <1>19, <1>20

\* Every step keeps what the only consumer has been promised.
LEMMA WalkNext ==
  ASSUME QueueInv, QueueInv', WalkInv, [Next]_vars
  PROVE  WalkInv'
<1>1. ASSUME NEW t \in Threads, Step(t)
      PROVE  WalkInv'
  <2>1. workload' = workload
    BY <1>1 DEF Step
  <2>2. OneConsumer' = OneConsumer
    BY <2>1 DEF OneConsumer
  <2>3. ASSUME OneConsumer PROVE Exact' /\ TakeInv'
    <3>1. Exact /\ TakeInv
      BY <2>3 DEF WalkInv
    <3>2. \/ Silent(t)
          \/ UNCHANGED hashVars /\ (Enqueue(t) \/ Refused(t) \/ Publish(t) \/ Walking(t))
      BY <1>1, StepIs DEF QueueInv, OwnInv
    <3> QED  BY <1>1, <2>3, <3>1, <3>2, WalkQuiet, WalkStart, WalkClaim, WalkDequeued DEF Walking
  <2> QED  BY <2>2, <2>3 DEF WalkInv
<1>2. CASE UNCHANGED vars
  <2>1. UNCHANGED <<me, token, todo, producers, producerList, workload>>
    BY <1>2 DEF vars, hashVars, queueVars
  <2>2. OneConsumer' = OneConsumer /\ Exact' = Exact
    BY <2>1 DEF OneConsumer, Exact
  <2>3. ASSUME NEW t \in Threads PROVE TakeOK(t)' = TakeOK(t)
    <3>1. /\ Taking(t)' = Taking(t) /\ CallMax(t)' = CallMax(t) /\ Listed' = Listed
          /\ Ahead(t)' = Ahead(t)
      BY <2>1 DEF Taking, CallMax, Listed, Ahead
    <3>2. /\ Present(Listed)' = Present(Listed) /\ Present(Ahead(t))' = Present(Ahead(t))
          /\ Present(Ahead(t) \cup {me[t].ptr})' = Present(Ahead(t) \cup {me[t].ptr})
      BY <2>1, <3>1 DEF Present
    <3>3. AtRotate(t)' = AtRotate(t) /\ AtTail(t)' = AtTail(t) /\ AtClaim(t)' = AtClaim(t)
          /\ AtMove(t)' = AtMove(t)
      BY <2>1, <3>1, <3>2 DEF AtRotate, AtTail, AtClaim, AtMove
    <3> QED  BY <2>1, <3>1, <3>3 DEF TakeOK
  <2> QED  BY <2>2, <2>3 DEF WalkInv, TakeInv
<1> QED  BY <1>1, <1>2 DEF Next, Terminated

-----------------------------------------------------------------------------
(* The theorems.                                                           *)

\* Nothing was enqueued yet.
LEMMA CountInit ==
  ASSUME Init
  PROVE  CounterInv /\ AmountInv /\ WalkInv
<1>1. DOMAIN producers = Names
  BY DEF Init
<1>2. \A p \in Names :
        /\ Counters \subseteq DOMAIN producers[p] /\ \A f \in Counters : producers[p][f] = 0
        /\ producers[p].tailIndex = 0 /\ producers[p].headIndex = 0
        /\ producers[p].dequeueOvercommit = 0 /\ producers[p].dequeueOptimisticCount = 0
  BY DEF Init, ImplicitProducer, Counters
<1>3. IsFiniteSet(Present(Names))
  <2>1. ASSUME NEW x \in PresentIn(producers, Names) PROVE FALSE
    <3>1. PICK p \in Names : \E i \in producers[p].headIndex .. producers[p].tailIndex - 1 : x = <<p, i>>
      BY <2>1, PresentIs
    <3> QED  BY <1>2, <3>1
  <2>2. PresentIn(producers, Names) = {}
    BY <2>1
  <2> QED  BY <2>2, FS_EmptySet DEF Present, PresentIn
<1>4. CounterInv
  BY <1>1, <1>2, <1>3 DEF CounterInv
<1>5. \A t \in Threads : me[t].pc = "idle" /\ me[t].short = FALSE
  BY DEF Init, Idle
<1>6. \A t \in Threads : ~Consuming(t) /\ ~Taking(t) /\ me[t].pc \notin Claiming \cup {"rotate", "tail", "correct"}
  BY <1>5 DEF Consuming, Taking, Claiming, Moving, PoolSteps
<1>7. AmountInv
  BY <1>6 DEF AmountInv
<1>8. Exact
  BY <1>2 DEF Exact
<1>9. TakeInv
  BY <1>5, <1>6 DEF TakeInv, TakeOK
<1> QED  BY <1>4, <1>7, <1>8, <1>9 DEF WalkInv

\* Every step keeps the counters and the amounts.
LEMMA CountsPreserved ==
  ASSUME OwnInv, CallInv, ListInv, ListInv', RingInv, CounterInv, AmountInv, [Next]_vars
  PROVE  CounterInv' /\ AmountInv'
<1>1. CASE UNCHANGED vars
  <2>1. UNCHANGED <<me, producers, producerList>>
    BY <1>1 DEF vars, hashVars, queueVars
  <2>2. Listed' = Listed /\ Present(Names)' = Present(Names)
    BY <2>1 DEF Listed, Present
  <2>3. CounterInv'
    BY <2>1, <2>2 DEF CounterInv
  <2>4. \A t \in Threads : Consuming(t)' = Consuming(t) /\ Amounts(t)' = Amounts(t)
    BY <2>1 DEF Consuming, Taking, Amounts
  <2> QED  BY <2>3, <2>4 DEF AmountInv
<1> QED  BY <1>1, CountNext DEF Next, Terminated

\* What the walk over the producers relies on, for any number of consumers.
THEOREM QueueInvariant == Spec => []QueueInv
<1> DEFINE Inv == ListInv /\ CallInv /\ RingInv /\ CounterInv /\ AmountInv
<1>1. Init /\ OwnInv => Inv
  BY ListInit, CallInit, RingInit, CountInit
<1>2. OwnInv /\ Inv /\ [Next]_vars => Inv'
  <2> SUFFICES ASSUME OwnInv, Inv, [Next]_vars
               PROVE  Inv'
    OBVIOUS
  <2>1. LocalsOK
    BY DEF OwnInv
  <2>2. ListInv'
    BY ListNext
  <2>3. CallInv'
    BY <2>1, CallNext
  <2>4. RingInv'
    BY <2>2, RingNext
  <2>5. CounterInv' /\ AmountInv'
    BY <2>2, CountsPreserved
  <2> QED  BY <2>2, <2>3, <2>4, <2>5
<1>3. OwnInv /\ Inv => QueueInv
  BY ProducersNamed DEF QueueInv
<1> HIDE DEF Inv
<1> QED  BY <1>1, <1>2, <1>3, OwnInvariant, PTL DEF Spec

\* Every producer that get_or_add_implicit_producer can give a thread is on the list,
\* once, so a consumer's walk over the list leaves out none; producers are numbered, and
\* there is at most one per thread.
ProducersListed ==
  /\ \A t \in Threads : ProducersOf(t) \subseteq Listed
  /\ \A i, j \in DOMAIN producerList : producerList[i] = producerList[j] => i = j
  /\ Listed \subseteq Names

\* producerListTail leads to every thread's producer and to each once, whichever
\* registrations and resizes run at once (add_producer, get_or_add_implicit_producer).
THEOREM EveryProducerListed == Spec => []ProducersListed
<1>1. QueueInv => ProducersListed
  BY DEF QueueInv, ListInv, ProducersListed
<1> QED  BY <1>1, QueueInvariant, PTL

\* try_dequeue_bulk with a token gives a queue's only consumer all that was published
\* when it called, up to max: the quota's rotation, the walk round the list, a list that
\* other threads extend meanwhile and enqueues in progress never cost it an item.
THEOREM ConsumerTakesAll == Spec => []TakesWhatIsThere
<1>1. Init => WalkInv
  BY CountInit
<1>2. QueueInv /\ QueueInv' /\ WalkInv /\ [Next]_vars => WalkInv'
  BY WalkNext
<1>3. WalkInv => TakesWhatIsThere
  BY DEF WalkInv, TakeInv, TakeOK, TakesWhatIsThere
<1> QED  BY <1>1, <1>2, <1>3, QueueInvariant, PTL DEF Spec

-----------------------------------------------------------------------------
(* The claims of several consumers on one producer.                        *)

\* One item for each of the amounts of the threads, and how many that are.
Items(amount) == UNION {{t} \X (1 .. amount[t]) : t \in Threads}
Total(amount) == Cardinality(Items(amount))

\* How many items of p each thread has claimed, as the counters of p have it; l is the
\* threads' locals.
Pending(l, p) ==
  [t \in Threads |-> IF l[t].ptr # p THEN 0
                     ELSE IF l[t].pc \in {"again", "correct"} THEN l[t].want
                     ELSE IF l[t].pc = "head" THEN l[t].n
                     ELSE 0]

\* How many of them it gets: all, at most, until it has looked at the tail again.  Of the
\* claims that have not, those at index b or after it are left out.
Owed(l, p, b) ==
  [t \in Threads |-> IF l[t].ptr # p THEN 0
                     ELSE IF l[t].pc \in {"correct", "head"} THEN l[t].n
                     ELSE IF l[t].pc = "again" /\ l[t].dequeueCount < b THEN l[t].want
                     ELSE 0]

\* It has to look at the tail again.
Asks(l, t, p) == l[t].pc = "again" /\ l[t].ptr = p

\* What is owed before b is published, and a claim at b or after it counts from no index
\* that is owed to an earlier claim; q is the producer p.
Covered(q, l, p, b) ==
  /\ q.headIndex + Total(Owed(l, p, b)) <= q.tailIndex
  /\ \A t \in Threads : Asks(l, t, p) /\ l[t].want > 0 /\ l[t].dequeueCount >= b =>
       q.headIndex + Total(Owed(l, p, l[t].dequeueCount)) <= l[t].dequeueCount - l[t].overcommit

\* The optimistic count has every claim, overcommitted or pending; a thread's overcommit
\* is one that was reached; the claims are apart; and the items up to some claim are there.
Claimable(q, l, p) ==
  /\ IsFiniteSet(Items(Pending(l, p)))
  /\ q.headIndex + q.dequeueOvercommit + Total(Pending(l, p)) <= q.dequeueOptimisticCount
  /\ \A t \in Threads : l[t].ptr = p /\ l[t].pc \in {"optimistic", "claim"} =>
       l[t].overcommit <= q.dequeueOvercommit
  /\ \A t \in Threads : Asks(l, t, p) =>
       /\ l[t].dequeueCount + l[t].want <= q.dequeueOptimisticCount
       /\ \A u \in Threads \ {t} : Asks(l, u, p) =>
            \/ l[t].dequeueCount + l[t].want <= l[u].dequeueCount
            \/ l[u].dequeueCount + l[u].want <= l[t].dequeueCount
  /\ \E b \in 0 .. q.dequeueOptimisticCount : Covered(q, l, p, b)
ClaimInv == \A p \in Names : Claimable(producers[p], me, p)

\* However many consumers claim items of a producer at once and correct what they claimed
\* too much, none takes an item that was not published.
ClaimsPublished ==
  /\ \A p \in Names : producers[p].headIndex <= producers[p].tailIndex
  /\ \A t \in Threads : me[t].pc = "head" =>
       producers[me[t].ptr].headIndex + me[t].n <= producers[me[t].ptr].tailIndex

\* The numbers of a producer and of the threads that are at it.
Counted(q, l, p) ==
  /\ q.headIndex \in Nat /\ q.tailIndex \in Nat
  /\ q.dequeueOptimisticCount \in Nat /\ q.dequeueOvercommit \in Nat
  /\ \A t \in Threads : l[t].ptr = p =>
       /\ l[t].pc \in {"optimistic", "claim", "again"} => l[t].overcommit \in Nat
       /\ l[t].pc \in {"claim", "again", "correct", "head"} => l[t].want \in Nat
       /\ l[t].pc = "again" => l[t].dequeueCount \in Nat
       /\ l[t].pc \in {"correct", "head"} => l[t].n \in 0 .. l[t].want

-----------------------------------------------------------------------------
(* Amounts per thread and their sum.                                       *)

\* What an item is.
LEMMA ItemsAre ==
  ASSUME NEW a, NEW x
  PROVE  x \in Items(a) <=> \E t \in Threads : \E i \in 1 .. a[t] : x = <<t, i>>
BY DEF Items

\* Smaller amounts have a smaller sum.
LEMMA TotalGrows ==
  ASSUME NEW a, NEW b, \A t \in Threads : a[t] \in Nat /\ b[t] \in Nat /\ a[t] <= b[t],
         IsFiniteSet(Items(b))
  PROVE  /\ IsFiniteSet(Items(a)) /\ Total(a) \in Nat /\ Total(b) \in Nat
         /\ Total(a) <= Total(b)
<1>1. ASSUME NEW x \in Items(a)
      PROVE  x \in Items(b)
  <2>1. PICK t \in Threads : \E i \in 1 .. a[t] : x = <<t, i>>
    BY ItemsAre
  <2>2. a[t] \in Nat /\ b[t] \in Nat /\ a[t] <= b[t]
    OBVIOUS
  <2>3. \E i \in 1 .. b[t] : x = <<t, i>>
    BY <2>1, <2>2
  <2> QED  BY <2>3, ItemsAre
<1>2. Items(a) \subseteq Items(b)
  BY <1>1
<1>3. IsFiniteSet(Items(a)) /\ Cardinality(Items(a)) <= Cardinality(Items(b))
  BY <1>2, FS_Subset
<1> QED  BY <1>3, FS_CardinalityType DEF Total

\* The sum when one thread's amount is left out.
LEMMA TotalWithout ==
  ASSUME NEW a, NEW b, NEW t \in Threads, a[t] \in Nat, b[t] = 0,
         \A u \in Threads \ {t} : b[u] = a[u], IsFiniteSet(Items(b))
  PROVE  /\ IsFiniteSet(Items(a)) /\ Total(a) \in Nat /\ Total(b) \in Nat
         /\ Total(a) = Total(b) + a[t]
<1> DEFINE own == {t} \X (1 .. a[t])
           rest == Items(b)
<1>1. IsFiniteSet(own) /\ Cardinality(own) = a[t]
  <2> DEFINE T == {t}
             I == 1 .. a[t]
  <2>1. IsFiniteSet(T) /\ Cardinality(T) = 1
    BY FS_Singleton
  <2>2. IsFiniteSet(I) /\ Cardinality(I) = IF 1 > a[t] THEN 0 ELSE a[t] - 1 + 1
    BY SMTT(60), FS_Interval
  <2>3. Cardinality(I) = a[t]
    BY <2>2
  <2> HIDE DEF T, I
  <2>4. IsFiniteSet(T \X I) /\ Cardinality(T \X I) = Cardinality(T) * Cardinality(I)
    BY <2>1, <2>2, FS_Product
  <2>5. Cardinality(T \X I) = a[t]
    BY <2>1, <2>3, <2>4
  <2> QED  BY <2>4, <2>5 DEF T, I
<1>2. \A x : x \in own <=> \E i \in 1 .. a[t] : x = <<t, i>>
  OBVIOUS
<1> HIDE DEF own
<1>3. Items(a) = own \cup rest
  <2>1. ASSUME NEW x
        PROVE  x \in Items(a) <=> x \in own \/ x \in rest
    <3>1. ASSUME x \in Items(a) PROVE x \in own \/ x \in rest
      <4>1. PICK u \in Threads : \E i \in 1 .. a[u] : x = <<u, i>>
        BY <3>1, ItemsAre
      <4>2. CASE u = t
        BY <1>2, <4>1, <4>2
      <4>3. CASE u # t
        <5>1. \E i \in 1 .. b[u] : x = <<u, i>>
          BY <4>1, <4>3
        <5> QED  BY <5>1, ItemsAre
      <4> QED  BY <4>2, <4>3
    <3>2. ASSUME x \in own PROVE x \in Items(a)
      BY <1>2, <3>2, ItemsAre
    <3>3. ASSUME x \in rest PROVE x \in Items(a)
      <4>1. PICK u \in Threads : \E i \in 1 .. b[u] : x = <<u, i>>
        BY <3>3, ItemsAre
      <4>2. u # t
        BY <4>1
      <4>3. \E i \in 1 .. a[u] : x = <<u, i>>
        BY <4>1, <4>2
      <4> QED  BY <4>3, ItemsAre
    <3> QED  BY <3>1, <3>2, <3>3
  <2> QED  BY <2>1
<1>4. own \cap rest = {}
  <2>1. ASSUME NEW x \in own, x \in rest PROVE FALSE
    <3>1. PICK i \in 1 .. a[t] : x = <<t, i>>
      BY <1>2, <2>1
    <3>2. PICK u \in Threads : \E j \in 1 .. b[u] : x = <<u, j>>
      BY <2>1, ItemsAre
    <3>3. u = t
      BY <3>1, <3>2
    <3> QED  BY <3>2, <3>3
  <2> QED  BY <2>1
<1> HIDE DEF rest
<1>5. IsFiniteSet(rest) /\ Cardinality(rest) \in Nat /\ Cardinality({}) = 0
  BY FS_CardinalityType, FS_EmptySet DEF rest
<1>6. IsFiniteSet(own \cup rest)
      /\ Cardinality(own \cup rest) = Cardinality(own) + Cardinality(rest) - Cardinality(own \cap rest)
  BY <1>1, <1>5, FS_Union
<1>7. Cardinality(Items(a)) = a[t] + Cardinality(rest)
  <2>1. Cardinality(own \cap rest) = 0
    BY <1>4, <1>5
  <2>2. Cardinality(own \cup rest) = Cardinality(Items(a))
    BY <1>3
  <2> HIDE DEF own
  <2> DEFINE x == Cardinality(rest)
             y == Cardinality(own \cup rest)
             z == Cardinality(own)
             e == Cardinality(own \cap rest)
  <2>3. y = z + x - e /\ z = a[t] /\ x \in Nat /\ e = 0
    BY <1>1, <1>5, <1>6, <2>1
  <2> HIDE DEF x, y, z, e
  <2>4. y = a[t] + x
    BY <2>3
  <2> QED  BY <2>2, <2>4 DEF x, y
<1> QED  BY <1>3, <1>5, <1>6, <1>7 DEF Total, rest

\* The sum when one thread's amount changes.
LEMMA TotalChanges ==
  ASSUME NEW a, NEW b, NEW t \in Threads, \A u \in Threads : a[u] \in Nat /\ b[u] \in Nat,
         \A u \in Threads \ {t} : b[u] = a[u], IsFiniteSet(Items(a))
  PROVE  /\ IsFiniteSet(Items(b)) /\ Total(a) \in Nat /\ Total(b) \in Nat
         /\ Total(b) = Total(a) - a[t] + b[t]
<1> DEFINE c == [u \in Threads |-> IF u = t THEN 0 ELSE a[u]]
<1>1. /\ c[t] = 0 /\ \A u \in Threads \ {t} : c[u] = a[u] /\ c[u] = b[u]
      /\ \A u \in Threads : c[u] \in Nat /\ c[u] <= a[u]
  OBVIOUS
<1> HIDE DEF c
<1>2. IsFiniteSet(Items(c)) /\ Total(c) \in Nat
  BY <1>1, TotalGrows
<1>3. Total(a) \in Nat /\ Total(a) = Total(c) + a[t]
  BY <1>1, <1>2, TotalWithout
<1>4. IsFiniteSet(Items(b)) /\ Total(b) \in Nat /\ Total(b) = Total(c) + b[t]
  BY <1>1, <1>2, TotalWithout
<1> QED  BY <1>2, <1>3, <1>4

-----------------------------------------------------------------------------
(* Several consumers of one producer.                                      *)

\* Both amounts are numbers, and no more is owed than claimed.
LEMMA AmountsAre ==
  ASSUME NEW q, NEW l, NEW p, Counted(q, l, p)
  PROVE  /\ \A t \in Threads : Pending(l, p)[t] \in Nat
         /\ \A b, t : t \in Threads =>
              Owed(l, p, b)[t] \in Nat /\ Owed(l, p, b)[t] <= Pending(l, p)[t]
<1>1. \A t \in Threads : Pending(l, p)[t] \in Nat
  BY DEF Counted, Pending
<1>2. ASSUME NEW b, NEW t \in Threads
      PROVE  Owed(l, p, b)[t] \in Nat /\ Owed(l, p, b)[t] <= Pending(l, p)[t]
  BY DEF Counted, Pending, Owed
<1> QED  BY <1>1, <1>2

\* Their sums.
LEMMA SumsAre ==
  ASSUME NEW q, NEW l, NEW p, Counted(q, l, p), IsFiniteSet(Items(Pending(l, p)))
  PROVE  /\ Total(Pending(l, p)) \in Nat
         /\ \A b : /\ IsFiniteSet(Items(Owed(l, p, b))) /\ Total(Owed(l, p, b)) \in Nat
                   /\ Total(Owed(l, p, b)) <= Total(Pending(l, p))
<1>1. ASSUME NEW b
      PROVE  /\ IsFiniteSet(Items(Owed(l, p, b))) /\ Total(Owed(l, p, b)) \in Nat
             /\ Total(Pending(l, p)) \in Nat /\ Total(Owed(l, p, b)) <= Total(Pending(l, p))
  <2> DEFINE a == Owed(l, p, b)
             c == Pending(l, p)
  <2>1. \A t \in Threads : a[t] \in Nat /\ c[t] \in Nat /\ a[t] <= c[t]
    BY AmountsAre
  <2> HIDE DEF a, c
  <2>2. IsFiniteSet(Items(c))
    BY DEF c
  <2>3. IsFiniteSet(Items(a)) /\ Total(a) \in Nat /\ Total(c) \in Nat /\ Total(a) <= Total(c)
    BY <2>1, <2>2, TotalGrows
  <2> QED  BY <2>3 DEF a, c
<1> QED  BY <1>1

\* A step of thread t and the sums.
LEMMA SumsChange ==
  ASSUME NEW q, NEW r, NEW l, NEW m, NEW p, Counted(q, l, p), Counted(r, m, p),
         IsFiniteSet(Items(Pending(l, p))), NEW t \in Threads, \A u \in Threads \ {t} : m[u] = l[u]
  PROVE  /\ IsFiniteSet(Items(Pending(m, p)))
         /\ Total(Pending(m, p)) = Total(Pending(l, p)) - Pending(l, p)[t] + Pending(m, p)[t]
         /\ \A b : Total(Owed(m, p, b)) = Total(Owed(l, p, b)) - Owed(l, p, b)[t] + Owed(m, p, b)[t]
<1>1. /\ IsFiniteSet(Items(Pending(m, p)))
      /\ Total(Pending(m, p)) = Total(Pending(l, p)) - Pending(l, p)[t] + Pending(m, p)[t]
  <2> DEFINE a == Pending(l, p)
             c == Pending(m, p)
  <2>1. \A u \in Threads : a[u] \in Nat /\ c[u] \in Nat
    BY AmountsAre
  <2>2. \A u \in Threads \ {t} : c[u] = a[u]
    BY DEF Pending
  <2> HIDE DEF a, c
  <2>3. IsFiniteSet(Items(a))
    BY DEF a
  <2>4. IsFiniteSet(Items(c)) /\ Total(c) = Total(a) - a[t] + c[t]
    BY <2>1, <2>2, <2>3, TotalChanges
  <2> QED  BY <2>4 DEF a, c
<1>2. ASSUME NEW b
      PROVE  Total(Owed(m, p, b)) = Total(Owed(l, p, b)) - Owed(l, p, b)[t] + Owed(m, p, b)[t]
  <2> DEFINE a == Owed(l, p, b)
             c == Owed(m, p, b)
  <2>1. \A u \in Threads : a[u] \in Nat /\ c[u] \in Nat
    BY AmountsAre
  <2>2. \A u \in Threads \ {t} : c[u] = a[u]
    BY DEF Owed
  <2>3. IsFiniteSet(Items(a))
    BY SumsAre
  <2> HIDE DEF a, c
  <2>4. Total(c) = Total(a) - a[t] + c[t]
    BY <2>1, <2>2, <2>3, TotalChanges
  <2> QED  BY <2>4 DEF a, c
<1> QED  BY <1>1, <1>2

\* Thread t has claimed items of p and not taken them.
Claims(l, t, p) == l[t].ptr = p /\ l[t].pc \in {"again", "correct", "head"}

\* A step of a thread that has nothing claimed of p, or one at another producer.
LEMMA ClaimQuiet ==
  ASSUME NEW q, NEW r, NEW l, NEW m, NEW p, Counted(q, l, p), Counted(r, m, p), Claimable(q, l, p),
         NEW t \in Threads, \A u \in Threads \ {t} : m[u] = l[u],
         ~Claims(l, t, p), ~Claims(m, t, p),
         m[t].ptr = p /\ m[t].pc \in {"optimistic", "claim"} =>
           m[t].overcommit <= r.dequeueOvercommit,
         r.headIndex = q.headIndex, r.tailIndex >= q.tailIndex,
         r.dequeueOptimisticCount = q.dequeueOptimisticCount,
         r.dequeueOvercommit = q.dequeueOvercommit
  PROVE  Claimable(r, m, p)
<1>1. IsFiniteSet(Items(Pending(l, p)))
  BY DEF Claimable
<1>2. /\ Pending(l, p)[t] = 0 /\ Pending(m, p)[t] = 0
      /\ \A b : Owed(l, p, b)[t] = 0 /\ Owed(m, p, b)[t] = 0
  BY DEF Claims, Pending, Owed
<1>3. /\ Total(Pending(l, p)) \in Nat /\ \A b : Total(Owed(l, p, b)) \in Nat
  BY <1>1, SumsAre
<1>4. /\ IsFiniteSet(Items(Pending(m, p))) /\ Total(Pending(m, p)) = Total(Pending(l, p))
      /\ \A b : Total(Owed(m, p, b)) = Total(Owed(l, p, b))
  BY <1>1, <1>2, <1>3, SumsChange
<1>5. \A u \in Threads : Asks(m, u, p) <=> Asks(l, u, p)
  BY DEF Asks, Claims
<1>6. \A u \in Threads : Asks(m, u, p) => m[u] = l[u]
  BY DEF Asks, Claims
<1>7. /\ q.headIndex \in Nat /\ q.tailIndex \in Nat /\ r.tailIndex \in Nat
      /\ q.dequeueOptimisticCount \in Nat
  BY DEF Counted
<1>8. \A b : Covered(q, l, p, b) => Covered(r, m, p, b)
  <2> SUFFICES ASSUME NEW b, Covered(q, l, p, b) PROVE Covered(r, m, p, b)
    OBVIOUS
  <2>1. r.headIndex + Total(Owed(m, p, b)) <= r.tailIndex
    BY <1>3, <1>4, <1>7 DEF Covered
  <2>2. \A u \in Threads : Asks(m, u, p) /\ m[u].want > 0 /\ m[u].dequeueCount >= b =>
          r.headIndex + Total(Owed(m, p, m[u].dequeueCount)) <= m[u].dequeueCount - m[u].overcommit
    BY <1>4, <1>5, <1>6 DEF Covered
  <2> QED  BY <2>1, <2>2 DEF Covered
<1>9. \E b \in 0 .. r.dequeueOptimisticCount : Covered(r, m, p, b)
  BY <1>8 DEF Claimable
<1>10. r.headIndex + r.dequeueOvercommit + Total(Pending(m, p)) <= r.dequeueOptimisticCount
  BY <1>4 DEF Claimable
<1>11. \A u \in Threads : m[u].ptr = p /\ m[u].pc \in {"optimistic", "claim"} =>
         m[u].overcommit <= r.dequeueOvercommit
  BY DEF Claimable
<1>12. \A u \in Threads : Asks(m, u, p) =>
       /\ m[u].dequeueCount + m[u].want <= r.dequeueOptimisticCount
       /\ \A v \in Threads \ {u} : Asks(m, v, p) =>
            \/ m[u].dequeueCount + m[u].want <= m[v].dequeueCount
            \/ m[v].dequeueCount + m[v].want <= m[u].dequeueCount
  BY <1>5, <1>6 DEF Claimable
<1> QED  BY <1>4, <1>9, <1>10, <1>11, <1>12 DEF Claimable

\* fetch_add of dequeueOptimisticCount: the claim counts from an index that is owed to
\* nobody else.
LEMMA ClaimMade ==
  ASSUME NEW q, NEW r, NEW l, NEW m, NEW p, Counted(q, l, p), Counted(r, m, p), Claimable(q, l, p),
         NEW t \in Threads, \A u \in Threads \ {t} : m[u] = l[u],
         l[t].pc = "claim", l[t].ptr = p, m[t].pc = "again", m[t].ptr = p,
         m[t].want = l[t].want, m[t].overcommit = l[t].overcommit,
         m[t].dequeueCount = q.dequeueOptimisticCount,
         r.headIndex = q.headIndex, r.tailIndex = q.tailIndex,
         r.dequeueOptimisticCount = q.dequeueOptimisticCount + l[t].want,
         r.dequeueOvercommit = q.dequeueOvercommit
  PROVE  Claimable(r, m, p)
<1>1. IsFiniteSet(Items(Pending(l, p)))
  BY DEF Claimable
<1>2. /\ Pending(l, p)[t] = 0 /\ Pending(m, p)[t] = l[t].want
      /\ \A b : Owed(l, p, b)[t] = 0
      /\ \A b : Owed(m, p, b)[t] = IF q.dequeueOptimisticCount < b THEN l[t].want ELSE 0
  BY DEF Pending, Owed
<1>3. /\ Total(Pending(l, p)) \in Nat
      /\ \A b : Total(Owed(l, p, b)) \in Nat /\ Total(Owed(l, p, b)) <= Total(Pending(l, p))
  BY <1>1, SumsAre
<1>4. l[t].want \in Nat /\ l[t].overcommit \in Nat
  BY DEF Counted
<1>5. /\ q.headIndex \in Nat /\ q.tailIndex \in Nat
      /\ q.dequeueOptimisticCount \in Nat /\ q.dequeueOvercommit \in Nat
  BY DEF Counted
<1>6. /\ IsFiniteSet(Items(Pending(m, p)))
      /\ Total(Pending(m, p)) = Total(Pending(l, p)) + l[t].want
  BY <1>1, <1>2, <1>3, <1>4, SumsChange
<1>7. ASSUME NEW b \in Nat, b <= q.dequeueOptimisticCount
      PROVE  Total(Owed(m, p, b)) = Total(Owed(l, p, b))
  <2>1. Owed(m, p, b)[t] = 0 /\ Owed(l, p, b)[t] = 0
    BY <1>2, <1>5, <1>7
  <2>2. Total(Owed(m, p, b)) = Total(Owed(l, p, b)) - Owed(l, p, b)[t] + Owed(m, p, b)[t]
    BY <1>1, SumsChange
  <2> QED  BY <1>3, <2>1, <2>2
<1>8. \A u \in Threads \ {t} : Asks(m, u, p) <=> Asks(l, u, p)
  BY DEF Asks
<1>9. ~Asks(l, t, p) /\ Asks(m, t, p)
  BY DEF Asks
<1>10. \A u \in Threads \ {t} : Asks(l, u, p) =>
         /\ l[u].dequeueCount \in Nat /\ l[u].want \in Nat
         /\ l[u].dequeueCount + l[u].want <= q.dequeueOptimisticCount
  BY DEF Asks, Claimable, Counted
<1>11. PICK b \in 0 .. q.dequeueOptimisticCount : Covered(q, l, p, b)
  BY DEF Claimable
<1>12. Covered(r, m, p, b)
  <2>1. r.headIndex + Total(Owed(m, p, b)) <= r.tailIndex
    BY <1>5, <1>7, <1>11 DEF Covered
  <2>2. ASSUME NEW u \in Threads, Asks(m, u, p), m[u].want > 0, m[u].dequeueCount >= b
        PROVE  r.headIndex + Total(Owed(m, p, m[u].dequeueCount))
                 <= m[u].dequeueCount - m[u].overcommit
    <3>1. CASE u = t
      <4> DEFINE d == q.dequeueOptimisticCount
      <4>1. m[u].dequeueCount = d /\ m[u].overcommit = l[t].overcommit /\ d \in Nat
        BY <1>5, <3>1
      <4>2. Total(Owed(m, p, d)) = Total(Owed(l, p, d))
        BY <1>7, <4>1
      <4>3. l[t].overcommit <= q.dequeueOvercommit
        BY DEF Claimable
      <4>4. q.headIndex + q.dequeueOvercommit + Total(Pending(l, p)) <= d
        BY DEF Claimable
      <4>5. Total(Owed(l, p, d)) \in Nat /\ Total(Owed(l, p, d)) <= Total(Pending(l, p))
        BY <1>3
      <4>6. q.headIndex + Total(Owed(m, p, d)) <= d - l[t].overcommit
        BY <1>3, <1>4, <1>5, <4>2, <4>3, <4>4, <4>5
      <4> QED  BY <4>1, <4>6
    <3>2. CASE u # t
      <4>1. m[u] = l[u] /\ Asks(l, u, p)
        BY <1>8, <2>2, <3>2
      <4>2. l[u].dequeueCount \in Nat /\ l[u].dequeueCount <= q.dequeueOptimisticCount
        BY <1>5, <1>10, <3>2, <4>1
      <4>3. Total(Owed(m, p, l[u].dequeueCount)) = Total(Owed(l, p, l[u].dequeueCount))
        BY <1>7, <4>2
      <4>4. q.headIndex + Total(Owed(l, p, l[u].dequeueCount)) <= l[u].dequeueCount - l[u].overcommit
        BY <1>11, <2>2, <4>1 DEF Covered
      <4> QED  BY <4>1, <4>3, <4>4
    <3> QED  BY <3>1, <3>2
  <2> QED  BY <2>1, <2>2 DEF Covered
<1>13. b \in 0 .. r.dequeueOptimisticCount
  BY <1>4, <1>5
<1>14. r.headIndex + r.dequeueOvercommit + Total(Pending(m, p)) <= r.dequeueOptimisticCount
  BY <1>3, <1>4, <1>5, <1>6 DEF Claimable
<1>15. \A u \in Threads : m[u].ptr = p /\ m[u].pc \in {"optimistic", "claim"} =>
         m[u].overcommit <= r.dequeueOvercommit
  BY DEF Claimable
<1>16. \A u \in Threads : Asks(m, u, p) =>
         /\ m[u].dequeueCount + m[u].want <= r.dequeueOptimisticCount
         /\ \A v \in Threads \ {u} : Asks(m, v, p) =>
              \/ m[u].dequeueCount + m[u].want <= m[v].dequeueCount
              \/ m[v].dequeueCount + m[v].want <= m[u].dequeueCount
  <2>1. ASSUME NEW u \in Threads, Asks(m, u, p)
        PROVE  m[u].dequeueCount + m[u].want <= r.dequeueOptimisticCount
    BY <1>4, <1>5, <1>8, <1>10, <2>1
  <2>2. ASSUME NEW u \in Threads, Asks(m, u, p), NEW v \in Threads \ {u}, Asks(m, v, p)
        PROVE  \/ m[u].dequeueCount + m[u].want <= m[v].dequeueCount
               \/ m[v].dequeueCount + m[v].want <= m[u].dequeueCount
    <3>1. CASE u # t /\ v # t
      BY <1>8, <2>2, <3>1 DEF Claimable
    <3>2. CASE u = t
      BY <1>8, <1>10, <2>2, <3>2
    <3>3. CASE v = t
      BY <1>8, <1>10, <2>2, <3>3
    <3> QED  BY <3>1, <3>2, <3>3
  <2> QED  BY <2>1, <2>2
<1> QED  BY <1>6, <1>12, <1>13, <1>14, <1>15, <1>16 DEF Claimable

\* Claims that are there after a step that makes none.
LEMMA ClaimsFewer ==
  ASSUME NEW q, NEW r, NEW l, NEW m, NEW p, Claimable(q, l, p),
         NEW t \in Threads, \A u \in Threads \ {t} : m[u] = l[u],
         ~Asks(m, t, p), m[t].pc \notin {"optimistic", "claim"},
         r.dequeueOptimisticCount = q.dequeueOptimisticCount,
         q.dequeueOvercommit \in Nat, r.dequeueOvercommit \in Nat, Counted(q, l, p),
         r.dequeueOvercommit >= q.dequeueOvercommit
  PROVE  /\ \A u \in Threads : m[u].ptr = p /\ m[u].pc \in {"optimistic", "claim"} =>
              m[u].overcommit <= r.dequeueOvercommit
         /\ \A u \in Threads : Asks(m, u, p) => m[u] = l[u] /\ u # t /\ Asks(l, u, p)
         /\ \A u \in Threads : Asks(m, u, p) =>
              /\ m[u].dequeueCount + m[u].want <= r.dequeueOptimisticCount
              /\ \A v \in Threads \ {u} : Asks(m, v, p) =>
                   \/ m[u].dequeueCount + m[u].want <= m[v].dequeueCount
                   \/ m[v].dequeueCount + m[v].want <= m[u].dequeueCount
<1>1. \A u \in Threads : Asks(m, u, p) => m[u] = l[u] /\ u # t /\ Asks(l, u, p)
  BY DEF Asks
<1>2. ASSUME NEW u \in Threads, m[u].ptr = p, m[u].pc \in {"optimistic", "claim"}
      PROVE  m[u].overcommit <= r.dequeueOvercommit
  <2>1. m[u] = l[u]
    BY <1>2
  <2>2. l[u].overcommit <= q.dequeueOvercommit /\ l[u].overcommit \in Nat
    BY <1>2, <2>1 DEF Claimable, Counted
  <2> QED  BY <2>1, <2>2
<1>3. \A u \in Threads : Asks(m, u, p) =>
        /\ m[u].dequeueCount + m[u].want <= r.dequeueOptimisticCount
        /\ \A v \in Threads \ {u} : Asks(m, v, p) =>
             \/ m[u].dequeueCount + m[u].want <= m[v].dequeueCount
             \/ m[v].dequeueCount + m[v].want <= m[u].dequeueCount
  BY <1>1 DEF Claimable
<1> QED  BY <1>1, <1>2, <1>3

\* The second look at the tail: the thread gets what is owed to nobody else.
LEMMA ClaimLooked ==
  ASSUME NEW q, NEW l, NEW m, NEW p, Counted(q, l, p), Counted(q, m, p), Claimable(q, l, p),
         NEW t \in Threads, \A u \in Threads \ {t} : m[u] = l[u],
         l[t].pc = "again", l[t].ptr = p, m[t].pc \in {"correct", "head"}, m[t].ptr = p,
         m[t].want = l[t].want, m[t].pc = "head" => m[t].n = m[t].want,
         m[t].n > 0 => m[t].n <= q.tailIndex - (l[t].dequeueCount - l[t].overcommit)
  PROVE  Claimable(q, m, p)
<1>1. IsFiniteSet(Items(Pending(l, p)))
  BY DEF Claimable
<1>2. /\ l[t].want \in Nat /\ l[t].overcommit \in Nat /\ l[t].dequeueCount \in Nat
      /\ m[t].n \in 0 .. l[t].want
  BY DEF Counted
<1>3. /\ q.headIndex \in Nat /\ q.tailIndex \in Nat
      /\ q.dequeueOptimisticCount \in Nat /\ q.dequeueOvercommit \in Nat
  BY DEF Counted
<1>4. /\ Pending(l, p)[t] = l[t].want /\ Pending(m, p)[t] = l[t].want
      /\ \A b : Owed(l, p, b)[t] = IF l[t].dequeueCount < b THEN l[t].want ELSE 0
      /\ \A b : Owed(m, p, b)[t] = m[t].n
  BY DEF Pending, Owed
<1>5. Total(Pending(l, p)) \in Nat /\ \A b : Total(Owed(l, p, b)) \in Nat
  BY <1>1, SumsAre
<1>6. /\ IsFiniteSet(Items(Pending(m, p))) /\ Total(Pending(m, p)) = Total(Pending(l, p))
  BY <1>1, <1>2, <1>4, <1>5, SumsChange
<1>7. \A b : /\ Total(Owed(m, p, b)) \in Nat
             /\ Total(Owed(m, p, b)) = Total(Owed(l, p, b)) - Owed(l, p, b)[t] + m[t].n
  BY <1>1, <1>4, <1>6, SumsChange, SumsAre
<1>8. ASSUME NEW b, m[t].n = 0 \/ l[t].dequeueCount < b
      PROVE  Total(Owed(m, p, b)) <= Total(Owed(l, p, b))
  <2>1. /\ Total(Owed(m, p, b)) \in Nat /\ Total(Owed(l, p, b)) \in Nat
        /\ Total(Owed(m, p, b)) = Total(Owed(l, p, b)) - Owed(l, p, b)[t] + m[t].n
    BY <1>5, <1>7
  <2>2. Owed(l, p, b)[t] \in Nat /\ m[t].n <= Owed(l, p, b)[t]
    BY <1>2, <1>4, <1>8
  <2> QED  BY <1>2, <2>1, <2>2
<1>9. /\ \A u \in Threads : m[u].ptr = p /\ m[u].pc \in {"optimistic", "claim"} =>
           m[u].overcommit <= q.dequeueOvercommit
      /\ \A u \in Threads : Asks(m, u, p) => m[u] = l[u] /\ u # t /\ Asks(l, u, p)
      /\ \A u \in Threads : Asks(m, u, p) =>
           /\ m[u].dequeueCount + m[u].want <= q.dequeueOptimisticCount
           /\ \A v \in Threads \ {u} : Asks(m, v, p) =>
                \/ m[u].dequeueCount + m[u].want <= m[v].dequeueCount
                \/ m[v].dequeueCount + m[v].want <= m[u].dequeueCount
  <2>1. ~Asks(m, t, p) /\ m[t].pc \notin {"optimistic", "claim"}
    BY DEF Asks
  <2> QED  BY <1>3, <2>1, ClaimsFewer
<1>10. PICK b \in 0 .. q.dequeueOptimisticCount : Covered(q, l, p, b)
  BY DEF Claimable
<1>11. ASSUME NEW u \in Threads, Asks(m, u, p)
       PROVE  l[u].dequeueCount \in Nat /\ l[u].want \in Nat /\ l[u].overcommit \in Nat
  BY <1>9, <1>11 DEF Counted, Asks
<1>12. ASSUME NEW u \in Threads, Asks(m, u, p), m[u].want > 0, m[u].dequeueCount >= b,
              m[t].n = 0 \/ l[t].dequeueCount < m[u].dequeueCount
       PROVE  q.headIndex + Total(Owed(m, p, m[u].dequeueCount)) <= m[u].dequeueCount - m[u].overcommit
  <2> DEFINE d == l[u].dequeueCount
  <2>1. m[u] = l[u] /\ Asks(l, u, p) /\ d \in Nat /\ l[u].overcommit \in Nat
    BY <1>9, <1>11, <1>12
  <2>2. q.headIndex + Total(Owed(l, p, d)) <= d - l[u].overcommit
    BY <1>10, <1>12, <2>1 DEF Covered
  <2>3. m[t].n = 0 \/ l[t].dequeueCount < d
    BY <1>12, <2>1
  <2> HIDE DEF d
  <2>4. /\ Total(Owed(m, p, d)) <= Total(Owed(l, p, d))
        /\ Total(Owed(m, p, d)) \in Nat /\ Total(Owed(l, p, d)) \in Nat
    BY <1>5, <1>7, <1>8, <2>3
  <2>5. q.headIndex + Total(Owed(m, p, d)) <= d - l[u].overcommit
    BY <1>3, <2>1, <2>2, <2>4
  <2> QED  BY <2>1, <2>5 DEF d
<1>13. CASE m[t].n = 0 \/ l[t].dequeueCount < b
  <2>1. q.headIndex + Total(Owed(l, p, b)) <= q.tailIndex
    BY <1>10 DEF Covered
  <2>2. q.headIndex + Total(Owed(m, p, b)) <= q.tailIndex
    <3>1. /\ Total(Owed(m, p, b)) <= Total(Owed(l, p, b))
          /\ Total(Owed(m, p, b)) \in Nat /\ Total(Owed(l, p, b)) \in Nat
      BY <1>5, <1>7, <1>8, <1>13
    <3> QED  BY <1>3, <2>1, <3>1
  <2>3. \A u \in Threads : Asks(m, u, p) /\ m[u].want > 0 /\ m[u].dequeueCount >= b =>
          q.headIndex + Total(Owed(m, p, m[u].dequeueCount)) <= m[u].dequeueCount - m[u].overcommit
    <3> SUFFICES ASSUME NEW u \in Threads, Asks(m, u, p), m[u].want > 0, m[u].dequeueCount >= b
                 PROVE  q.headIndex + Total(Owed(m, p, m[u].dequeueCount))
                          <= m[u].dequeueCount - m[u].overcommit
      OBVIOUS
    <3>1. m[u].dequeueCount \in Nat
      BY <1>9, <1>11
    <3>2. m[t].n = 0 \/ l[t].dequeueCount < m[u].dequeueCount
      BY <1>2, <1>13, <3>1
    <3> QED  BY <1>12, <3>2
  <2>4. Covered(q, m, p, b)
    BY <2>2, <2>3 DEF Covered
  <2> QED  BY <1>6, <1>9, <2>4 DEF Claimable
<1>14. CASE m[t].n > 0 /\ l[t].dequeueCount >= b
  <2> DEFINE d == l[t].dequeueCount
  <2>1. d \in 0 .. q.dequeueOptimisticCount
    BY <1>2, <1>3 DEF Claimable, Asks
  <2>2. q.headIndex + Total(Owed(l, p, d)) <= d - l[t].overcommit
    BY <1>2, <1>10, <1>14 DEF Covered, Asks
  <2>3. Owed(l, p, d)[t] = 0
    BY <1>2, <1>4
  <2>4. Total(Owed(m, p, d)) = Total(Owed(l, p, d)) + m[t].n
    BY <1>2, <1>5, <1>7, <2>3
  <2>5. m[t].n <= q.tailIndex - (d - l[t].overcommit)
    BY <1>14
  <2>6. q.headIndex + Total(Owed(m, p, d)) <= q.tailIndex
    BY <1>2, <1>3, <1>5, <2>1, <2>2, <2>4, <2>5
  <2>7. \A u \in Threads : Asks(m, u, p) /\ m[u].want > 0 /\ m[u].dequeueCount >= d =>
          q.headIndex + Total(Owed(m, p, m[u].dequeueCount)) <= m[u].dequeueCount - m[u].overcommit
    <3> SUFFICES ASSUME NEW u \in Threads, Asks(m, u, p), m[u].want > 0, m[u].dequeueCount >= d
                 PROVE  q.headIndex + Total(Owed(m, p, m[u].dequeueCount))
                          <= m[u].dequeueCount - m[u].overcommit
      OBVIOUS
    <3>1. m[u] = l[u] /\ u # t /\ Asks(l, u, p) /\ m[u].dequeueCount \in Nat /\ l[u].want \in Nat
      BY <1>9, <1>11
    <3>2. \/ l[u].dequeueCount + l[u].want <= d
          \/ d + l[t].want <= l[u].dequeueCount
      <4>1. Asks(l, t, p)
        BY DEF Asks
      <4> QED  BY <3>1, <4>1 DEF Claimable
    <3>3. d < m[u].dequeueCount /\ m[u].dequeueCount >= b
      BY <1>2, <1>14, <3>1, <3>2
    <3> QED  BY <1>12, <3>3
  <2>8. Covered(q, m, p, d)
    BY <2>6, <2>7 DEF Covered
  <2> QED  BY <1>6, <1>9, <2>1, <2>8 DEF Claimable
<1> QED  BY <1>2, <1>13, <1>14

\* What was claimed too much is added to dequeueOvercommit.
LEMMA ClaimCorrected ==
  ASSUME NEW q, NEW r, NEW l, NEW m, NEW p, Counted(q, l, p), Counted(r, m, p), Claimable(q, l, p),
         NEW t \in Threads, \A u \in Threads \ {t} : m[u] = l[u],
         l[t].pc = "correct", l[t].ptr = p, m[t].ptr = p,
         m[t].pc = "head" \/ (m[t].pc = "dequeued" /\ m[t].n = 0), m[t].n = l[t].n,
         r.headIndex = q.headIndex, r.tailIndex = q.tailIndex,
         r.dequeueOptimisticCount = q.dequeueOptimisticCount,
         r.dequeueOvercommit = q.dequeueOvercommit + l[t].want - l[t].n
  PROVE  Claimable(r, m, p)
<1>1. IsFiniteSet(Items(Pending(l, p)))
  BY DEF Claimable
<1>2. l[t].want \in Nat /\ l[t].n \in 0 .. l[t].want
  BY DEF Counted
<1>3. /\ q.headIndex \in Nat /\ q.dequeueOptimisticCount \in Nat /\ q.dequeueOvercommit \in Nat
      /\ r.dequeueOvercommit \in Nat /\ r.dequeueOvercommit >= q.dequeueOvercommit
  BY <1>2 DEF Counted
<1>4. /\ Pending(l, p)[t] = l[t].want /\ Pending(m, p)[t] = l[t].n
      /\ \A b : Owed(l, p, b)[t] = l[t].n /\ Owed(m, p, b)[t] = l[t].n
  BY DEF Pending, Owed
<1>5. Total(Pending(l, p)) \in Nat /\ \A b : Total(Owed(l, p, b)) \in Nat
  BY <1>1, SumsAre
<1>6. /\ IsFiniteSet(Items(Pending(m, p)))
      /\ Total(Pending(m, p)) = Total(Pending(l, p)) - l[t].want + l[t].n
      /\ \A b : Total(Owed(m, p, b)) = Total(Owed(l, p, b))
  BY <1>1, <1>2, <1>4, <1>5, SumsChange
<1>7. /\ \A u \in Threads : m[u].ptr = p /\ m[u].pc \in {"optimistic", "claim"} =>
           m[u].overcommit <= r.dequeueOvercommit
      /\ \A u \in Threads : Asks(m, u, p) => m[u] = l[u] /\ u # t /\ Asks(l, u, p)
      /\ \A u \in Threads : Asks(m, u, p) =>
           /\ m[u].dequeueCount + m[u].want <= r.dequeueOptimisticCount
           /\ \A v \in Threads \ {u} : Asks(m, v, p) =>
                \/ m[u].dequeueCount + m[u].want <= m[v].dequeueCount
                \/ m[v].dequeueCount + m[v].want <= m[u].dequeueCount
  <2>1. ~Asks(m, t, p) /\ m[t].pc \notin {"optimistic", "claim"}
    BY DEF Asks
  <2> QED  BY <1>3, <2>1, ClaimsFewer
<1>8. \A b : Covered(q, l, p, b) => Covered(r, m, p, b)
  BY <1>6, <1>7 DEF Covered
<1>9. \E b \in 0 .. r.dequeueOptimisticCount : Covered(r, m, p, b)
  BY <1>8 DEF Claimable
<1>10. r.headIndex + r.dequeueOvercommit + Total(Pending(m, p)) <= r.dequeueOptimisticCount
  BY <1>2, <1>3, <1>5, <1>6 DEF Claimable
<1> QED  BY <1>6, <1>7, <1>9, <1>10 DEF Claimable

\* fetch_add of headIndex: the thread takes the items it was owed.
LEMMA ClaimTaken ==
  ASSUME NEW q, NEW r, NEW l, NEW m, NEW p, Counted(q, l, p), Counted(r, m, p), Claimable(q, l, p),
         NEW t \in Threads, \A u \in Threads \ {t} : m[u] = l[u],
         l[t].pc = "head", l[t].ptr = p, m[t].pc = "find",
         r.headIndex = q.headIndex + l[t].n, r.tailIndex = q.tailIndex,
         r.dequeueOptimisticCount = q.dequeueOptimisticCount,
         r.dequeueOvercommit = q.dequeueOvercommit
  PROVE  Claimable(r, m, p)
<1>1. IsFiniteSet(Items(Pending(l, p)))
  BY DEF Claimable
<1>2. l[t].n \in Nat
  BY DEF Counted
<1>3. /\ q.headIndex \in Nat /\ q.dequeueOptimisticCount \in Nat /\ q.dequeueOvercommit \in Nat
      /\ r.dequeueOvercommit >= q.dequeueOvercommit
  BY DEF Counted
<1>4. /\ Pending(l, p)[t] = l[t].n /\ Pending(m, p)[t] = 0
      /\ \A b : Owed(l, p, b)[t] = l[t].n /\ Owed(m, p, b)[t] = 0
  BY DEF Pending, Owed
<1>5. Total(Pending(l, p)) \in Nat /\ \A b : Total(Owed(l, p, b)) \in Nat
  BY <1>1, SumsAre
<1>6. /\ IsFiniteSet(Items(Pending(m, p)))
      /\ Total(Pending(m, p)) = Total(Pending(l, p)) - l[t].n
      /\ \A b : Total(Owed(m, p, b)) = Total(Owed(l, p, b)) - l[t].n
  BY <1>1, <1>2, <1>4, <1>5, SumsChange
<1>7. /\ \A u \in Threads : m[u].ptr = p /\ m[u].pc \in {"optimistic", "claim"} =>
           m[u].overcommit <= r.dequeueOvercommit
      /\ \A u \in Threads : Asks(m, u, p) => m[u] = l[u] /\ u # t /\ Asks(l, u, p)
      /\ \A u \in Threads : Asks(m, u, p) =>
           /\ m[u].dequeueCount + m[u].want <= r.dequeueOptimisticCount
           /\ \A v \in Threads \ {u} : Asks(m, v, p) =>
                \/ m[u].dequeueCount + m[u].want <= m[v].dequeueCount
                \/ m[v].dequeueCount + m[v].want <= m[u].dequeueCount
  <2>1. ~Asks(m, t, p) /\ m[t].pc \notin {"optimistic", "claim"}
    BY DEF Asks
  <2> QED  BY SMTT(60), <1>3, <2>1, ClaimsFewer
<1>8. \A b : r.headIndex + Total(Owed(m, p, b)) = q.headIndex + Total(Owed(l, p, b))
  <2> TAKE b
  <2>1. Total(Owed(l, p, b)) \in Nat /\ Total(Owed(m, p, b)) = Total(Owed(l, p, b)) - l[t].n
    BY <1>5, <1>6
  <2> QED  BY <1>2, <1>3, <2>1
<1>9. \A b : Covered(q, l, p, b) => Covered(r, m, p, b)
  BY <1>7, <1>8 DEF Covered
<1>10. \E b \in 0 .. r.dequeueOptimisticCount : Covered(r, m, p, b)
  BY <1>9 DEF Claimable
<1>11. r.headIndex + r.dequeueOvercommit + Total(Pending(m, p)) <= r.dequeueOptimisticCount
  BY <1>2, <1>3, <1>5, <1>6 DEF Claimable
<1> QED  BY <1>6, <1>7, <1>10, <1>11 DEF Claimable

-----------------------------------------------------------------------------
(* The claims of several consumers: the steps.                             *)

\* The numbers are numbers.
LEMMA CountedNow ==
  ASSUME QueueInv, NEW p \in Names
  PROVE  Counted(producers[p], me, p)
<1>1. CounterInv /\ AmountInv
  BY DEF QueueInv
<1>2. ASSUME NEW t \in Threads
      PROVE  /\ me[t].pc \in {"optimistic", "claim", "again"} => me[t].overcommit \in Nat
             /\ me[t].pc \in {"claim", "again", "correct", "head"} => me[t].want \in Nat
             /\ me[t].pc = "again" => me[t].dequeueCount \in Nat
             /\ me[t].pc \in {"correct", "head"} => me[t].n \in 0 .. me[t].want
  <2>1. me[t].pc \in {"optimistic", "claim", "again", "correct", "head"} => Amounts(t)
    BY <1>1 DEF AmountInv, Consuming, Claiming
  <2> QED  BY <2>1 DEF Amounts, Claiming
<1> QED  BY <1>1, <1>2, CountsNow DEF Counted

\* So they are after the step.
LEMMA CountedThen ==
  ASSUME QueueInv', NEW p \in Names
  PROVE  Counted(producers'[p], me', p)
<1>1. CounterInv' /\ AmountInv'
  BY DEF QueueInv
<1>2. ASSUME NEW t \in Threads
      PROVE  /\ me'[t].pc \in {"optimistic", "claim", "again"} => me'[t].overcommit \in Nat
             /\ me'[t].pc \in {"claim", "again", "correct", "head"} => me'[t].want \in Nat
             /\ me'[t].pc = "again" => me'[t].dequeueCount \in Nat
             /\ me'[t].pc \in {"correct", "head"} => me'[t].n \in 0 .. me'[t].want
  <2>1. me'[t].pc \in {"optimistic", "claim", "again", "correct", "head"} => Amounts(t)'
    BY <1>1 DEF AmountInv, Consuming, Claiming
  <2> QED  BY <2>1 DEF Amounts, Claiming
<1>3. /\ producers'[p].headIndex \in Nat /\ producers'[p].tailIndex \in Nat
      /\ producers'[p].dequeueOptimisticCount \in Nat /\ producers'[p].dequeueOvercommit \in Nat
  BY <1>1 DEF CounterInv, Counters
<1> QED  BY <1>2, <1>3 DEF Counted

\* The steps that neither claim items nor take claimed ones.
LEMMA ClaimElsewhere ==
  ASSUME QueueInv, QueueInv', ClaimInv, NEW t \in Threads,
         \A u \in Threads \ {t} : me'[u] = me[u], TailsGrow,
         me[t].pc \notin {"again", "correct", "head"},
         me'[t].pc \notin {"again", "correct", "head"},
         me'[t].pc \in {"optimistic", "claim"} =>
           me'[t].overcommit <= producers[me'[t].ptr].dequeueOvercommit
  PROVE  ClaimInv'
<1> SUFFICES ASSUME NEW p \in Names
             PROVE  Claimable(producers'[p], me', p)
  BY DEF ClaimInv
<1>1. Counted(producers[p], me, p) /\ Counted(producers'[p], me', p) /\ Claimable(producers[p], me, p)
  BY CountedNow, CountedThen DEF ClaimInv
<1>2. /\ producers'[p].headIndex = producers[p].headIndex
      /\ producers'[p].tailIndex >= producers[p].tailIndex
      /\ producers'[p].dequeueOptimisticCount = producers[p].dequeueOptimisticCount
      /\ producers'[p].dequeueOvercommit = producers[p].dequeueOvercommit
  BY DEF TailsGrow
<1>3. ~Claims(me, t, p) /\ ~Claims(me', t, p)
  BY DEF Claims
<1>4. me'[t].ptr = p /\ me'[t].pc \in {"optimistic", "claim"} =>
        me'[t].overcommit <= producers'[p].dequeueOvercommit
  BY <1>2
<1> QED  BY <1>1, <1>2, <1>3, <1>4, ClaimQuiet

\* A step at producer me[t].ptr that changes one of its counters: the others' producers
\* and claims are as they were.
LEMMA ClaimAt ==
  ASSUME QueueInv, QueueInv', ClaimInv, NEW t \in Threads,
         \A u \in Threads \ {t} : me'[u] = me[u], me'[t].ptr = me[t].ptr,
         \A p \in Names \ {me[t].ptr} : \A f \in Counters : producers'[p][f] = producers[p][f],
         me[t].ptr \in Names => Claimable(producers'[me[t].ptr], me', me[t].ptr)
  PROVE  ClaimInv'
<1> SUFFICES ASSUME NEW p \in Names, p # me[t].ptr
             PROVE  Claimable(producers'[p], me', p)
  BY DEF ClaimInv
<1>1. Counted(producers[p], me, p) /\ Counted(producers'[p], me', p) /\ Claimable(producers[p], me, p)
  BY CountedNow, CountedThen DEF ClaimInv
<1>2. \A f \in Counters : producers'[p][f] = producers[p][f]
  OBVIOUS
<1>3. producers[p].tailIndex \in Nat
  BY <1>1 DEF Counted
<1>4. /\ producers'[p].headIndex = producers[p].headIndex
      /\ producers'[p].tailIndex >= producers[p].tailIndex
      /\ producers'[p].dequeueOptimisticCount = producers[p].dequeueOptimisticCount
      /\ producers'[p].dequeueOvercommit = producers[p].dequeueOvercommit
  BY <1>2, <1>3 DEF Counters
<1>5. ~Claims(me, t, p) /\ ~Claims(me', t, p)
  BY DEF Claims
<1> QED  BY <1>1, <1>4, <1>5, ClaimQuiet

\* The steps of a dequeue from the load of the tail to the fetch_add of the head.
LEMMA ClaimStep ==
  ASSUME QueueInv, QueueInv', ClaimInv, NEW t \in Threads, \A u \in Threads \ {t} : me'[u] = me[u],
         LoadTail(t) \/ LoadOvercommit(t) \/ LoadCount(t) \/ Claim(t) \/ LoadAgain(t) \/ Correct(t)
           \/ TakeHead(t)
  PROVE  ClaimInv'
<1> DEFINE p == me[t].ptr
<1>1. /\ LocalsOK /\ CallInv /\ CounterInv /\ AmountInv /\ RingOK(t) /\ Listed \subseteq Names
  BY DEF QueueInv, OwnInv, RingInv
<1>2. me[t].pc \in Claiming \cup {"tail", "correct"}
  BY DEF LoadTail, LoadOvercommit, LoadCount, Claim, LoadAgain, Correct, TakeHead, At, Claiming
<1>3. Amounts(t) /\ p \in Names
  <2>1. Consuming(t) /\ me[t].pc # "rotate"
    BY <1>2 DEF Consuming, Claiming
  <2> QED  BY <1>1, <2>1 DEF AmountInv, RingOK, OnRing
<1>4. /\ Counted(producers[p], me, p) /\ Counted(producers'[p], me', p)
      /\ Claimable(producers[p], me, p) /\ Theirs(t) = producers[p]
  BY <1>3, CountedNow, CountedThen DEF ClaimInv, Theirs
<1>5. /\ producers[p].headIndex \in Nat /\ producers[p].tailIndex \in Nat
      /\ producers[p].dequeueOptimisticCount \in Nat /\ producers[p].dequeueOvercommit \in Nat
  BY <1>4 DEF Counted
<1>6. producers' = producers => TailsGrow
  BY <1>1, CountsKept, SameGrow
<1>7. ASSUME NEW f \in Counters, NEW v, Bumps(p, f, v)
      PROVE  /\ \A o \in Names \ {p} : \A g \in Counters : producers'[o][g] = producers[o][g]
             /\ producers'[p][f] = v /\ \A g \in Counters \ {f} : producers'[p][g] = producers[p][g]
  BY <1>3, <1>7 DEF Bumps
<1>8. Counters = {"headIndex", "tailIndex", "dequeueOptimisticCount", "dequeueOvercommit"}
  BY DEF Counters
<1>9. ASSUME NEW f, NEW v, NEW pc, Sets(t, pc, f, v), f \in Kept \ {"ptr"}
      PROVE  /\ me'[t].pc = pc /\ me'[t][f] = v /\ me'[t].ptr = p
             /\ \A g \in Kept \ {f} : me'[t][g] = me[t][g]
  BY <1>9 DEF Sets, Kept
<1>10. {"tailIndex", "overcommit", "want", "n", "dequeueCount", "given"} \subseteq Kept \ {"ptr"}
  BY DEF Kept
<1> HIDE DEF p
<1>11. CASE LoadTail(t)
  <2>1. /\ Sets(t, "over", "tailIndex", Theirs(t).tailIndex) /\ producers' = producers
        /\ me[t].pc = "tail"
    BY <1>1, <1>11, LoadsAre DEF LoadTail, At
  <2>2. me'[t].pc = "over"
    BY <1>9, <1>10, <2>1
  <2> QED  BY <1>6, <2>1, <2>2, ClaimElsewhere
<1>12. CASE LoadOvercommit(t)
  <2>1. /\ Sets(t, "optimistic", "overcommit", Theirs(t).dequeueOvercommit)
        /\ producers' = producers /\ me[t].pc = "over"
    BY <1>1, <1>12, LoadsAre DEF LoadOvercommit, At
  <2>2. me'[t].pc = "optimistic" /\ me'[t].ptr = p /\ me'[t].overcommit = producers[p].dequeueOvercommit
    BY <1>4, <1>9, <1>10, <2>1
  <2>3. me'[t].overcommit <= producers[me'[t].ptr].dequeueOvercommit
    BY <1>5, <2>2
  <2> QED  BY <1>6, <2>1, <2>2, <2>3, ClaimElsewhere
<1>13. CASE LoadCount(t)
  <2>1. /\ \/ \E v : Sets(t, "claim", "want", v)
           \/ Sets(t, "dequeued", "n", 0)
        /\ producers' = producers /\ me[t].pc = "optimistic"
    BY <1>1, <1>13, LoadsAre DEF LoadCount, At
  <2>2. /\ me'[t].pc \in {"claim", "dequeued"} /\ me'[t].ptr = p
        /\ me'[t].overcommit = me[t].overcommit
    BY <1>9, <1>10, <2>1
  <2>3. me'[t].overcommit <= producers[me'[t].ptr].dequeueOvercommit
    BY <1>4, <2>1, <2>2 DEF Claimable, p
  <2> QED  BY <1>6, <2>1, <2>2, <2>3, ClaimElsewhere
<1>14. CASE Claim(t)
  <2>1. /\ Sets(t, "again", "dequeueCount", Theirs(t).dequeueOptimisticCount) /\ me[t].pc = "claim"
        /\ Bumps(p, "dequeueOptimisticCount", Theirs(t).dequeueOptimisticCount + me[t].want)
    BY <1>1, <1>3, <1>14, LoadsAre, CountsAre DEF Claim, At, p
  <2>2. /\ me'[t].pc = "again" /\ me'[t].ptr = p /\ me'[t].want = me[t].want
        /\ me'[t].overcommit = me[t].overcommit
        /\ me'[t].dequeueCount = producers[p].dequeueOptimisticCount
    BY <1>4, <1>9, <1>10, <2>1
  <2>3. /\ producers'[p].headIndex = producers[p].headIndex
        /\ producers'[p].tailIndex = producers[p].tailIndex
        /\ producers'[p].dequeueOptimisticCount = producers[p].dequeueOptimisticCount + me[t].want
        /\ producers'[p].dequeueOvercommit = producers[p].dequeueOvercommit
        /\ \A o \in Names \ {p} : \A f \in Counters : producers'[o][f] = producers[o][f]
    BY <1>4, <1>7, <1>8, <2>1
  <2>4. Claimable(producers'[p], me', p)
    <3>1. me[t].ptr = p
      BY DEF p
    <3> QED  BY <1>4, <2>1, <2>2, <2>3, <3>1, ClaimMade
  <2> QED  BY <2>2, <2>3, <2>4, ClaimAt DEF p
<1>15. CASE LoadAgain(t)
  <2> DEFINE actual == Theirs(t).tailIndex - (me[t].dequeueCount - me[t].overcommit)
             n == IF actual <= 0 THEN 0 ELSE Least2(actual, me[t].want)
             pc == IF n < me[t].want THEN "correct" ELSE "head"
  <2>1. /\ Sets(t, pc, "n", n) /\ producers' = producers /\ me[t].pc = "again"
    BY <1>1, <1>15, ClaimsAre DEF LoadAgain, At
  <2>2. me[t].dequeueCount \in Nat /\ me[t].overcommit \in Nat /\ me[t].want \in Nat
    BY <1>3, <2>1 DEF Amounts, Claiming
  <2>3. /\ n \in 0 .. me[t].want /\ (pc = "head" => n = me[t].want) /\ pc \in {"correct", "head"}
        /\ n > 0 => n <= producers[p].tailIndex - (me[t].dequeueCount - me[t].overcommit)
    BY <1>4, <1>5, <2>2 DEF Least2
  <2> HIDE DEF n, pc
  <2>4. me'[t].pc = pc /\ me'[t].ptr = p /\ me'[t].want = me[t].want /\ me'[t].n = n
    BY <1>9, <1>10, <2>1
  <2>5. Claimable(producers[p], me', p)
    <3>1. me[t].ptr = p /\ Counted(producers[p], me', p)
      BY <1>4, <2>1 DEF p
    <3> QED  BY <1>4, <2>1, <2>3, <2>4, <3>1, ClaimLooked
  <2>6. me'[t].ptr = me[t].ptr /\ Claimable(producers'[me[t].ptr], me', me[t].ptr)
    BY <2>1, <2>4, <2>5 DEF p
  <2> QED  BY <2>1, <2>6, ClaimAt
<1>16. CASE Correct(t)
  <2> DEFINE pc == IF me[t].n = 0 THEN "dequeued" ELSE "head"
  <2>1. /\ Sets(t, pc, "n", me[t].n) /\ me[t].pc = "correct"
        /\ Bumps(p, "dequeueOvercommit", Theirs(t).dequeueOvercommit + me[t].want - me[t].n)
    BY <1>1, <1>3, <1>16, ClaimsAre, CountsAre DEF Correct, At, p
  <2>2. me'[t].pc = pc /\ me'[t].ptr = p /\ me'[t].n = me[t].n
    BY <1>9, <1>10, <2>1
  <2>3. me'[t].pc = "head" \/ (me'[t].pc = "dequeued" /\ me'[t].n = 0)
    BY <2>2
  <2>4. /\ producers'[p].headIndex = producers[p].headIndex
        /\ producers'[p].tailIndex = producers[p].tailIndex
        /\ producers'[p].dequeueOptimisticCount = producers[p].dequeueOptimisticCount
        /\ producers'[p].dequeueOvercommit = producers[p].dequeueOvercommit + me[t].want - me[t].n
        /\ \A o \in Names \ {p} : \A f \in Counters : producers'[o][f] = producers[o][f]
    BY <1>4, <1>7, <1>8, <2>1
  <2>5. Claimable(producers'[p], me', p)
    <3>1. me[t].ptr = p
      BY DEF p
    <3> QED  BY <1>4, <2>1, <2>2, <2>3, <2>4, <3>1, ClaimCorrected
  <2> QED  BY <2>2, <2>4, <2>5, ClaimAt DEF p
<1>17. CASE TakeHead(t)
  <2>1. /\ Sets(t, "find", "given", me[t].given + me[t].n) /\ me[t].pc = "head"
        /\ Bumps(p, "headIndex", Theirs(t).headIndex + me[t].n)
    BY <1>1, <1>3, <1>17, LoadsAre, CountsAre DEF TakeHead, At, p
  <2>2. me'[t].pc = "find" /\ me'[t].ptr = p
    BY <1>9, <1>10, <2>1
  <2>3. /\ producers'[p].headIndex = producers[p].headIndex + me[t].n
        /\ producers'[p].tailIndex = producers[p].tailIndex
        /\ producers'[p].dequeueOptimisticCount = producers[p].dequeueOptimisticCount
        /\ producers'[p].dequeueOvercommit = producers[p].dequeueOvercommit
        /\ \A o \in Names \ {p} : \A f \in Counters : producers'[o][f] = producers[o][f]
    BY <1>4, <1>7, <1>8, <2>1
  <2>4. Claimable(producers'[p], me', p)
    <3>1. me[t].ptr = p
      BY DEF p
    <3> QED  BY <1>4, <2>1, <2>2, <2>3, <3>1, ClaimTaken
  <2> QED  BY SMTT(60), <2>2, <2>3, <2>4, ClaimAt DEF p
<1> QED  BY <1>11, <1>12, <1>13, <1>14, <1>15, <1>16, <1>17

\* Every step keeps the claims as they should be.
LEMMA ClaimNext ==
  ASSUME QueueInv, QueueInv', ClaimInv, [Next]_vars
  PROVE  ClaimInv'
<1>1. ASSUME NEW t \in Threads, Step(t)
      PROVE  ClaimInv'
  <2>1. LocalsOK /\ OwnInv /\ CallInv /\ ListInv /\ ListInv' /\ CounterInv /\ RingInv /\ RingOK(t)
    BY DEF QueueInv, OwnInv, RingInv
  <2>2. \A u \in Threads \ {t} : me'[u] = me[u]
    BY <1>1, <2>1, RingOkNext
  <2>3. /\ SameCounts => TailsGrow
        /\ producers' = producers => TailsGrow
    BY <2>1, SameGrow, CountsKept
  <2> DEFINE Busy == {"optimistic", "claim", "again", "correct", "head"}
  <2>4. ASSUME TailsGrow, me[t].pc \notin Busy, me'[t].pc \notin Busy
        PROVE  ClaimInv'
    BY <2>2, <2>4, ClaimElsewhere
  <2>5. ~Consuming(t)' => me'[t].pc \notin Busy
    BY DEF Consuming, Claiming
  <2>6. \A short : Finish(t, short) => me'[t].pc \notin Busy
    BY <2>1, <2>5, FinishIs
  <2>7. CASE Silent(t)
    <3>1. Calm(t) /\ TailsGrow
      BY <2>3, <2>7 DEF Silent
    <3>2. me[t].pc \notin Busy /\ me'[t].pc \notin Busy
      BY <3>1 DEF Calm, Consuming, Taking, Moving, PoolSteps, Claiming
    <3> QED  BY <2>4, <3>1, <3>2
  <2>8. CASE Enqueue(t)
    <3>1. /\ Go(t, "search", [me[t] EXCEPT !.items = Head(todo[t]).items])
          /\ producers' = producers /\ me[t].pc = "idle"
      BY <2>8 DEF Enqueue, queueVars, At
    <3>2. "items" \in Kept
      BY DEF Kept
    <3>3. Sets(t, "search", "items", Head(todo[t]).items)
      BY <2>1, <3>1, <3>2, GoSetsOne
    <3> QED  BY <2>3, <2>4, <3>1, <3>3 DEF Sets
  <2>9. CASE Refused(t)
    <3>1. Finish(t, FALSE) /\ producers' = producers /\ me[t].pc \in {"refused", "unindex"}
      BY <2>9 DEF Refused, queueVars, At
    <3> QED  BY <2>3, <2>4, <2>6, <3>1
  <2>10. CASE Publish(t)
    <3>1. Finish(t, FALSE) /\ me[t].pc = "first" /\ TailsGrow
      BY Zenon, <2>10, PublishGrows DEF Publish, At
    <3> QED  BY Zenon, <2>4, <2>6, <3>1
  <2>11. CASE Dequeue(t)
    <3>1. producers' = producers /\ me[t].pc = "idle"
      BY <2>11 DEF Dequeue, queueVars, At
    <3>2. Finish(t, FALSE) \/ me'[t].pc \in {"rotate", "tail"}
      BY <2>1, <2>11, DequeueIs
    <3> QED  BY <2>3, <2>4, <2>6, <3>1, <3>2
  <2>12. CASE update_current_producer_after_rotation(t)
    <3>1. producers' = producers /\ me[t].pc = "rotate"
      BY <2>12 DEF update_current_producer_after_rotation, At
    <3>2. me[t].listTail \in Listed
      BY <2>1, <3>1 DEF RingOK
    <3>3. \E new \in Listed : Sets(t, "tail", "ptr", new)
      BY <2>1, <2>12, <3>2, RotateIs, Zenon
    <3>4. me'[t].pc = "tail"
      BY <3>3 DEF Sets
    <3> QED  BY <2>3, <2>4, <3>1, <3>4
  <2>13. CASE Dequeued(t)
    <3>1. producers' = producers /\ me[t].pc = "dequeued"
      BY <2>13 DEF Dequeued, At
    <3>2. (\E short : Finish(t, short)) \/ me'[t].pc = "tail"
      BY <2>1, <2>13, DequeuedIs
    <3> QED  BY <2>3, <2>4, <2>6, <3>1, <3>2
  <2>14. \/ Silent(t)
         \/ UNCHANGED hashVars /\ (Enqueue(t) \/ Refused(t) \/ Publish(t) \/ Walking(t))
    BY <1>1, <2>1, StepIs
  <2>15. CASE LoadTail(t) \/ LoadOvercommit(t) \/ LoadCount(t) \/ Claim(t) \/ LoadAgain(t)
                \/ Correct(t) \/ TakeHead(t)
    BY <2>2, <2>15, ClaimStep
  <2> QED  BY <2>7, <2>8, <2>9, <2>10, <2>11, <2>12, <2>13, <2>14, <2>15 DEF Walking
<1>2. CASE UNCHANGED vars
  <2>1. UNCHANGED <<me, producers>>
    BY <1>2 DEF vars, queueVars
  <2> QED  BY <2>1 DEF ClaimInv
<1> QED  BY <1>1, <1>2 DEF Next, Terminated

\* Nothing is claimed at first.
LEMMA ClaimInit ==
  ASSUME Init
  PROVE  ClaimInv
<1> SUFFICES ASSUME NEW p \in Names
             PROVE  Claimable(producers[p], me, p)
  BY DEF ClaimInv
<1>1. /\ producers[p].tailIndex = 0 /\ producers[p].headIndex = 0
      /\ producers[p].dequeueOvercommit = 0 /\ producers[p].dequeueOptimisticCount = 0
  BY DEF Init, ImplicitProducer
<1>2. \A t \in Threads : me[t].pc = "idle"
  BY DEF Init, Idle
<1>3. \A t \in Threads : Pending(me, p)[t] = 0 /\ Owed(me, p, 0)[t] = 0
  BY <1>2 DEF Pending, Owed
<1>4. ASSUME NEW a, \A t \in Threads : a[t] = 0
      PROVE  IsFiniteSet(Items(a)) /\ Total(a) = 0
  <2>1. \A x : x \notin Items(a)
    BY <1>4, ItemsAre
  <2>2. Items(a) = {}
    BY <2>1
  <2> QED  BY <2>2, FS_EmptySet DEF Total
<1>5. /\ IsFiniteSet(Items(Pending(me, p))) /\ Total(Pending(me, p)) = 0
      /\ Total(Owed(me, p, 0)) = 0
  BY <1>3, <1>4
<1>6. \A t \in Threads : ~Asks(me, t, p)
  BY <1>2 DEF Asks
<1>7. Covered(producers[p], me, p, 0)
  BY <1>1, <1>5, <1>6 DEF Covered
<1>8. 0 \in 0 .. producers[p].dequeueOptimisticCount
  BY <1>1
<1> QED  BY <1>1, <1>2, <1>5, <1>6, <1>7, <1>8 DEF Claimable

\* However many consumers race for the items of a producer (ImplicitProducer::dequeue and
\* dequeue_bulk, with their optimistic count, the second look at the tail and the
\* overcommit), headIndex never passes tailIndex, and a thread that is about to advance
\* it advances it over published items only.
THEOREM OnlyPublishedItems == Spec => []ClaimsPublished
<1>1. ASSUME QueueInv, ClaimInv
      PROVE  ClaimsPublished
  <2>1. ASSUME NEW p \in Names
        PROVE  /\ producers[p].headIndex <= producers[p].tailIndex
               /\ \A t \in Threads : me[t].ptr = p /\ me[t].pc = "head" =>
                    producers[p].headIndex + me[t].n <= producers[p].tailIndex
    <3>1. Counted(producers[p], me, p) /\ Claimable(producers[p], me, p)
      BY <1>1, CountedNow DEF ClaimInv
    <3>2. /\ producers[p].headIndex \in Nat /\ producers[p].tailIndex \in Nat
          /\ IsFiniteSet(Items(Pending(me, p)))
      BY <3>1 DEF Counted, Claimable
    <3>3. PICK b \in 0 .. producers[p].dequeueOptimisticCount : Covered(producers[p], me, p, b)
      BY <3>1 DEF Claimable
    <3> DEFINE a == Owed(me, p, b)
    <3>4. producers[p].headIndex + Total(a) <= producers[p].tailIndex
      BY <3>3 DEF Covered
    <3>5. IsFiniteSet(Items(a)) /\ Total(a) \in Nat /\ \A t \in Threads : a[t] \in Nat
      BY <3>1, <3>2, AmountsAre, SumsAre
    <3>6. ASSUME NEW t \in Threads, me[t].ptr = p, me[t].pc = "head"
          PROVE  me[t].n <= Total(a)
      <4> DEFINE c == [u \in Threads |-> IF u = t THEN 0 ELSE a[u]]
      <4>1. a[t] = me[t].n
        BY <3>6 DEF Owed
      <4>2. /\ c[t] = 0 /\ \A u \in Threads \ {t} : c[u] = a[u]
            /\ \A u \in Threads : c[u] \in Nat
        BY <3>5
      <4> HIDE DEF a, c
      <4>3. Total(c) \in Nat /\ Total(c) = Total(a) - a[t] + c[t]
        BY <3>5, <4>2, TotalChanges
      <4>4. a[t] \in Nat
        BY <3>5
      <4>5. a[t] <= Total(a)
        BY <3>5, <4>2, <4>3, <4>4
      <4> QED  BY <4>1, <4>5 DEF a
    <3>7. \A t \in Threads : me[t].ptr = p /\ me[t].pc = "head" => me[t].n \in Nat
      BY <3>1 DEF Counted
    <3> HIDE DEF a
    <3> QED  BY <3>2, <3>4, <3>5, <3>6, <3>7
  <2>2. \A t \in Threads : me[t].pc = "head" => me[t].ptr \in Names
    <3> SUFFICES ASSUME NEW t \in Threads, me[t].pc = "head"
                 PROVE  me[t].ptr \in Names
      OBVIOUS
    <3>1. Consuming(t) /\ RingOK(t) /\ Listed \subseteq Names
      BY <1>1 DEF Consuming, Claiming, QueueInv, RingInv
    <3> QED  BY <3>1 DEF RingOK, OnRing
  <2> QED  BY <2>1, <2>2 DEF ClaimsPublished
<1>2. Init => ClaimInv
  BY ClaimInit
<1>3. QueueInv /\ QueueInv' /\ ClaimInv /\ [Next]_vars => ClaimInv'
  BY ClaimNext
<1> QED  BY <1>1, <1>2, <1>3, QueueInvariant, PTL DEF Spec
=============================================================================
