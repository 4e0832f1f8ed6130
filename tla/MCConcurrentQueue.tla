------------------------- MODULE MCConcurrentQueue -------------------------
(* Instances of ConcurrentQueue: blocks of two items, a block index of two *)
(* entries, a rotation after two items, a first hash table of two slots.   *)
EXTENDS ConcurrentQueue

CONSTANTS t1, t2, t3

Put(phase, t, first, n) ==
  [op |-> "put", phase |-> phase, items |-> [i \in 1 .. n |-> <<t, first + i - 1>>]]
Take(phase, max) == [op |-> "take", phase |-> phase, max |-> max, single |-> FALSE]
TakeOne(phase) == [op |-> "take", phase |-> phase, max |-> 1, single |-> TRUE]

Work(pool, failing, of1, of2, of3) ==
  [pool |-> pool, hash |-> 2, failing |-> failing,
   calls |-> t1 :> of1 @@ t2 :> of2 @@ t3 :> of3,
   offset |-> t1 :> 0 @@ t2 :> 1 @@ t3 :> 0]

MCHashOf == t1 :> 0 @@ t2 :> 0 @@ t3 :> 1

\* Two more threads find their producers while the hash grows; the first finds its own
\* in the older table.
Register == Work(3, FALSE, <<Put(1, t1, 1, 1), Put(2, t1, 2, 1)>>, <<Put(2, t2, 1, 1)>>,
                 <<Put(2, t3, 1, 1)>>)

\* Two threads find their producers and an allocation may fail.
NoMemory == Work(3, TRUE, <<Put(1, t1, 1, 1), Put(1, t1, 2, 1)>>, <<Put(1, t2, 1, 1)>>, << >>)

\* One producer that fills blocks and has them back, and its consumer.
Reuse == Work(2, FALSE, <<Put(1, t1, 1, 3), Put(1, t1, 4, 1), Put(1, t1, 5, 2)>>, << >>,
              <<Take(1, 2), TakeOne(1), Take(1, 3)>>)

\* Two consumers claim the same items while the producer adds one.
Overcommit == Work(2, FALSE, <<Put(1, t1, 1, 3), Put(2, t1, 4, 1)>>, <<Take(2, 2)>>, <<Take(2, 2)>>)

\* Two producers with too few blocks for both while the consumer gives blocks back.
Shortage == Work(3, FALSE, <<Put(1, t1, 1, 4), Put(4, t1, 5, 3)>>,
                 <<Put(2, t2, 1, 2), Put(4, t2, 3, 3)>>, <<Take(3, 4), Take(4, 2)>>)

\* Two producers, one consumer that goes from one to the other.
Rotation == Work(3, FALSE, <<Put(1, t1, 1, 2), Put(3, t1, 3, 1)>>,
                 <<Put(2, t2, 1, 1), Put(3, t2, 2, 1)>>, <<Take(3, 1), TakeOne(3), Take(3, 3)>>)

MCWorkloads == {Register, NoMemory, Reuse, Overcommit, Shortage, Rotation}
=============================================================================
