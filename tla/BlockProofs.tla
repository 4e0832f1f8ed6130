---------------------------- MODULE BlockProofs ----------------------------
(***************************************************************************)
(* Proofs about the blocks of ConcurrentQueue, for every set of threads,   *)
(* every pool and every workload: the lock-free FreeList loses no block    *)
(* and hands none out twice however its calls interleave, the block index  *)
(* of a producer has the block of every item that is not yet emptied, and  *)
(* so every block is in one place (BlocksAccounted).  The two invariants   *)
(* lean on each other: a block is freed once because its entry is emptied  *)
(* once, and an entry's block stays its own because it is in no other      *)
(* place.                                                                  *)
(***************************************************************************)
EXTENDS ConcurrentQueueProofs

-----------------------------------------------------------------------------
(* Where the blocks are, and the free list.                                *)

PoolBlocks == 1 .. Blocks

\* Steps of FreeList::try_get after it has a node, and of FreeList::add.
Getting == {"refs", "hold", "next", "swap", "taken"}
Flagging == {"link", "linknext", "linkrefs"}
Adding == {"add", "linkswap", "unlink"} \cup Flagging

\* A call of the pool that returns to back.
CallsPool(m, back) == m.pc \in PoolSteps /\ m.back = back

\* All threads have the same locals.
Locals == DOMAIN Idle
Shaped == DOMAIN me = Threads /\ \A t \in Threads : DOMAIN me[t] = Locals

\* A thread's locals during a call of the pool.
PoolOK(m) ==
  /\ m.inGet \in BOOLEAN
  /\ m.pc \in Getting => m.head \in PoolBlocks
  /\ m.pc = "drop" => m.node \in PoolBlocks /\ m.head \in PoolBlocks \cup {None}
  /\ m.pc \in {"requisition", "take", "get", "drop"} \cup Getting => m.back = "attach" /\ ~m.inGet
  /\ m.pc \in Adding => m.node \in PoolBlocks
  /\ m.pc = "add" => ~m.inGet
  /\ m.pc \in Adding => IF m.inGet THEN m.back = "attach" /\ m.head \in PoolBlocks \cup {None}
                                   ELSE m.back \in {"unindex", "freed"}
  /\ m.pc \notin PoolSteps => ~m.inGet
  /\ m.pc = "attach" => m.block \in PoolBlocks \cup {None}
  /\ m.pc = "hold" => m.refs \in Nat /\ REFS_MASK(m.refs) # 0
  /\ m.pc \in {"linknext", "linkrefs", "linkswap", "unlink"} => m.listHead \in PoolBlocks \cup {None}
  /\ m.pc = "swap" => m.next \in PoolBlocks \cup {None}
  /\ m.freed \in Seq(PoolBlocks) /\ \A i, j \in DOMAIN m.freed : m.freed[i] = m.freed[j] => i = j
  /\ m.freed # << >> => m.pc = "unindex" \/ CallsPool(m, "unindex")

\* The block in a thread's hand.
Hand(m) ==
  IF m.pc \in Adding THEN m.node
  ELSE IF m.pc = "taken" THEN m.head ELSE IF m.pc = "attach" THEN m.block ELSE None

\* A block is in the unused part of the pool, in a thread's hand, among those a thread
\* is about to free, in an entry of a block index; or in none of these places.
Unused(b) == b > initialBlockPoolIndex \/ b > initialBlockPoolSize
InHand(t, b) == Hand(me[t]) = b
InFreed(t, b) == \E i \in DOMAIN me[t].freed : me[t].freed[i] = b
InEntry(p, s, b) == producers[p].value[s] = b
Loose(b) ==
  /\ ~Unused(b) /\ \A t \in Threads : ~InHand(t, b) /\ ~InFreed(t, b)
  /\ \A p \in Names : \A s \in Slots : ~InEntry(p, s, b)

\* It is in one of them at most.
OnlyUnused(b) ==
  /\ \A t \in Threads : ~InHand(t, b) /\ ~InFreed(t, b)
  /\ \A p \in Names : \A s \in Slots : ~InEntry(p, s, b)
OnlyHand(t, b) ==
  /\ ~Unused(b) /\ \A u \in Threads : (InHand(u, b) => u = t) /\ ~InFreed(u, b)
  /\ \A p \in Names : \A s \in Slots : ~InEntry(p, s, b)
OnlyFreed(t, b) ==
  /\ ~Unused(b) /\ \A u \in Threads : ~InHand(u, b) /\ (InFreed(u, b) => u = t)
  /\ \A p \in Names : \A s \in Slots : ~InEntry(p, s, b)
OnlyEntry(p, s, b) ==
  /\ ~Unused(b) /\ \A u \in Threads : ~InHand(u, b) /\ ~InFreed(u, b)
  /\ \A r \in Names : \A x \in Slots : InEntry(r, x, b) => r = p /\ x = s
OnePlace(b) ==
  /\ Unused(b) => OnlyUnused(b)
  /\ \A t \in Threads : (InHand(t, b) => OnlyHand(t, b)) /\ (InFreed(t, b) => OnlyFreed(t, b))
  /\ \A p \in Names : \A s \in Slots : InEntry(p, s, b) => OnlyEntry(p, s, b)

\* The threads that hold a reference to b in try_get.
Refers(m, b) ==
  \/ m.pc \in {"next", "swap", "taken"} /\ m.head = b
  \/ m.pc = "drop" /\ m.node = b
Referring(b) == {t \in Threads : Refers(me[t], b)}
References(b) == Cardinality(Referring(b))

\* The list, from its head, is the sequence s.
ChainIs(s) ==
  /\ s \in Seq(PoolBlocks)
  /\ \A i, j \in DOMAIN s : s[i] = s[j] => i = j
  /\ freeListHead = IF s = << >> THEN None ELSE s[1]
  /\ \A i \in DOMAIN s : freeListNext[s[i]] = IF i = Len(s) THEN None ELSE s[i + 1]
ElementOf(s, b) == \E i \in DOMAIN s : s[i] = b

\* The count of a block in a thread's hand: the flag is set and nobody refers to it; it is
\* about to be on the list or was taken off it; or neither.
HeldCount(t, b) ==
  IF me[t].pc \in Flagging THEN freeListRefs[b] = SHOULD_BE_ON_FREELIST /\ Referring(b) = {}
  ELSE IF me[t].pc \in {"linkswap", "unlink", "taken"} THEN freeListRefs[b] = References(b) + 1
  ELSE freeListRefs[b] = References(b)

\* A block that is in no other place is on the list, or it is flagged and somebody who
\* refers to it will put it there.
CountIs(s, b) ==
  /\ Unused(b) => freeListRefs[b] = 0 /\ Referring(b) = {}
  /\ \A t \in Threads : InHand(t, b) => HeldCount(t, b)
  /\ \A t \in Threads : InFreed(t, b) => freeListRefs[b] = References(b)
  /\ \A p \in Names : \A x \in Slots : InEntry(p, x, b) => freeListRefs[b] = References(b)
  /\ ElementOf(s, b) => Loose(b) /\ freeListRefs[b] = References(b) + 1
  /\ Loose(b) /\ ~ElementOf(s, b) =>
       freeListRefs[b] = References(b) + SHOULD_BE_ON_FREELIST /\ Referring(b) # {}

ListIs(s) == ChainIs(s) /\ \A b \in PoolBlocks : OnePlace(b) /\ CountIs(s, b)

\* What a thread has read of a node that it holds is still so.
ReadOK(t) ==
  /\ me[t].pc = "swap" => freeListNext[me[t].head] = me[t].next
  /\ me[t].pc \in {"linkrefs", "linkswap"} => freeListNext[me[t].node] = me[t].listHead

ListTypes ==
  /\ initialBlockPoolIndex \in Nat /\ initialBlockPoolSize \in 0 .. Blocks
  /\ DOMAIN freeListRefs = PoolBlocks /\ DOMAIN freeListNext = PoolBlocks
  /\ \A b \in PoolBlocks : freeListRefs[b] \in Nat /\ freeListNext[b] \in PoolBlocks \cup {None}

FreeInv ==
  /\ Shaped /\ ListTypes /\ \A t \in Threads : PoolOK(me[t]) /\ ReadOK(t)
  /\ \E s \in Seq(PoolBlocks) : ListIs(s)
-----------------------------------------------------------------------------
(* The locals of a thread after a step.                                    *)

\* Go gives one thread the locals it is told.
LEMMA GoMakes ==
  ASSUME Shaped, NEW t \in Threads, NEW pc, NEW m, DOMAIN m = Locals, Go(t, pc, m)
  PROVE  /\ Shaped' /\ \A u \in Threads \ {t} : me'[u] = me[u]
         /\ me'[t].pc = pc /\ \A f \in Locals \ {"pc"} : me'[t][f] = m[f]
<1>1. me' = [me EXCEPT ![t] = [m EXCEPT !.pc = pc]]
  BY DEF Go
<1>2. "pc" \in Locals
  BY DEF Locals, Idle
<1>3. /\ DOMAIN me' = Threads /\ me'[t] = [m EXCEPT !.pc = pc]
      /\ \A u \in Threads \ {t} : me'[u] = me[u]
  BY <1>1 DEF Shaped
<1>4. DOMAIN me'[t] = Locals /\ me'[t].pc = pc /\ \A f \in Locals \ {"pc"} : me'[t][f] = m[f]
  BY <1>2, <1>3
<1> QED  BY <1>3, <1>4 DEF Shaped

\* The locals of a call of the pool.
PoolLocals == {"back", "block", "head", "refs", "next", "node", "listHead", "inGet", "freed"}
\* What Go does to the locals of a call of the pool.
LEMMA GoPool ==
  ASSUME Shaped, NEW t \in Threads, NEW pc, NEW m, DOMAIN m = Locals, Go(t, pc, m)
  PROVE  /\ Shaped' /\ \A u \in Threads \ {t} : me'[u] = me[u]
         /\ me'[t].pc = pc /\ me'[t].back = m.back /\ me'[t].block = m.block
         /\ me'[t].head = m.head /\ me'[t].refs = m.refs /\ me'[t].next = m.next
         /\ me'[t].node = m.node /\ me'[t].listHead = m.listHead /\ me'[t].inGet = m.inGet
         /\ me'[t].freed = m.freed
<1>1. \A f \in PoolLocals : f \in Locals \ {"pc"}
  BY DEF Locals, Idle, PoolLocals
<1>2. \A f \in PoolLocals : me'[t][f] = m[f]
  BY <1>1, GoMakes
<1> QED  BY <1>2, GoMakes DEF PoolLocals

\* Every pool local is one.
LEMMA PoolLocal == PoolLocals \subseteq Locals /\ "pc" \in Locals
BY DEF Locals, Idle, PoolLocals

-----------------------------------------------------------------------------
(* What a step does to a block.                                            *)

Listing == {"linkswap", "unlink", "taken"}
SameFor(t, b) ==
  /\ freeListRefs'[b] = freeListRefs[b] /\ (Unused(b)' <=> Unused(b))
  /\ InHand(t, b)' <=> InHand(t, b)
  /\ InHand(t, b) => /\ me'[t].pc \in Flagging <=> me[t].pc \in Flagging
                     /\ me'[t].pc \in Listing <=> me[t].pc \in Listing
  /\ InFreed(t, b)' <=> InFreed(t, b)
  /\ Refers(me'[t], b) <=> Refers(me[t], b)
  /\ \A p \in Names : \A s \in Slots : InEntry(p, s, b)' <=> InEntry(p, s, b)
Others(t) == \A u \in Threads \ {t} : me'[u] = me[u]

\* References change with the thread that makes the step.
LEMMA ReferringSame ==
  ASSUME NEW t \in Threads, NEW b, Others(t), Refers(me'[t], b) <=> Refers(me[t], b)
  PROVE  Referring(b)' = Referring(b) /\ References(b)' = References(b)
<1>1. \A u \in Threads : Refers(me'[u], b) <=> Refers(me[u], b)
  BY DEF Others
<1>2. Referring(b)' = Referring(b)
  BY <1>1 DEF Referring
<1> QED  BY <1>2 DEF References

\* The references to a block are fewer than the flag.
LEMMA ReferencesAre ==
  ASSUME NEW b
  PROVE  /\ IsFiniteSet(Referring(b)) /\ References(b) \in 0 .. Cardinality(Threads)
         /\ Cardinality(Threads) \in Nat
         /\ SHOULD_BE_ON_FREELIST \in Nat /\ References(b) + 1 < SHOULD_BE_ON_FREELIST
         /\ References(b) = 0 <=> Referring(b) = {}
<1>1. IsFiniteSet(Threads) /\ Cardinality(Threads) \in Nat
  BY PoolAssumption, FS_CardinalityType
<1>2. Referring(b) \subseteq Threads
  BY DEF Referring
<1>3. IsFiniteSet(Referring(b)) /\ Cardinality(Referring(b)) <= Cardinality(Threads)
  BY <1>1, <1>2, FS_Subset
<1>4. Cardinality(Referring(b)) \in Nat /\ (Cardinality(Referring(b)) = 0 <=> Referring(b) = {})
  BY <1>3, FS_CardinalityType, FS_EmptySet
<1> QED  BY <1>1, <1>3, <1>4 DEF References, SHOULD_BE_ON_FREELIST

\* A thread takes a reference.
LEMMA ReferenceAdded ==
  ASSUME NEW t \in Threads, NEW b, Others(t), ~Refers(me[t], b), Refers(me'[t], b)
  PROVE  References(b)' = References(b) + 1 /\ Referring(b)' # {} /\ t \in Referring(b)'
<1>1. \A u \in Threads \ {t} : Refers(me'[u], b) <=> Refers(me[u], b)
  BY DEF Others
<1>2. Referring(b)' = Referring(b) \cup {t} /\ t \notin Referring(b)
  BY <1>1 DEF Referring
<1>3. IsFiniteSet(Referring(b))
  BY ReferencesAre
<1>4. Cardinality(Referring(b) \cup {t}) = Cardinality(Referring(b)) + 1
  BY <1>2, <1>3, FS_AddElement
<1> QED  BY <1>2, <1>4 DEF References

\* A thread gives its reference back.
LEMMA ReferenceDropped ==
  ASSUME NEW t \in Threads, NEW b, Others(t), Refers(me[t], b), ~Refers(me'[t], b)
  PROVE  References(b) = References(b)' + 1 /\ References(b)' \in Nat
         /\ (References(b) = 1 <=> Referring(b)' = {})
<1>1. \A u \in Threads \ {t} : Refers(me'[u], b) <=> Refers(me[u], b)
  BY DEF Others
<1>2. Referring(b)' = Referring(b) \ {t} /\ t \in Referring(b)
  BY <1>1 DEF Referring
<1>3. IsFiniteSet(Referring(b))
  BY ReferencesAre
<1>4. IsFiniteSet(Referring(b) \ {t}) /\ Cardinality(Referring(b) \ {t}) = Cardinality(Referring(b)) - 1
  BY <1>2, <1>3, FS_RemoveElement
<1>5. Cardinality(Referring(b) \ {t}) \in Nat /\ Cardinality(Referring(b)) \in Nat
      /\ (Cardinality(Referring(b) \ {t}) = 0 <=> Referring(b) \ {t} = {})
  BY <1>3, <1>4, FS_CardinalityType, FS_EmptySet
<1> QED  BY <1>2, <1>4, <1>5 DEF References

\* Nothing happens to a block that the step does not touch.
LEMMA BlockSame ==
  ASSUME NEW t \in Threads, NEW b \in PoolBlocks, Others(t), SameFor(t, b),
         NEW s, NEW z, ElementOf(s, b) <=> ElementOf(z, b), OnePlace(b), CountIs(s, b)
  PROVE  OnePlace(b)' /\ CountIs(z, b)' /\ (Loose(b)' <=> Loose(b))
<1>1. Referring(b)' = Referring(b) /\ References(b)' = References(b)
  BY ReferringSame DEF SameFor
<1>2. \A u \in Threads : /\ InHand(u, b)' <=> InHand(u, b)
                         /\ InFreed(u, b)' <=> InFreed(u, b)
  BY DEF SameFor, Others, InHand, InFreed
<1>3. Loose(b)' <=> Loose(b)
  BY <1>2 DEF Loose, SameFor
<1>4. OnePlace(b)'
  BY <1>2 DEF OnePlace, OnlyUnused, OnlyHand, OnlyFreed, OnlyEntry, SameFor
<1>5. \A u \in Threads : InHand(u, b) =>
        /\ me'[u].pc \in Flagging <=> me[u].pc \in Flagging
        /\ me'[u].pc \in Listing <=> me[u].pc \in Listing
  BY DEF SameFor, Others
<1>6. \A u \in Threads : InHand(u, b) => (HeldCount(u, b)' <=> HeldCount(u, b))
  BY <1>1, <1>5 DEF HeldCount, SameFor, Listing
<1>7. CountIs(z, b)'
  BY <1>1, <1>2, <1>3, <1>6 DEF CountIs, SameFor, ElementOf
<1> QED  BY <1>3, <1>4, <1>7

\* What a step must keep of a block's place.
PlaceSame(t, b) ==
  /\ Unused(b)' <=> Unused(b)
  /\ InHand(t, b)' <=> InHand(t, b)
  /\ InFreed(t, b)' <=> InFreed(t, b)
  /\ \A p \in Names : \A s \in Slots : InEntry(p, s, b)' <=> InEntry(p, s, b)

\* A block stays where it is if it does for the thread that makes the step.
LEMMA PlaceKept ==
  ASSUME NEW t \in Threads, NEW b, Others(t), PlaceSame(t, b), OnePlace(b)
  PROVE  /\ OnePlace(b)' /\ (Loose(b)' <=> Loose(b))
         /\ \A u \in Threads : (InHand(u, b)' <=> InHand(u, b)) /\ (InFreed(u, b)' <=> InFreed(u, b))
<1>1. \A u \in Threads : /\ InHand(u, b)' <=> InHand(u, b)
                         /\ InFreed(u, b)' <=> InFreed(u, b)
  BY DEF PlaceSame, Others, InHand, InFreed
<1>2. Loose(b)' <=> Loose(b)
  BY <1>1 DEF Loose, PlaceSame
<1>3. OnePlace(b)'
  BY <1>1 DEF OnePlace, OnlyUnused, OnlyHand, OnlyFreed, OnlyEntry, PlaceSame
<1> QED  BY <1>1, <1>2, <1>3

\* A step keeps the list if it keeps what is known of every block that it touches.
LEMMA FreeTouch ==
  ASSUME NEW t \in Threads, NEW s, NEW z \in Seq(PoolBlocks),
         FreeInv, ListIs(s), Shaped', Others(t), ListTypes', ChainIs(z)',
         \A b \in PoolBlocks : \/ SameFor(t, b) /\ (ElementOf(s, b) <=> ElementOf(z, b))
                               \/ OnePlace(b)' /\ CountIs(z, b)',
         PoolOK(me'[t]), \A u \in Threads : ReadOK(u)'
  PROVE  FreeInv'
<1>1. \A b \in PoolBlocks : OnePlace(b)' /\ CountIs(z, b)'
  BY BlockSame DEF ListIs
<1>2. ListIs(z)'
  BY <1>1 DEF ListIs, PoolBlocks
<1>3. \A u \in Threads : PoolOK(me'[u])
  BY DEF Others, FreeInv
<1>4. \A u \in Threads : PoolOK(me[u])'
  BY <1>3 DEF PoolOK
<1>5. \E x \in Seq(PoolBlocks) : ListIs(x)'
  BY <1>2
<1>6. (\E x \in Seq(PoolBlocks) : ListIs(x))'
  BY <1>5 DEF PoolBlocks
<1> QED  BY <1>4, <1>6 DEF FreeInv

\* What the other threads have read is still so when the list's pointers are not changed.
LEMMA ReadKept ==
  ASSUME NEW t \in Threads, Others(t), freeListNext' = freeListNext, ReadOK(t)',
         \A u \in Threads : ReadOK(u)
  PROVE  \A u \in Threads : ReadOK(u)'
BY DEF Others, ReadOK

\* A step that touches no block.
LEMMA FreeStay ==
  ASSUME NEW t \in Threads, FreeInv, Shaped', Others(t),
         UNCHANGED <<freeListHead, freeListRefs, freeListNext, initialBlockPoolSize>>,
         initialBlockPoolIndex' \in Nat, PoolOK(me'[t]), ReadOK(t)',
         \A b \in PoolBlocks : SameFor(t, b)
  PROVE  FreeInv'
<1>1. PICK s \in Seq(PoolBlocks) : ListIs(s)
  BY DEF FreeInv
<1>2. ChainIs(s)'
  BY <1>1 DEF ListIs, ChainIs, PoolBlocks
<1>3. ListTypes'
  BY DEF ListTypes, FreeInv, PoolBlocks
<1>4. \A u \in Threads : ReadOK(u)'
  BY ReadKept DEF FreeInv
<1> QED  BY <1>1, <1>2, <1>3, <1>4, FreeTouch

-----------------------------------------------------------------------------
(* The steps of the pool that touch no block.                              *)

\* nullptr is no block.
LEMMA NotBlock == None \notin PoolBlocks /\ PoolBlocks \subseteq Nat
BY PoolAssumption DEF PoolBlocks

\* Same hand, same reference.
LEMMA SameForAll ==
  ASSUME NEW t \in Threads, UNCHANGED <<freeListRefs, initialPool, producers>>,
         me'[t].freed = me[t].freed, Hand(me'[t]) = Hand(me[t]),
         me[t].pc \in Adding \cup {"taken", "attach"} =>
           /\ me'[t].pc \in Flagging <=> me[t].pc \in Flagging
           /\ me'[t].pc \in Listing <=> me[t].pc \in Listing,
         \A b \in PoolBlocks : Refers(me'[t], b) <=> Refers(me[t], b)
  PROVE  \A b \in PoolBlocks : SameFor(t, b)
BY NotBlock DEF SameFor, Unused, InHand, InFreed, InEntry, Hand, initialPool

\* The loads of the pool keep the invariant.
LEMMA LoadStep ==
  ASSUME FreeInv, NEW t \in Threads, UNCHANGED <<poolVars, producers>>,
         PoolLoad(t) \/ GetHead(t) \/ GetRefs(t) \/ GetNext(t) \/ LinkHead(t)
  PROVE  FreeInv'
<1>1. Shaped /\ DOMAIN me[t] = Locals /\ PoolOK(me[t]) /\ ReadOK(t)
  BY DEF FreeInv, Shaped
<1>2. UNCHANGED <<freeListHead, freeListRefs, freeListNext, initialPool, initialBlockPoolSize,
                  initialBlockPoolIndex>> /\ initialBlockPoolIndex \in Nat
  BY DEF poolVars, initialPool, FreeInv, ListTypes
<1>3. freeListHead \in PoolBlocks \cup {None}
  <2>1. PICK s \in Seq(PoolBlocks) : ListIs(s)
    BY DEF FreeInv
  <2> QED  BY <2>1 DEF ListIs, ChainIs
<1>4. \A b \in PoolBlocks : freeListRefs[b] \in Nat /\ freeListNext[b] \in PoolBlocks \cup {None}
  BY DEF FreeInv, ListTypes
<1>5. ASSUME NEW pc, NEW m, DOMAIN m = Locals, Go(t, pc, m), PoolOK(me'[t]), ReadOK(t)',
             m.freed = me[t].freed, Hand(me'[t]) = Hand(me[t]),
             me[t].pc \in Adding \cup {"taken", "attach"} =>
               /\ me'[t].pc \in Flagging <=> me[t].pc \in Flagging
               /\ me'[t].pc \in Listing <=> me[t].pc \in Listing,
             \A b \in PoolBlocks : Refers(me'[t], b) <=> Refers(me[t], b)
      PROVE  FreeInv'
  <2>1. Shaped' /\ Others(t) /\ me'[t].freed = me[t].freed
    BY <1>1, <1>5, GoPool DEF Others
  <2>2. \A b \in PoolBlocks : SameFor(t, b)
    BY <1>2, <1>5, <2>1, SameForAll
  <2> QED  BY <1>2, <1>5, <2>1, <2>2, FreeStay
<1> USE PoolLocal DEF PoolLocals
<1>6. CASE PoolLoad(t)
  <2>1. PICK pc \in {"get", "take"} : Go(t, pc, me[t])
    BY <1>6 DEF PoolLoad
  <2>2. me[t].pc = "requisition"
    BY <1>6 DEF PoolLoad, At
  <2> QED
    BY <1>1, <2>1, <2>2, <1>5, GoPool
    DEF PoolOK, ReadOK, Hand, Refers, Adding, Flagging, Getting, PoolSteps, CallsPool
<1>7. CASE GetHead(t)
  <2>1. me[t].pc = "get"
    BY <1>7 DEF GetHead, At
  <2>2. CASE freeListHead = None
    <3>1. Go(t, "attach", [me[t] EXCEPT !.block = None])
      BY <1>1, <1>7, <2>1, <2>2 DEF GetHead, Return, PoolOK
    <3> QED
      BY <1>1, <2>1, <3>1, <1>5, GoPool
      DEF PoolOK, ReadOK, Hand, Refers, Adding, Flagging, Getting, PoolSteps, CallsPool
  <2>3. CASE freeListHead # None
    <3>1. Go(t, "refs", [me[t] EXCEPT !.head = freeListHead]) /\ freeListHead \in PoolBlocks
      BY <1>3, <1>7, <2>3 DEF GetHead
    <3> QED
      BY <1>1, <2>1, <3>1, <1>5, GoPool
      DEF PoolOK, ReadOK, Hand, Refers, Adding, Flagging, Getting, PoolSteps, CallsPool
  <2> QED  BY <2>2, <2>3
<1>8. CASE GetRefs(t)
  <2>1. me[t].pc = "refs"
    BY <1>8 DEF GetRefs, At
  <2> DEFINE refs == freeListRefs[me[t].head]
  <2>2. refs \in Nat
    BY <1>1, <1>4, <2>1 DEF PoolOK, Getting
  <2>3. \/ Go(t, "get", me[t])
        \/ REFS_MASK(refs) # 0 /\ Go(t, "hold", [me[t] EXCEPT !.refs = refs])
    BY <1>8 DEF GetRefs
  <2> HIDE DEF refs
  <2> QED
    BY <1>1, <2>1, <2>2, <2>3, <1>5, GoPool
    DEF PoolOK, ReadOK, Hand, Refers, Adding, Flagging, Getting, PoolSteps, CallsPool
<1>9. CASE GetNext(t)
  <2>1. me[t].pc = "next" /\ Go(t, "swap", [me[t] EXCEPT !.next = freeListNext[me[t].head]])
    BY <1>9 DEF GetNext, At
  <2>2. freeListNext[me[t].head] \in PoolBlocks \cup {None}
    BY <1>1, <1>4, <2>1 DEF PoolOK, Getting
  <2> QED
    BY <1>1, <1>2, <2>1, <2>2, <1>5, GoPool
    DEF PoolOK, ReadOK, Hand, Refers, Adding, Flagging, Getting, PoolSteps, CallsPool
<1>10. CASE LinkHead(t)
  <2>1. me[t].pc = "link" /\ Go(t, "linknext", [me[t] EXCEPT !.listHead = freeListHead])
    BY <1>10 DEF LinkHead, At
  <2> QED
    BY <1>1, <1>3, <2>1, <1>5, GoPool
    DEF PoolOK, ReadOK, Hand, Refers, Adding, Flagging, Getting, Listing, PoolSteps, CallsPool
<1> QED  BY <1>6, <1>7, <1>8, <1>9, <1>10
-----------------------------------------------------------------------------
(* The steps of the pool that touch a block.                               *)

\* A block that a thread holds, one that it lets loose, and all the others.
LEMMA HoldsIt ==
  ASSUME NEW t \in Threads, NEW c \in PoolBlocks, NEW z, InHand(t, c)', OnlyHand(t, c)',
         HeldCount(t, c)', ~ElementOf(z, c)
  PROVE  OnePlace(c)' /\ CountIs(z, c)'
<1>1. ~Loose(c)'
  BY DEF Loose
<1> QED  BY <1>1 DEF OnePlace, CountIs, OnlyHand, ElementOf

\* A block that nobody has: on the list, or flagged.
LEMMA IsLoose ==
  ASSUME NEW c \in PoolBlocks, NEW z, Loose(c)',
         IF ElementOf(z, c) THEN freeListRefs'[c] = References(c)' + 1
         ELSE freeListRefs'[c] = References(c)' + SHOULD_BE_ON_FREELIST /\ Referring(c)' # {}
  PROVE  OnePlace(c)' /\ CountIs(z, c)'
BY DEF OnePlace, CountIs, Loose, ElementOf

\* Nothing but hands changes.
HandsOnly(t) == Others(t) /\ me'[t].freed = me[t].freed /\ UNCHANGED <<initialPool, producers>>

\* A thread takes a block that nobody has.
LEMMA HandTakes ==
  ASSUME NEW t \in Threads, NEW c \in PoolBlocks, HandsOnly(t), Loose(c), InHand(t, c)'
  PROVE  OnlyHand(t, c)'
BY DEF HandsOnly, Others, Loose, OnlyHand, InHand, InFreed, InEntry, Unused, initialPool

\* A thread lets go of the block in its hand.
LEMMA HandDrops ==
  ASSUME NEW t \in Threads, NEW c \in PoolBlocks, HandsOnly(t), OnlyHand(t, c), ~InHand(t, c)'
  PROVE  Loose(c)'
BY DEF HandsOnly, Others, Loose, OnlyHand, InHand, InFreed, InEntry, Unused, initialPool

\* A thread keeps the block in its hand.
LEMMA HandKeeps ==
  ASSUME NEW t \in Threads, NEW c \in PoolBlocks, HandsOnly(t), OnlyHand(t, c), InHand(t, c)'
  PROVE  OnlyHand(t, c)'
BY DEF HandsOnly, Others, Loose, OnlyHand, InHand, InFreed, InEntry, Unused, initialPool

\* The blocks that the thread does not deal with are as they were.
LEMMA NotInHand ==
  ASSUME NEW t \in Threads, HandsOnly(t), NEW c,
         Hand(me[t]) \in {None, c}, Hand(me'[t]) \in {None, c},
         \A b \in PoolBlocks \ {c} :
           freeListRefs'[b] = freeListRefs[b] /\ (Refers(me'[t], b) <=> Refers(me[t], b))
  PROVE  \A b \in PoolBlocks \ {c} : SameFor(t, b)
<1> SUFFICES ASSUME NEW b \in PoolBlocks \ {c} PROVE SameFor(t, b)
  OBVIOUS
<1>1. b # None
  BY NotBlock
<1>2. Unused(b)' <=> Unused(b)
  BY DEF HandsOnly, Unused, initialPool
<1>3. ~InHand(t, b)' /\ ~InHand(t, b)
  BY <1>1 DEF InHand
<1>4. InFreed(t, b)' <=> InFreed(t, b)
  BY DEF HandsOnly, InFreed
<1>5. \A p \in Names : \A s \in Slots : InEntry(p, s, b)' <=> InEntry(p, s, b)
  BY DEF HandsOnly, InEntry
<1> QED  BY <1>2, <1>3, <1>4, <1>5 DEF SameFor

\* The invariant's parts, for a thread and a list.
LEMMA FreeIs ==
  ASSUME FreeInv, NEW t \in Threads
  PROVE  /\ Shaped /\ DOMAIN me[t] = Locals /\ ListTypes /\ PoolOK(me[t]) /\ ReadOK(t)
         /\ \A u \in Threads : ReadOK(u)
         /\ \E s \in Seq(PoolBlocks) : ListIs(s)
BY DEF FreeInv, Shaped

\* The first node taken off a list; a node put before it.
LEMMA TailChain ==
  ASSUME NEW s \in Seq(PoolBlocks), ChainIs(s), s # << >>, freeListNext' = freeListNext,
         freeListHead' = freeListNext[s[1]]
  PROVE  /\ Tail(s) \in Seq(PoolBlocks) /\ ChainIs(Tail(s))' /\ ~ElementOf(Tail(s), s[1])
         /\ \A b : b # s[1] => (ElementOf(Tail(s), b) <=> ElementOf(s, b))
<1> DEFINE z == Tail(s)
<1>1. /\ z \in Seq(PoolBlocks) /\ Len(z) = Len(s) - 1 /\ Len(s) \in Nat \ {0}
      /\ \A i \in 1 .. Len(z) : z[i] = s[i + 1]
      /\ DOMAIN s = 1 .. Len(s) /\ DOMAIN z = 1 .. Len(z)
  OBVIOUS
<1> HIDE DEF z
<1>2. \A i, j \in DOMAIN z : z[i] = z[j] => i = j
  BY <1>1 DEF ChainIs
<1>3. freeListHead' = IF z = << >> THEN None ELSE z[1]
  <2>1. z = << >> <=> Len(z) = 0
    BY <1>1
  <2>2. freeListHead' = IF 1 = Len(s) THEN None ELSE s[2]
    BY <1>1 DEF ChainIs
  <2> QED  BY <1>1, <2>1, <2>2
<1>4. \A i \in DOMAIN z : freeListNext'[z[i]] = IF i = Len(z) THEN None ELSE z[i + 1]
  <2> SUFFICES ASSUME NEW i \in 1 .. Len(z)
               PROVE  freeListNext[z[i]] = IF i = Len(z) THEN None ELSE z[i + 1]
    BY <1>1
  <2>1. i + 1 \in DOMAIN s /\ z[i] = s[i + 1]
    BY <1>1
  <2>2. freeListNext[s[i + 1]] = IF i + 1 = Len(s) THEN None ELSE s[i + 2]
    BY <2>1 DEF ChainIs
  <2>3. i # Len(z) => z[i + 1] = s[i + 2]
    BY <1>1
  <2> QED  BY <1>1, <2>1, <2>2, <2>3
<1>5. ~ElementOf(z, s[1])
  BY <1>1 DEF ElementOf, ChainIs
<1>6. \A b : b # s[1] => (ElementOf(z, b) <=> ElementOf(s, b))
  <2> SUFFICES ASSUME NEW b, b # s[1] PROVE ElementOf(z, b) <=> ElementOf(s, b)
    OBVIOUS
  <2>1. ASSUME NEW i \in DOMAIN z, z[i] = b PROVE ElementOf(s, b)
    <3>1. i + 1 \in DOMAIN s /\ s[i + 1] = b
      BY <1>1, <2>1
    <3> QED  BY <3>1 DEF ElementOf
  <2>2. ASSUME NEW i \in DOMAIN s, s[i] = b PROVE ElementOf(z, b)
    <3>1. i - 1 \in DOMAIN z /\ z[i - 1] = s[i]
      BY <1>1, <2>2
    <3> QED  BY <2>2, <3>1 DEF ElementOf
  <2> QED  BY <2>1, <2>2 DEF ElementOf
<1>7. ChainIs(z)'
  BY <1>1, <1>2, <1>3, <1>4 DEF ChainIs, PoolBlocks
<1> QED  BY <1>1, <1>5, <1>6, <1>7 DEF z

\* A node put before the head makes a longer list.
LEMMA LongerChain ==
  ASSUME NEW s \in Seq(PoolBlocks), ChainIs(s), NEW c \in PoolBlocks, ~ElementOf(s, c),
         freeListNext' = freeListNext, freeListHead' = c, freeListNext[c] = freeListHead
  PROVE  /\ <<c>> \o s \in Seq(PoolBlocks) /\ ChainIs(<<c>> \o s)' /\ ElementOf(<<c>> \o s, c)
         /\ \A b : b # c => (ElementOf(<<c>> \o s, b) <=> ElementOf(s, b))
<1> DEFINE z == <<c>> \o s
<1>1. /\ z \in Seq(PoolBlocks) /\ Len(z) = Len(s) + 1 /\ Len(s) \in Nat
      /\ z[1] = c /\ z # << >> /\ \A i \in 2 .. Len(z) : z[i] = s[i - 1]
      /\ DOMAIN s = 1 .. Len(s) /\ DOMAIN z = 1 .. Len(z)
  OBVIOUS
<1> HIDE DEF z
<1>2. \A i \in 1 .. Len(s) : s[i] # c
  BY <1>1 DEF ElementOf
<1>3. \A i, j \in DOMAIN z : z[i] = z[j] => i = j
  <2> SUFFICES ASSUME NEW i \in 1 .. Len(z), NEW j \in 1 .. Len(z), z[i] = z[j] PROVE i = j
    BY <1>1
  <2>1. CASE i = 1 /\ j = 1
    BY <2>1
  <2>2. CASE i = 1 /\ j # 1
    BY <1>1, <1>2, <2>2
  <2>3. CASE i # 1 /\ j = 1
    BY <1>1, <1>2, <2>3
  <2>4. CASE i # 1 /\ j # 1
    <3>1. i - 1 \in DOMAIN s /\ j - 1 \in DOMAIN s /\ s[i - 1] = s[j - 1]
      BY <1>1, <2>4
    <3>2. i - 1 = j - 1
      BY <3>1 DEF ChainIs
    <3> QED  BY <3>2
  <2> QED  BY <2>1, <2>2, <2>3, <2>4
<1>4. \A i \in DOMAIN z : freeListNext'[z[i]] = IF i = Len(z) THEN None ELSE z[i + 1]
  <2> SUFFICES ASSUME NEW i \in 1 .. Len(z)
               PROVE  freeListNext[z[i]] = IF i = Len(z) THEN None ELSE z[i + 1]
    BY <1>1
  <2>1. CASE i = 1
    <3>1. freeListNext[c] = IF s = << >> THEN None ELSE s[1]
      BY DEF ChainIs
    <3>2. s = << >> <=> Len(s) = 0
      OBVIOUS
    <3> QED  BY <1>1, <2>1, <3>1, <3>2
  <2>2. CASE i # 1
    <3>1. i - 1 \in DOMAIN s /\ z[i] = s[i - 1]
      BY <1>1, <2>2
    <3>2. freeListNext[s[i - 1]] = IF i - 1 = Len(s) THEN None ELSE s[i - 1 + 1]
      BY <3>1 DEF ChainIs
    <3>3. i # Len(z) => z[i + 1] = s[i - 1 + 1]
      BY <1>1
    <3> QED  BY <1>1, <3>1, <3>2, <3>3
  <2> QED  BY <2>1, <2>2
<1>5. ElementOf(z, c)
  BY <1>1 DEF ElementOf
<1>6. \A b : b # c => (ElementOf(z, b) <=> ElementOf(s, b))
  <2> SUFFICES ASSUME NEW b, b # c PROVE ElementOf(z, b) <=> ElementOf(s, b)
    OBVIOUS
  <2>1. ASSUME NEW i \in DOMAIN z, z[i] = b PROVE ElementOf(s, b)
    <3>1. i - 1 \in DOMAIN s /\ s[i - 1] = b
      BY <1>1, <2>1
    <3> QED  BY <3>1 DEF ElementOf
  <2>2. ASSUME NEW i \in DOMAIN s, s[i] = b PROVE ElementOf(z, b)
    <3>1. i + 1 \in DOMAIN z /\ z[i + 1] = s[i]
      BY <1>1, <2>2
    <3> QED  BY <2>2, <3>1 DEF ElementOf
  <2> QED  BY <2>1, <2>2 DEF ElementOf
<1>7. ChainIs(z)'
  BY <1>1, <1>3, <1>4 DEF ChainIs, PoolBlocks
<1> QED  BY <1>1, <1>5, <1>6, <1>7 DEF z

\* requisition_block takes the next block of the pool.
LEMMA TakeStepOK ==
  ASSUME FreeInv, NEW t \in Threads, PoolTake(t), UNCHANGED producers
  PROVE  FreeInv'
<1>0. PICK c : c = initialBlockPoolIndex + 1
  OBVIOUS
<1>1. /\ Shaped /\ DOMAIN me[t] = Locals /\ ListTypes /\ PoolOK(me[t]) /\ ReadOK(t)
      /\ \A u \in Threads : ReadOK(u)
  BY FreeIs
<1>2. /\ me[t].pc = "take" /\ me[t].back = "attach"
      /\ UNCHANGED <<initialBlockPoolSize, freeListHead, freeListRefs, freeListNext>>
      /\ initialBlockPoolIndex' = c /\ initialBlockPoolIndex \in Nat
  BY <1>0, <1>1, NotBlock DEF PoolTake, At, PoolOK, ListTypes
<1> USE PoolLocal DEF PoolLocals
<1>3. CASE initialBlockPoolIndex < initialBlockPoolSize
  <2> DEFINE m == [me[t] EXCEPT !.block = c]
  <2>0. /\ Go(t, "attach", m) /\ DOMAIN m = Locals /\ m.block = c
        /\ \A f \in PoolLocals \ {"block"} : m[f] = me[t][f]
    <3>1. Return(t, c)
      BY <1>0, <1>3 DEF PoolTake
    <3> QED  BY <1>1, <1>2, <3>1 DEF Return
  <2>1. c \in PoolBlocks /\ c <= initialBlockPoolSize
    <3>1. initialBlockPoolSize \in 0 .. Blocks
      BY <1>1 DEF ListTypes
    <3>2. Blocks \in Nat
      BY PoolAssumption
    <3> QED  BY <1>0, <1>2, <1>3, <3>1, <3>2 DEF PoolBlocks
  <2> HIDE DEF m
  <2>2. /\ Shaped' /\ Others(t) /\ me'[t].freed = me[t].freed /\ PoolOK(me'[t]) /\ ReadOK(t)'
        /\ me'[t].pc = "attach" /\ Hand(me[t]) = None /\ Hand(me'[t]) = c
        /\ \A b \in PoolBlocks : Refers(me'[t], b) <=> Refers(me[t], b)
    BY <1>1, <1>2, <2>0, <2>1, GoPool
    DEF Others, PoolOK, ReadOK, Hand, Refers, Adding, Flagging, Getting, PoolSteps, CallsPool
  <2>3. PICK s \in Seq(PoolBlocks) : ListIs(s)
    BY FreeIs
  <2>4. Unused(c) /\ c \in Nat /\ c # None
    BY <1>0, <1>2, <2>1, NotBlock DEF Unused
  <2>5. /\ freeListRefs[c] = 0 /\ Referring(c) = {} /\ OnlyUnused(c) /\ ~ElementOf(s, c)
    BY <2>1, <2>3, <2>4 DEF ListIs, OnePlace, CountIs, Loose
  <2>6. Referring(c)' = {} /\ References(c)' = 0
    <3>1. Referring(c)' = Referring(c) /\ References(c)' = References(c)
      BY <2>1, <2>2, ReferringSame
    <3> QED  BY <2>5, <3>1, ReferencesAre
  <2>7. ~Unused(c)'
    <3>1. initialBlockPoolSize \in Nat
      BY <1>1 DEF ListTypes
    <3> QED  BY <1>0, <1>2, <2>1, <2>4, <3>1 DEF Unused
  <2>8. InHand(t, c)' /\ OnlyHand(t, c)' /\ HeldCount(t, c)'
    <3>1. InHand(t, c)'
      BY <2>2 DEF InHand
    <3>2. OnlyHand(t, c)'
      BY <2>2, <2>5, <2>7, <1>2 DEF OnlyHand, OnlyUnused, InHand, InFreed, InEntry, Others
    <3>3. HeldCount(t, c)'
      BY <1>2, <2>2, <2>5, <2>6 DEF HeldCount, Flagging
    <3> QED  BY <3>1, <3>2, <3>3
  <2>9. OnePlace(c)' /\ CountIs(s, c)'
    BY <2>1, <2>5, <2>8, HoldsIt
  <2>10. ASSUME NEW b \in PoolBlocks \ {c} PROVE SameFor(t, b)
    <3>1. Unused(b)' <=> Unused(b)
      BY <1>0, <1>2, NotBlock DEF Unused
    <3>2. ~InHand(t, b)' /\ ~InHand(t, b)
      BY <2>2, NotBlock DEF InHand
    <3> QED  BY <1>2, <2>2, <3>1, <3>2 DEF SameFor, InFreed, InEntry
  <2>11. ListTypes' /\ ChainIs(s)' /\ \A u \in Threads : ReadOK(u)'
    <3>1. ChainIs(s)'
      BY <1>2, <2>3 DEF ListIs, ChainIs, PoolBlocks
    <3>2. ListTypes'
      BY <1>0, <1>1, <1>2 DEF ListTypes, PoolBlocks
    <3>3. \A u \in Threads : ReadOK(u)'
      BY <1>1, <1>2, <2>2, ReadKept
    <3> QED  BY <3>1, <3>2, <3>3
  <2> QED  BY <2>2, <2>3, <2>9, <2>10, <2>11, FreeTouch
<1>4. CASE ~(initialBlockPoolIndex < initialBlockPoolSize)
  <2>1. Go(t, "get", me[t])
    BY <1>4 DEF PoolTake
  <2>2. /\ Shaped' /\ Others(t) /\ me'[t].freed = me[t].freed /\ PoolOK(me'[t]) /\ ReadOK(t)'
        /\ Hand(me[t]) = None /\ Hand(me'[t]) = None
        /\ \A b \in PoolBlocks : Refers(me'[t], b) <=> Refers(me[t], b)
    BY <1>1, <1>2, <2>1, GoPool
    DEF Others, PoolOK, ReadOK, Hand, Refers, Adding, Flagging, Getting, PoolSteps, CallsPool
  <2>3. ASSUME NEW b \in PoolBlocks PROVE SameFor(t, b)
    <3>1. initialBlockPoolSize \in Nat
      BY <1>1 DEF ListTypes
    <3>2. Unused(b)' <=> Unused(b)
      BY <1>0, <1>2, <1>4, <3>1, NotBlock DEF Unused
    <3>3. ~InHand(t, b)' /\ ~InHand(t, b)
      BY <2>2, NotBlock DEF InHand
    <3> QED  BY <1>2, <2>2, <3>2, <3>3 DEF SameFor, InFreed, InEntry
  <2>4. initialBlockPoolIndex' \in Nat
    BY <1>0, <1>2
  <2> QED  BY <1>2, <2>2, <2>3, <2>4, FreeStay
<1> QED  BY <1>3, <1>4

\* try_get: a reference is taken to a node whose count is above zero, and never to
\* one that is being put on the list.
LEMMA HoldStepOK ==
  ASSUME FreeInv, NEW t \in Threads, GetHold(t), UNCHANGED producers
  PROVE  FreeInv'
<1>0. PICK c : c = me[t].head
  OBVIOUS
<1>1. /\ Shaped /\ DOMAIN me[t] = Locals /\ ListTypes /\ PoolOK(me[t]) /\ ReadOK(t)
      /\ \A u \in Threads : ReadOK(u)
  BY FreeIs
<1>2. /\ me[t].pc = "hold" /\ UNCHANGED <<initialPool, freeListHead, freeListNext, producers>>
      /\ c \in PoolBlocks /\ UNCHANGED <<initialBlockPoolSize, initialBlockPoolIndex>>
      /\ freeListRefs[c] \in Nat
  BY <1>0, <1>1 DEF GetHold, At, PoolOK, Getting, initialPool, ListTypes
<1> USE PoolLocal DEF PoolLocals
<1>3. CASE freeListRefs[c] = me[t].refs
  <2>1. /\ freeListRefs' = [freeListRefs EXCEPT ![c] = @ + 1] /\ Go(t, "next", me[t])
    BY <1>0, <1>3 DEF GetHold
  <2>2. /\ Shaped' /\ Others(t) /\ me'[t].freed = me[t].freed /\ PoolOK(me'[t]) /\ ReadOK(t)'
        /\ me'[t].pc = "next" /\ Hand(me[t]) = None /\ Hand(me'[t]) = None
        /\ \A b : ~Refers(me[t], b) /\ (Refers(me'[t], b) <=> b = c)
    BY <1>0, <1>1, <1>2, <2>1, GoPool
    DEF Others, PoolOK, ReadOK, Hand, Refers, Adding, Flagging, Getting, PoolSteps, CallsPool
  <2>3. freeListRefs[c] # 0 /\ freeListRefs[c] # SHOULD_BE_ON_FREELIST
    <3>1. freeListRefs[c] \in Nat /\ freeListRefs[c] % SHOULD_BE_ON_FREELIST # 0
      BY <1>1, <1>2, <1>3 DEF PoolOK, REFS_MASK
    <3>2. Cardinality(Threads) \in Nat
      BY ReferencesAre
    <3>3. SHOULD_BE_ON_FREELIST \in Nat /\ SHOULD_BE_ON_FREELIST > 0
      BY <3>2 DEF SHOULD_BE_ON_FREELIST
    <3> DEFINE F == SHOULD_BE_ON_FREELIST
    <3> HIDE DEF F
    <3>4. 0 % F = 0 /\ F % F = 0
      BY <3>3 DEF F
    <3> QED  BY <3>1, <3>4 DEF F
  <2>4. PICK s \in Seq(PoolBlocks) : ListIs(s)
    BY FreeIs
  <2>5. /\ freeListRefs'[c] = freeListRefs[c] + 1 /\ DOMAIN freeListRefs' = PoolBlocks
        /\ \A b \in PoolBlocks \ {c} : freeListRefs'[b] = freeListRefs[b]
    BY <1>1, <1>2, <2>1 DEF ListTypes
  <2>6. References(c)' = References(c) + 1 /\ Referring(c)' # {} /\ References(c) \in Nat
    BY <2>2, ReferenceAdded, ReferencesAre
  <2>7. HandsOnly(t)
    BY <1>2, <2>2 DEF HandsOnly
  <2>8. PlaceSame(t, c)
    BY <1>2, <2>2 DEF PlaceSame, Unused, InHand, InFreed, InEntry
  <2>9. OnePlace(c) /\ CountIs(s, c)
    BY <1>2, <2>4 DEF ListIs
  <2>10. /\ OnePlace(c)' /\ (Loose(c)' <=> Loose(c))
         /\ \A u \in Threads : (InHand(u, c)' <=> InHand(u, c)) /\ (InFreed(u, c)' <=> InFreed(u, c))
    BY <2>2, <2>8, <2>9, PlaceKept
  <2>11. ~Unused(c) /\ \A u \in Threads : InHand(u, c) => me[u].pc \notin Flagging /\ me'[u] = me[u]
    <3>1. ~InHand(t, c)
      BY <1>2, <2>2, NotBlock DEF InHand
    <3> QED  BY <2>2, <2>3, <2>9, <3>1 DEF CountIs, HeldCount, Others
  <2>12. CountIs(s, c)'
    <3>1. ASSUME NEW u \in Threads, InHand(u, c) PROVE HeldCount(u, c)'
      BY <2>5, <2>6, <2>9, <2>11, <3>1 DEF CountIs, HeldCount
    <3>2. ~Unused(c)'
      BY <2>8, <2>11 DEF PlaceSame
    <3>3. SHOULD_BE_ON_FREELIST \in Nat
      BY ReferencesAre
    <3> QED  BY <2>5, <2>6, <2>8, <2>9, <2>10, <3>1, <3>2, <3>3 DEF CountIs, PlaceSame, ElementOf
  <2>13. \A b \in PoolBlocks \ {c} : SameFor(t, b)
    BY <2>2, <2>5, <2>7, NotInHand, SMTT(30)
  <2>14. ListTypes' /\ ChainIs(s)' /\ \A u \in Threads : ReadOK(u)'
    <3>1. ChainIs(s)'
      BY <1>2, <2>4 DEF ListIs, ChainIs, PoolBlocks
    <3>2. ListTypes'
      BY <1>1, <1>2, <2>5 DEF ListTypes, PoolBlocks
    <3>3. \A u \in Threads : ReadOK(u)'
      BY <1>1, <1>2, <2>2, ReadKept
    <3> QED  BY <3>1, <3>2, <3>3
  <2> QED  BY <2>2, <2>4, <2>10, <2>12, <2>13, <2>14, FreeTouch
<1>4. CASE freeListRefs[c] # me[t].refs
  <2>1. Go(t, "get", me[t]) /\ UNCHANGED freeListRefs
    BY <1>0, <1>4 DEF GetHold
  <2>2. /\ Shaped' /\ Others(t) /\ me'[t].freed = me[t].freed /\ PoolOK(me'[t]) /\ ReadOK(t)'
        /\ Hand(me'[t]) = Hand(me[t])
        /\ \A b \in PoolBlocks : Refers(me'[t], b) <=> Refers(me[t], b)
    BY <1>0, <1>1, <1>2, <2>1, GoPool
    DEF Others, PoolOK, ReadOK, Hand, Refers, Adding, Flagging, Getting, PoolSteps, CallsPool
  <2>3. \A b \in PoolBlocks : SameFor(t, b)
    BY <1>2, <2>1, <2>2, SameForAll DEF Adding, Flagging
  <2>4. initialBlockPoolIndex' \in Nat
    BY <1>1, <1>2 DEF ListTypes
  <2> QED  BY <1>2, <2>1, <2>2, <2>3, <2>4, FreeStay
<1> QED  BY <1>3, <1>4

\* try_get: the head of the list is taken off it; its next is what the thread read, since
\* its reference keeps the node from being put on the list again.
LEMMA SwapStepOK ==
  ASSUME FreeInv, NEW t \in Threads, GetSwap(t), UNCHANGED producers
  PROVE  FreeInv'
<1>0. PICK c : c = me[t].head
  OBVIOUS
<1>1. /\ Shaped /\ DOMAIN me[t] = Locals /\ ListTypes /\ PoolOK(me[t]) /\ ReadOK(t)
      /\ \A u \in Threads : ReadOK(u)
  BY FreeIs
<1>2. /\ me[t].pc = "swap" /\ UNCHANGED <<initialPool, freeListRefs, freeListNext, producers>>
      /\ c \in PoolBlocks /\ UNCHANGED <<initialBlockPoolSize, initialBlockPoolIndex>>
      /\ freeListNext[c] = me[t].next /\ initialBlockPoolIndex' \in Nat
  BY <1>0, <1>1 DEF GetSwap, At, PoolOK, ReadOK, Getting, initialPool, ListTypes
<1>3. PICK s \in Seq(PoolBlocks) : ListIs(s)
  BY FreeIs
<1>4. freeListHead \in PoolBlocks \cup {None}
  BY <1>3 DEF ListIs, ChainIs
<1> USE PoolLocal DEF PoolLocals
<1>5. CASE freeListHead = c
  <2>1. freeListHead' = freeListNext[c] /\ Go(t, "taken", me[t])
    BY <1>0, <1>2, <1>5 DEF GetSwap
  <2>2. /\ Shaped' /\ Others(t) /\ me'[t].freed = me[t].freed /\ PoolOK(me'[t]) /\ ReadOK(t)'
        /\ me'[t].pc = "taken" /\ Hand(me[t]) = None /\ Hand(me'[t]) = c
        /\ \A b : (Refers(me'[t], b) <=> Refers(me[t], b))
    BY <1>0, <1>1, <1>2, <2>1, GoPool
    DEF Others, PoolOK, ReadOK, Hand, Refers, Adding, Flagging, Getting, PoolSteps, CallsPool
  <2>3. s # << >> /\ s[1] = c /\ ChainIs(s)
    BY <1>2, <1>3, <1>5, NotBlock DEF ListIs, ChainIs
  <2>4. PICK z \in Seq(PoolBlocks) :
          ChainIs(z)' /\ ~ElementOf(z, c) /\ \A b : b # c => (ElementOf(z, b) <=> ElementOf(s, b))
    BY <1>2, <2>1, <2>3, TailChain
  <2>5. HandsOnly(t)
    BY <1>2, <2>2 DEF HandsOnly
  <2>6. Loose(c) /\ freeListRefs[c] = References(c) + 1
    <3>1. ElementOf(s, c)
      BY <2>3 DEF ElementOf
    <3> QED  BY <1>2, <1>3, <3>1 DEF ListIs, CountIs
  <2>7. InHand(t, c)' /\ OnlyHand(t, c)'
    <3>1. InHand(t, c)'
      BY <2>2 DEF InHand
    <3> QED  BY <1>2, <2>5, <2>6, <3>1, HandTakes
  <2>8. HeldCount(t, c)'
    <3>1. References(c)' = References(c)
      BY <2>2, ReferringSame
    <3> QED  BY <1>2, <2>2, <2>6, <3>1 DEF HeldCount, Flagging
  <2>9. OnePlace(c)' /\ CountIs(z, c)'
    BY <1>2, <2>4, <2>7, <2>8, HoldsIt
  <2>10. \A b \in PoolBlocks \ {c} : SameFor(t, b)
    BY <1>2, <2>2, <2>5, NotInHand
  <2>11. ListTypes' /\ \A u \in Threads : ReadOK(u)'
    <3>1. ListTypes'
      BY <1>1, <1>2 DEF ListTypes, PoolBlocks
    <3>2. \A u \in Threads : ReadOK(u)'
      BY <1>1, <1>2, <2>2, ReadKept
    <3> QED  BY <3>1, <3>2
  <2> QED  BY <1>3, <2>2, <2>4, <2>9, <2>10, <2>11, FreeTouch
<1>6. CASE freeListHead # c
  <2>1. /\ Go(t, "drop", [me[t] EXCEPT !.head = freeListHead, !.node = me[t].head])
        /\ UNCHANGED freeListHead
    BY <1>0, <1>6 DEF GetSwap
  <2> DEFINE m == [me[t] EXCEPT !.head = freeListHead, !.node = me[t].head]
  <2>4. /\ Go(t, "drop", m) /\ DOMAIN m = Locals /\ m.head = freeListHead /\ m.node = c
        /\ \A f \in PoolLocals \ {"head", "node"} : m[f] = me[t][f]
    BY <1>0, <1>1, <2>1
  <2> HIDE DEF m
  <2>2. /\ Shaped' /\ Others(t) /\ me'[t].freed = me[t].freed /\ PoolOK(me'[t]) /\ ReadOK(t)'
        /\ Hand(me'[t]) = None /\ Hand(me[t]) = None
        /\ \A b \in PoolBlocks : Refers(me'[t], b) <=> Refers(me[t], b)
    BY <1>0, <1>1, <1>2, <1>4, <2>1, <2>4, GoPool
    DEF Others, PoolOK, ReadOK, Hand, Refers, Adding, Flagging, Getting, PoolSteps, CallsPool
  <2>3. \A b \in PoolBlocks : SameFor(t, b)
    BY <1>2, <2>1, <2>2, SameForAll DEF Adding, Flagging
  <2> QED  BY <1>2, <2>1, <2>2, <2>3, FreeStay
<1> QED  BY <1>5, <1>6

\* try_get returns a node: its own reference and the list's are given back.
LEMMA TakenStepOK ==
  ASSUME FreeInv, NEW t \in Threads, GetTaken(t), UNCHANGED producers
  PROVE  FreeInv'
<1>0. PICK c : c = me[t].head
  OBVIOUS
<1>1. /\ Shaped /\ DOMAIN me[t] = Locals /\ ListTypes /\ PoolOK(me[t]) /\ ReadOK(t)
      /\ \A u \in Threads : ReadOK(u)
  BY FreeIs
<1>2. /\ me[t].pc = "taken" /\ UNCHANGED <<initialPool, freeListHead, freeListNext, producers>>
      /\ c \in PoolBlocks /\ UNCHANGED <<initialBlockPoolSize, initialBlockPoolIndex>>
      /\ freeListRefs[c] \in Nat
  BY <1>0, <1>1 DEF GetTaken, At, PoolOK, Getting, initialPool, ListTypes
<1>3. PICK s \in Seq(PoolBlocks) : ListIs(s)
  BY FreeIs
<1> USE PoolLocal DEF PoolLocals
<1>4. /\ freeListRefs' = [freeListRefs EXCEPT ![c] = @ - 2]
      /\ Go(t, "attach", [me[t] EXCEPT !.block = me[t].head])
  BY <1>0, <1>1, <1>2 DEF GetTaken, Return, PoolOK, Getting
<1>5. /\ Shaped' /\ Others(t) /\ me'[t].freed = me[t].freed /\ PoolOK(me'[t]) /\ ReadOK(t)'
      /\ me'[t].pc = "attach" /\ Hand(me[t]) = c /\ Hand(me'[t]) = c
      /\ \A b : (Refers(me[t], b) <=> b = c) /\ ~Refers(me'[t], b)
  BY <1>0, <1>1, <1>2, <1>4, GoPool
  DEF Others, PoolOK, ReadOK, Hand, Refers, Adding, Flagging, Getting, PoolSteps, CallsPool
<1>6. HandsOnly(t) /\ InHand(t, c) /\ InHand(t, c)'
  BY <1>2, <1>5 DEF HandsOnly, InHand
<1>7. /\ freeListRefs'[c] = freeListRefs[c] - 2 /\ DOMAIN freeListRefs' = PoolBlocks
      /\ \A b \in PoolBlocks \ {c} : freeListRefs'[b] = freeListRefs[b]
  BY <1>1, <1>2, <1>4 DEF ListTypes
<1>8. References(c) = References(c)' + 1 /\ References(c)' \in Nat
  BY <1>5, ReferenceDropped
<1>9. OnlyHand(t, c) /\ freeListRefs[c] = References(c) + 1 /\ ~ElementOf(s, c)
  BY <1>2, <1>3, <1>6 DEF ListIs, OnePlace, CountIs, HeldCount, Flagging, Loose
<1>10. OnlyHand(t, c)' /\ HeldCount(t, c)' /\ freeListRefs'[c] \in Nat
  <2>1. OnlyHand(t, c)'
    BY <1>2, <1>6, <1>9, HandKeeps
  <2> QED  BY <1>5, <1>7, <1>8, <1>9, <2>1 DEF HeldCount, Flagging
<1>11. OnePlace(c)' /\ CountIs(s, c)'
  BY <1>2, <1>6, <1>9, <1>10, HoldsIt
<1>12. \A b \in PoolBlocks \ {c} : SameFor(t, b)
  BY <1>5, <1>6, <1>7, NotInHand
<1>13. ListTypes' /\ ChainIs(s)' /\ \A u \in Threads : ReadOK(u)'
  <2>1. ChainIs(s)'
    BY <1>2, <1>3 DEF ListIs, ChainIs, PoolBlocks
  <2>2. ListTypes'
    BY <1>1, <1>2, <1>7, <1>10 DEF ListTypes, PoolBlocks
  <2>3. \A u \in Threads : ReadOK(u)'
    BY <1>1, <1>2, <1>5, ReadKept
  <2> QED  BY <2>1, <2>2, <2>3
<1> QED  BY <1>3, <1>5, <1>11, <1>12, <1>13, FreeTouch

\* Where a call of try_get or add goes on: with no block in its hand, and referring to none.
LEMMA LoopIs ==
  ASSUME Shaped, NEW t \in Threads, PoolOK(me[t]), me[t].pc = "drop", Loop(t)
  PROVE  /\ Shaped' /\ Others(t) /\ me'[t].freed = me[t].freed /\ PoolOK(me'[t]) /\ ReadOK(t)'
         /\ Hand(me'[t]) = None /\ \A b \in PoolBlocks : ~Refers(me'[t], b)
<1> USE PoolLocal DEF PoolLocals
<1>1. DOMAIN me[t] = Locals
  BY DEF Shaped
<1>2. CASE me[t].head = None
  <2>1. Go(t, "attach", [me[t] EXCEPT !.block = None])
    BY <1>2 DEF Loop, Return, PoolOK
  <2> QED
    BY <1>1, <2>1, GoPool
    DEF Others, PoolOK, ReadOK, Hand, Refers, Adding, Flagging, Getting, PoolSteps, CallsPool
<1>3. CASE me[t].head # None
  <2>1. Go(t, "refs", me[t]) /\ me[t].head \in PoolBlocks
    BY <1>3 DEF Loop, PoolOK
  <2> QED
    BY <1>1, <2>1, GoPool
    DEF Others, PoolOK, ReadOK, Hand, Refers, Adding, Flagging, Getting, PoolSteps, CallsPool
<1> QED  BY <1>2, <1>3

\* Where a call of add goes on: with no block in its hand, and referring to none.
LEMMA AddedIs ==
  ASSUME Shaped, NEW t \in Threads, PoolOK(me[t]), me[t].pc \in Adding, Added(t)
  PROVE  /\ Shaped' /\ Others(t) /\ me'[t].freed = me[t].freed /\ PoolOK(me'[t]) /\ ReadOK(t)'
         /\ Hand(me'[t]) = None /\ \A b \in PoolBlocks : ~Refers(me'[t], b)
<1> USE PoolLocal DEF PoolLocals
<1>1. DOMAIN me[t] = Locals
  BY DEF Shaped
<1>2. CASE me[t].inGet /\ me[t].head = None
  <2>1. Go(t, "attach", [me[t] EXCEPT !.block = None, !.inGet = FALSE])
    BY <1>2 DEF Added, PoolOK
  <2> DEFINE m == [me[t] EXCEPT !.block = None, !.inGet = FALSE]
  <2>2. /\ Go(t, "attach", m) /\ DOMAIN m = Locals /\ m.block = None /\ m.inGet = FALSE
        /\ \A f \in PoolLocals \ {"block", "inGet"} : m[f] = me[t][f]
    BY <1>1, <2>1
  <2> HIDE DEF m
  <2>3. /\ Shaped' /\ Others(t) /\ me'[t].freed = me[t].freed /\ me'[t].pc = "attach"
        /\ me'[t].block = None /\ ~me'[t].inGet /\ me'[t].inGet \in BOOLEAN
    <3>1. /\ Shaped' /\ Others(t) /\ me'[t].freed = m.freed /\ me'[t].pc = "attach"
          /\ me'[t].block = m.block /\ me'[t].inGet = m.inGet
      BY <1>1, <2>2, GoPool DEF Others
    <3>2. me'[t].inGet = FALSE
      BY <2>2, <3>1, Zenon
    <3>3. ~me'[t].inGet /\ me'[t].inGet \in BOOLEAN
      BY <3>2, Zenon
    <3> QED  BY <2>2, <3>1, <3>3
  <2>4. me[t].freed \in Seq(PoolBlocks) /\ me[t].freed = << >>
        /\ \A i, j \in DOMAIN me[t].freed : me[t].freed[i] = me[t].freed[j] => i = j
    BY <1>2 DEF PoolOK, Adding, Flagging, CallsPool
  <2>5. PoolOK(me'[t])
    BY <2>3, <2>4 DEF PoolOK, Adding, Flagging, Getting, PoolSteps, CallsPool
  <2> QED  BY <2>3, <2>5 DEF ReadOK, Hand, Refers, Adding, Flagging
<1>3. CASE me[t].inGet /\ me[t].head # None
  <2>1. Go(t, "refs", [me[t] EXCEPT !.inGet = FALSE]) /\ me[t].head \in PoolBlocks
    BY <1>3 DEF Added, PoolOK
  <2> DEFINE m == [me[t] EXCEPT !.inGet = FALSE]
  <2>2. /\ Go(t, "refs", m) /\ DOMAIN m = Locals /\ m.inGet = FALSE
        /\ \A f \in PoolLocals \ {"inGet"} : m[f] = me[t][f]
    BY <1>1, <2>1
  <2> HIDE DEF m
  <2>3. /\ Shaped' /\ Others(t) /\ me'[t].freed = me[t].freed /\ me'[t].pc = "refs"
        /\ me'[t].head \in PoolBlocks /\ me'[t].back = "attach"
        /\ ~me'[t].inGet /\ me'[t].inGet \in BOOLEAN
    <3>1. /\ Shaped' /\ Others(t) /\ me'[t].freed = m.freed /\ me'[t].pc = "refs"
          /\ me'[t].head = m.head /\ me'[t].back = m.back /\ me'[t].inGet = m.inGet
      BY <1>1, <2>2, GoPool DEF Others
    <3>2. me'[t].inGet = FALSE
      BY <2>2, <3>1, Zenon
    <3>3. ~me'[t].inGet /\ me'[t].inGet \in BOOLEAN
      BY <3>2, Zenon
    <3>4. me[t].back = "attach"
      BY <1>3 DEF PoolOK
    <3> QED  BY <2>1, <2>2, <3>1, <3>3, <3>4
  <2>4. me[t].freed \in Seq(PoolBlocks) /\ me[t].freed = << >>
        /\ \A i, j \in DOMAIN me[t].freed : me[t].freed[i] = me[t].freed[j] => i = j
    BY <1>3 DEF PoolOK, Adding, Flagging, CallsPool
  <2>5. PoolOK(me'[t])
    BY <2>3, <2>4 DEF PoolOK, Adding, Flagging, Getting, PoolSteps, CallsPool
  <2> QED  BY <2>3, <2>5 DEF ReadOK, Hand, Refers, Adding, Flagging
<1>4. CASE ~me[t].inGet
  <2>1. Go(t, me[t].back, me[t]) /\ me[t].back \in {"unindex", "freed"}
    BY <1>4 DEF Added, PoolOK
  <2> QED
    BY <1>1, <1>4, <2>1, GoPool
    DEF Others, PoolOK, ReadOK, Hand, Refers, Adding, Flagging, Getting, PoolSteps, CallsPool
<1>5. me[t].inGet \in BOOLEAN
  BY DEF PoolOK
<1> QED  BY <1>2, <1>3, <1>4, <1>5

\* Who has a reference to a block whose count has the flag: nobody has the block.
LEMMA FlaggedIs ==
  ASSUME FreeInv, NEW t \in Threads, NEW c \in PoolBlocks, NEW s, ListIs(s), t \in Referring(c)
  PROVE  /\ freeListRefs[c] >= SHOULD_BE_ON_FREELIST => Loose(c) /\ ~ElementOf(s, c)
         /\ ~Unused(c) /\ \A u \in Threads : InHand(u, c) => me[u].pc \notin Flagging
         /\ freeListRefs[c] >= References(c) /\ References(c) >= 1
<1>1. OnePlace(c) /\ CountIs(s, c) /\ Referring(c) # {}
  BY DEF ListIs
<1>2. /\ SHOULD_BE_ON_FREELIST \in Nat /\ References(c) \in Nat
      /\ References(c) + 1 < SHOULD_BE_ON_FREELIST /\ References(c) # 0
  BY <1>1, ReferencesAre
<1>3. \A u \in Threads : InHand(u, c) => 
        me[u].pc \notin Flagging /\ freeListRefs[c] \in {References(c), References(c) + 1}
  BY <1>1 DEF CountIs, HeldCount
<1>4. ~Unused(c)
  BY <1>1 DEF CountIs
<1>5. CASE Loose(c)
  BY <1>1, <1>2, <1>3, <1>4, <1>5 DEF CountIs
<1>6. CASE ~Loose(c)
  <2>1. \/ \E u \in Threads : InHand(u, c)
        \/ \E u \in Threads : InFreed(u, c)
        \/ \E p \in Names : \E x \in Slots : InEntry(p, x, c)
    BY <1>4, <1>6 DEF Loose
  <2>2. freeListRefs[c] \in {References(c), References(c) + 1}
    BY <1>1, <1>3, <2>1 DEF CountIs
  <2> QED  BY <1>2, <1>3, <1>4, <2>2
<1> QED  BY <1>5, <1>6

\* try_get: the last reference to a flagged node puts it on the list; any other leaves the
\* node where it is.
LEMMA DropStepOK ==
  ASSUME FreeInv, NEW t \in Threads, GetDrop(t), UNCHANGED producers
  PROVE  FreeInv'
<1>0. PICK c : c = me[t].node
  OBVIOUS
<1>1. /\ Shaped /\ DOMAIN me[t] = Locals /\ ListTypes /\ PoolOK(me[t]) /\ ReadOK(t)
      /\ \A u \in Threads : ReadOK(u)
  BY FreeIs
<1>2. /\ me[t].pc = "drop" /\ UNCHANGED <<initialPool, freeListHead, freeListNext, producers>>
      /\ c \in PoolBlocks /\ UNCHANGED <<initialBlockPoolSize, initialBlockPoolIndex>>
      /\ freeListRefs[c] \in Nat /\ freeListRefs' = [freeListRefs EXCEPT ![c] = @ - 1]
  BY <1>0, <1>1 DEF GetDrop, At, PoolOK, Getting, initialPool, ListTypes
<1>3. PICK s \in Seq(PoolBlocks) : ListIs(s)
  BY FreeIs
<1>4. OnePlace(c) /\ CountIs(s, c)
  BY <1>2, <1>3 DEF ListIs
<1>5. Hand(me[t]) = None /\ \A b : Refers(me[t], b) <=> b = c
  BY <1>0, <1>2 DEF Hand, Refers, Adding, Flagging
<1>6. /\ freeListRefs[c] >= SHOULD_BE_ON_FREELIST => Loose(c) /\ ~ElementOf(s, c)
      /\ ~Unused(c) /\ \A u \in Threads : InHand(u, c) => me[u].pc \notin Flagging
      /\ freeListRefs[c] >= References(c) /\ References(c) >= 1
  <2>1. t \in Referring(c)
    BY <1>5 DEF Referring
  <2> QED  BY <1>2, <1>3, <2>1, FlaggedIs
<1>7. /\ freeListRefs'[c] = freeListRefs[c] - 1 /\ DOMAIN freeListRefs' = PoolBlocks
      /\ \A b \in PoolBlocks \ {c} : freeListRefs'[b] = freeListRefs[b]
  BY <1>1, <1>2 DEF ListTypes
<1>8. References(c) \in Nat /\ SHOULD_BE_ON_FREELIST \in Nat
  BY ReferencesAre
<1>9. ListTypes' /\ ChainIs(s)'
  <2>1. ChainIs(s)'
    BY <1>2, <1>3 DEF ListIs, ChainIs, PoolBlocks
  <2>2. freeListRefs'[c] \in Nat
    BY <1>2, <1>6, <1>7, <1>8
  <2>3. ListTypes'
    BY <1>1, <1>2, <1>7, <2>2 DEF ListTypes, PoolBlocks
  <2> QED  BY <2>1, <2>3
<1> USE PoolLocal DEF PoolLocals
<1>10. CASE freeListRefs[c] = SHOULD_BE_ON_FREELIST + 1
  <2> DEFINE m == [me[t] EXCEPT !.inGet = TRUE]
  <2>1. /\ Go(t, "link", m) /\ DOMAIN m = Locals /\ m.inGet = TRUE
        /\ \A f \in PoolLocals \ {"inGet"} : m[f] = me[t][f]
    <3>1. Go(t, "link", [me[t] EXCEPT !.inGet = TRUE])
      BY <1>0, <1>10 DEF GetDrop
    <3> QED  BY <1>1, <3>1
  <2> HIDE DEF m
  <2>2. /\ Shaped' /\ Others(t) /\ me'[t].freed = m.freed /\ me'[t].pc = "link"
        /\ me'[t].node = m.node /\ me'[t].head = m.head /\ me'[t].back = m.back
        /\ me'[t].inGet = m.inGet
    BY <1>1, <2>1, GoPool DEF Others
  <2>3. me'[t].inGet /\ me'[t].inGet \in BOOLEAN
    <3>1. me'[t].inGet = TRUE
      BY <2>1, <2>2, Zenon
    <3> QED  BY <3>1, Zenon
  <2>4. me[t].freed \in Seq(PoolBlocks) /\ me[t].freed = << >> /\ me[t].back = "attach"
        /\ me[t].head \in PoolBlocks \cup {None}
        /\ \A i, j \in DOMAIN me[t].freed : me[t].freed[i] = me[t].freed[j] => i = j
    BY <1>1, <1>2 DEF PoolOK, CallsPool
  <2>5. /\ Shaped' /\ Others(t) /\ me'[t].freed = me[t].freed /\ me'[t].pc = "link"
        /\ me'[t].node = c /\ me'[t].back = "attach" /\ me'[t].head \in PoolBlocks \cup {None}
    BY <1>0, <2>1, <2>2, <2>4
  <2>6. PoolOK(me'[t]) /\ ReadOK(t)'
    BY <1>2, <2>3, <2>4, <2>5 DEF PoolOK, ReadOK, Adding, Flagging, Getting, PoolSteps, CallsPool
  <2>7. Hand(me'[t]) = c /\ \A b : ~Refers(me'[t], b)
    BY <2>5 DEF Hand, Refers, Adding, Flagging
  <2>8. HandsOnly(t) /\ InHand(t, c)'
    BY <1>2, <2>5, <2>7 DEF HandsOnly, InHand
  <2>9. Loose(c) /\ ~ElementOf(s, c) /\ References(c) = 1
    <3>1. Loose(c) /\ ~ElementOf(s, c)
      BY <1>6, <1>8, <1>10
    <3> QED  BY <1>4, <1>8, <1>10, <3>1 DEF CountIs
  <2>10. Referring(c)' = {}
    BY <1>5, <2>5, <2>7, <2>9, ReferenceDropped
  <2>11. OnlyHand(t, c)'
    BY <1>2, <2>8, <2>9, HandTakes
  <2>12. HeldCount(t, c)'
    <3>1. freeListRefs'[c] = SHOULD_BE_ON_FREELIST
      BY <1>7, <1>8, <1>10
    <3> QED  BY <2>5, <2>10, <3>1 DEF HeldCount, Flagging, SHOULD_BE_ON_FREELIST
  <2>13. OnePlace(c)' /\ CountIs(s, c)'
    BY <1>2, <2>8, <2>9, <2>11, <2>12, HoldsIt
  <2>14. \A b \in PoolBlocks \ {c} : SameFor(t, b)
    BY <1>5, <1>7, <2>7, <2>8, NotInHand
  <2>15. \A u \in Threads : ReadOK(u)'
    BY <1>1, <1>2, <2>5, <2>6, ReadKept
  <2> QED  BY <1>3, <1>9, <2>5, <2>6, <2>13, <2>14, <2>15, FreeTouch
<1>11. CASE freeListRefs[c] # SHOULD_BE_ON_FREELIST + 1
  <2>1. Loop(t)
    BY <1>0, <1>11 DEF GetDrop
  <2>2. /\ Shaped' /\ Others(t) /\ me'[t].freed = me[t].freed /\ PoolOK(me'[t]) /\ ReadOK(t)'
        /\ Hand(me'[t]) = None /\ \A b \in PoolBlocks : ~Refers(me'[t], b)
    BY <1>1, <1>2, <2>1, LoopIs
  <2>3. HandsOnly(t)
    BY <1>2, <2>2 DEF HandsOnly
  <2>4. /\ References(c) = References(c)' + 1 /\ References(c)' \in Nat
        /\ (References(c) = 1 <=> Referring(c)' = {})
    BY <1>2, <1>5, <2>2, ReferenceDropped
  <2>5. PlaceSame(t, c)
    BY <1>2, <1>5, <2>2 DEF PlaceSame, Unused, InHand, InFreed, InEntry
  <2>6. /\ OnePlace(c)' /\ (Loose(c)' <=> Loose(c))
        /\ \A u \in Threads : (InHand(u, c)' <=> InHand(u, c)) /\ (InFreed(u, c)' <=> InFreed(u, c))
    BY <1>4, <2>2, <2>5, PlaceKept
  <2>7. CountIs(s, c)'
    <3>1. ASSUME NEW u \in Threads, InHand(u, c) PROVE HeldCount(u, c)'
      <4>1. u # t
        BY <1>2, <1>5, <3>1, NotBlock DEF InHand
      <4>2. me'[u] = me[u] /\ me[u].pc \notin Flagging /\ HeldCount(u, c)
        BY <1>4, <1>6, <2>2, <3>1, <4>1 DEF Others, CountIs
      <4> QED  BY <1>7, <1>8, <2>4, <4>2 DEF HeldCount
    <3>2. ~Unused(c)'
      BY <1>6, <2>5 DEF PlaceSame
    <3>3. Loose(c) /\ ~ElementOf(s, c) => Referring(c)' # {}
      BY <1>4, <1>8, <1>11, <2>4 DEF CountIs
    <3> QED  BY <1>4, <1>7, <1>8, <2>4, <2>5, <2>6, <3>1, <3>2, <3>3 DEF CountIs, PlaceSame, ElementOf
  <2>8. \A b \in PoolBlocks \ {c} : SameFor(t, b)
    <3>1. \A b \in PoolBlocks \ {c} :
            freeListRefs'[b] = freeListRefs[b] /\ (Refers(me'[t], b) <=> Refers(me[t], b))
      BY <1>5, <1>7, <2>2
    <3> QED  BY <1>5, <2>2, <2>3, <3>1, NotInHand
  <2>9. \A u \in Threads : ReadOK(u)'
    BY <1>1, <1>2, <2>2, ReadKept
  <2> QED  BY <1>3, <1>9, <2>2, <2>6, <2>7, <2>8, <2>9, FreeTouch
<1> QED  BY <1>10, <1>11

\* add: the flag, and the node is put on the list unless somebody refers to it.
LEMMA AddStepOK ==
  ASSUME FreeInv, NEW t \in Threads, AddFlag(t), UNCHANGED producers
  PROVE  FreeInv'
<1>0. PICK c : c = me[t].node
  OBVIOUS
<1>1. /\ Shaped /\ DOMAIN me[t] = Locals /\ ListTypes /\ PoolOK(me[t]) /\ ReadOK(t)
      /\ \A u \in Threads : ReadOK(u)
  BY FreeIs
<1>2. /\ me[t].pc = "add" /\ UNCHANGED <<initialPool, freeListHead, freeListNext, producers>>
      /\ c \in PoolBlocks /\ UNCHANGED <<initialBlockPoolSize, initialBlockPoolIndex>>
      /\ freeListRefs[c] \in Nat
      /\ freeListRefs' = [freeListRefs EXCEPT ![c] = @ + SHOULD_BE_ON_FREELIST]
  BY <1>0, <1>1 DEF AddFlag, At, PoolOK, Adding, initialPool, ListTypes
<1>3. PICK s \in Seq(PoolBlocks) : ListIs(s)
  BY FreeIs
<1>4. OnePlace(c) /\ CountIs(s, c)
  BY <1>2, <1>3 DEF ListIs
<1>5. Hand(me[t]) = c /\ InHand(t, c) /\ \A b : ~Refers(me[t], b)
  BY <1>0, <1>2 DEF Hand, InHand, Refers, Adding, Flagging
<1>6. OnlyHand(t, c) /\ freeListRefs[c] = References(c) /\ ~ElementOf(s, c)
  BY <1>2, <1>4, <1>5 DEF OnePlace, CountIs, HeldCount, Flagging, Loose
<1>7. References(c) \in Nat /\ SHOULD_BE_ON_FREELIST \in Nat /\ (References(c) = 0 <=> Referring(c) = {})
  BY ReferencesAre
<1>8. /\ freeListRefs'[c] = References(c) + SHOULD_BE_ON_FREELIST /\ DOMAIN freeListRefs' = PoolBlocks
      /\ \A b \in PoolBlocks \ {c} : freeListRefs'[b] = freeListRefs[b]
  BY <1>1, <1>2, <1>6, <1>7 DEF ListTypes
<1>9. ListTypes' /\ ChainIs(s)'
  <2>1. ChainIs(s)'
    BY <1>2, <1>3 DEF ListIs, ChainIs, PoolBlocks
  <2>2. freeListRefs'[c] \in Nat
    BY <1>7, <1>8
  <2>3. ListTypes'
    BY <1>1, <1>2, <1>8, <2>2 DEF ListTypes, PoolBlocks
  <2> QED  BY <2>1, <2>3
<1> USE PoolLocal DEF PoolLocals
<1>10. CASE freeListRefs[c] = 0
  <2>1. Go(t, "link", me[t])
    BY <1>0, <1>10 DEF AddFlag
  <2>2. /\ Shaped' /\ Others(t) /\ me'[t].freed = me[t].freed /\ PoolOK(me'[t]) /\ ReadOK(t)'
        /\ me'[t].pc = "link" /\ Hand(me'[t]) = c /\ \A b : ~Refers(me'[t], b)
    BY <1>0, <1>1, <1>2, <2>1, GoPool
    DEF Others, PoolOK, ReadOK, Hand, Refers, Adding, Flagging, Getting, PoolSteps, CallsPool
  <2>3. HandsOnly(t) /\ InHand(t, c)'
    BY <1>2, <2>2 DEF HandsOnly, InHand
  <2>4. OnlyHand(t, c)'
    BY <1>2, <1>6, <2>3, HandKeeps
  <2>5. HeldCount(t, c)'
    <3>1. Referring(c)' = Referring(c) /\ Referring(c) = {} /\ References(c) = 0
      BY <1>5, <1>6, <1>7, <1>10, <2>2, ReferringSame
    <3>2. freeListRefs'[c] = SHOULD_BE_ON_FREELIST
      BY <1>7, <1>8, <3>1
    <3> QED  BY <2>2, <3>1, <3>2 DEF HeldCount, Flagging, SHOULD_BE_ON_FREELIST
  <2>6. OnePlace(c)' /\ CountIs(s, c)'
    BY <1>2, <1>6, <2>3, <2>4, <2>5, HoldsIt
  <2>7. \A b \in PoolBlocks \ {c} : SameFor(t, b)
    BY <1>5, <1>8, <2>2, <2>3, NotInHand
  <2>8. \A u \in Threads : ReadOK(u)'
    BY <1>1, <1>2, <2>2, ReadKept
  <2> QED  BY <1>3, <1>9, <2>2, <2>6, <2>7, <2>8, FreeTouch
<1>11. CASE freeListRefs[c] # 0
  <2>1. Added(t) /\ me[t].pc \in Adding
    BY <1>0, <1>2, <1>11 DEF AddFlag, Adding
  <2>2. /\ Shaped' /\ Others(t) /\ me'[t].freed = me[t].freed /\ PoolOK(me'[t]) /\ ReadOK(t)'
        /\ Hand(me'[t]) = None /\ \A b \in PoolBlocks : ~Refers(me'[t], b)
    BY <1>1, <2>1, AddedIs
  <2>3. HandsOnly(t) /\ ~InHand(t, c)'
    BY <1>2, <2>2, NotBlock DEF HandsOnly, InHand
  <2>4. Loose(c)'
    BY <1>2, <1>6, <2>3, HandDrops
  <2>5. Referring(c)' = Referring(c) /\ References(c)' = References(c)
    BY <1>2, <1>5, <2>2, ReferringSame
  <2>6. Referring(c)' # {}
    BY <1>6, <1>7, <1>11, <2>5
  <2>7. OnePlace(c)' /\ CountIs(s, c)'
    BY <1>2, <1>6, <1>8, <2>4, <2>5, <2>6, IsLoose
  <2>8. \A b \in PoolBlocks \ {c} : SameFor(t, b)
    <3>1. \A b \in PoolBlocks \ {c} :
            freeListRefs'[b] = freeListRefs[b] /\ (Refers(me'[t], b) <=> Refers(me[t], b))
      BY <1>5, <1>8, <2>2
    <3> QED  BY <1>5, <2>2, <2>3, <3>1, NotInHand
  <2>9. \A u \in Threads : ReadOK(u)'
    BY <1>1, <1>2, <2>2, ReadKept
  <2> QED  BY <1>3, <1>9, <2>2, <2>7, <2>8, <2>9, FreeTouch
<1> QED  BY <1>10, <1>11
\* add_knowing_refcount_is_zero: the pointer of the node in hand is set; nobody reads it.
LEMMA LinkNextStepOK ==
  ASSUME FreeInv, NEW t \in Threads, LinkNext(t), UNCHANGED producers
  PROVE  FreeInv'
<1>0. PICK c : c = me[t].node
  OBVIOUS
<1>1. /\ Shaped /\ DOMAIN me[t] = Locals /\ ListTypes /\ PoolOK(me[t]) /\ ReadOK(t)
      /\ \A u \in Threads : ReadOK(u)
  BY FreeIs
<1>2. /\ me[t].pc = "linknext" /\ UNCHANGED <<initialPool, freeListHead, freeListRefs, producers>>
      /\ c \in PoolBlocks /\ UNCHANGED <<initialBlockPoolSize, initialBlockPoolIndex>>
      /\ freeListNext' = [freeListNext EXCEPT ![c] = me[t].listHead] /\ Go(t, "linkrefs", me[t])
      /\ me[t].listHead \in PoolBlocks \cup {None}
  BY <1>0, <1>1 DEF LinkNext, At, PoolOK, Adding, Flagging, initialPool, ListTypes
<1>3. PICK s \in Seq(PoolBlocks) : ListIs(s)
  BY FreeIs
<1>4. OnePlace(c) /\ CountIs(s, c)
  BY <1>2, <1>3 DEF ListIs
<1>5. Hand(me[t]) = c /\ InHand(t, c)
  BY <1>0, <1>2 DEF Hand, InHand, Adding, Flagging
<1>6. OnlyHand(t, c) /\ Referring(c) = {} /\ ~ElementOf(s, c)
  BY <1>2, <1>4, <1>5 DEF OnePlace, CountIs, HeldCount, Flagging, Loose
<1>7. /\ freeListNext'[c] = me[t].listHead /\ DOMAIN freeListNext' = PoolBlocks
      /\ \A b \in PoolBlocks \ {c} : freeListNext'[b] = freeListNext[b]
  BY <1>1, <1>2 DEF ListTypes
<1>8. ListTypes' /\ ChainIs(s)'
  <2>1. ChainIs(s)'
    <3>1. \A i \in DOMAIN s : s[i] \in PoolBlocks \ {c}
      BY <1>6 DEF ElementOf
    <3> QED  BY <1>2, <1>3, <1>7, <3>1 DEF ListIs, ChainIs, PoolBlocks
  <2>2. ListTypes'
    BY <1>1, <1>2, <1>7 DEF ListTypes, PoolBlocks
  <2> QED  BY <2>1, <2>2
<1> USE PoolLocal DEF PoolLocals
<1>9. /\ Shaped' /\ Others(t) /\ me'[t].freed = me[t].freed /\ PoolOK(me'[t])
      /\ me'[t].pc = "linkrefs" /\ me'[t].node = c /\ me'[t].listHead = me[t].listHead
      /\ Hand(me'[t]) = c /\ \A b : Refers(me'[t], b) <=> Refers(me[t], b)
  BY <1>0, <1>1, <1>2, GoPool
  DEF Others, PoolOK, Hand, Refers, Adding, Flagging, Getting, PoolSteps, CallsPool
<1>10. \A b \in PoolBlocks : SameFor(t, b)
  BY <1>2, <1>5, <1>9, SameForAll DEF Adding, Flagging, Listing
<1>11. ASSUME NEW u \in Threads PROVE ReadOK(u)'
  <2>1. CASE u = t
    BY <1>7, <1>9, <2>1 DEF ReadOK
  <2>2. CASE u # t
    <3>1. me'[u] = me[u] /\ ReadOK(u) /\ PoolOK(me[u])
      BY <1>1, <1>9, <2>2 DEF Others, FreeInv
    <3>2. ~InHand(u, c) /\ ~Refers(me[u], c)
      BY <1>6, <2>2 DEF OnlyHand, Referring
    <3>3. me[u].pc = "swap" => me[u].head \in PoolBlocks \ {c}
      BY <3>1, <3>2 DEF PoolOK, Getting, Refers
    <3>4. me[u].pc \in {"linkrefs", "linkswap"} => me[u].node \in PoolBlocks \ {c}
      BY <3>1, <3>2 DEF PoolOK, Adding, Flagging, InHand, Hand
    <3> QED  BY <1>7, <3>1, <3>3, <3>4 DEF ReadOK
  <2> QED  BY <2>1, <2>2
<1> QED  BY <1>3, <1>8, <1>9, <1>10, <1>11, FreeTouch

\* The count is set to the list's reference.
LEMMA LinkRefsStepOK ==
  ASSUME FreeInv, NEW t \in Threads, LinkRefs(t), UNCHANGED producers
  PROVE  FreeInv'
<1>0. PICK c : c = me[t].node
  OBVIOUS
<1>1. /\ Shaped /\ DOMAIN me[t] = Locals /\ ListTypes /\ PoolOK(me[t]) /\ ReadOK(t)
      /\ \A u \in Threads : ReadOK(u)
  BY FreeIs
<1>2. /\ me[t].pc = "linkrefs" /\ UNCHANGED <<initialPool, freeListHead, freeListNext, producers>>
      /\ c \in PoolBlocks /\ UNCHANGED <<initialBlockPoolSize, initialBlockPoolIndex>>
      /\ freeListRefs' = [freeListRefs EXCEPT ![c] = 1] /\ Go(t, "linkswap", me[t])
  BY <1>0, <1>1 DEF LinkRefs, At, PoolOK, Adding, Flagging, initialPool, ListTypes
<1>3. PICK s \in Seq(PoolBlocks) : ListIs(s)
  BY FreeIs
<1>4. OnePlace(c) /\ CountIs(s, c)
  BY <1>2, <1>3 DEF ListIs
<1>5. Hand(me[t]) = c /\ InHand(t, c)
  BY <1>0, <1>2 DEF Hand, InHand, Adding, Flagging
<1>6. OnlyHand(t, c) /\ Referring(c) = {} /\ ~ElementOf(s, c)
  BY <1>2, <1>4, <1>5 DEF OnePlace, CountIs, HeldCount, Flagging, Loose
<1>7. /\ freeListRefs'[c] = 1 /\ DOMAIN freeListRefs' = PoolBlocks
      /\ \A b \in PoolBlocks \ {c} : freeListRefs'[b] = freeListRefs[b]
  BY <1>1, <1>2 DEF ListTypes
<1>8. ListTypes' /\ ChainIs(s)'
  <2>1. ChainIs(s)'
    BY <1>2, <1>3 DEF ListIs, ChainIs, PoolBlocks
  <2>2. ListTypes'
    BY <1>1, <1>2, <1>7 DEF ListTypes, PoolBlocks
  <2> QED  BY <2>1, <2>2
<1> USE PoolLocal DEF PoolLocals
<1>9. /\ Shaped' /\ Others(t) /\ me'[t].freed = me[t].freed /\ PoolOK(me'[t]) /\ ReadOK(t)'
      /\ me'[t].pc = "linkswap"
      /\ Hand(me'[t]) = c /\ \A b : Refers(me'[t], b) <=> Refers(me[t], b)
  BY <1>0, <1>1, <1>2, GoPool
  DEF Others, PoolOK, ReadOK, Hand, Refers, Adding, Flagging, Getting, PoolSteps, CallsPool
<1>10. HandsOnly(t) /\ InHand(t, c)'
  BY <1>2, <1>9 DEF HandsOnly, InHand
<1>11. OnlyHand(t, c)' /\ HeldCount(t, c)'
  <2>1. OnlyHand(t, c)'
    BY <1>2, <1>6, <1>10, HandKeeps
  <2>2. References(c)' = References(c)
    BY <1>9, ReferringSame
  <2>3. References(c)' = 0
    BY <1>6, <2>2, ReferencesAre
  <2> QED  BY <1>7, <1>9, <2>1, <2>3 DEF HeldCount, Flagging
<1>12. OnePlace(c)' /\ CountIs(s, c)'
  BY <1>2, <1>6, <1>10, <1>11, HoldsIt
<1>13. \A b \in PoolBlocks \ {c} : SameFor(t, b)
  BY <1>5, <1>7, <1>9, <1>10, NotInHand
<1>14. \A u \in Threads : ReadOK(u)'
  BY <1>1, <1>2, <1>9, ReadKept
<1> QED  BY <1>3, <1>8, <1>9, <1>12, <1>13, <1>14, FreeTouch

\* The node becomes the head of the list, or another thread has changed the head.
LEMMA LinkSwapStepOK ==
  ASSUME FreeInv, NEW t \in Threads, LinkSwap(t), UNCHANGED producers
  PROVE  FreeInv'
<1>0. PICK c : c = me[t].node
  OBVIOUS
<1>1. /\ Shaped /\ DOMAIN me[t] = Locals /\ ListTypes /\ PoolOK(me[t]) /\ ReadOK(t)
      /\ \A u \in Threads : ReadOK(u)
  BY FreeIs
<1>2. /\ me[t].pc = "linkswap" /\ UNCHANGED <<initialPool, freeListRefs, freeListNext, producers>>
      /\ c \in PoolBlocks /\ UNCHANGED <<initialBlockPoolSize, initialBlockPoolIndex>>
      /\ freeListNext[c] = me[t].listHead /\ initialBlockPoolIndex' \in Nat
  BY <1>0, <1>1 DEF LinkSwap, At, PoolOK, ReadOK, Adding, Flagging, initialPool, ListTypes
<1>3. PICK s \in Seq(PoolBlocks) : ListIs(s)
  BY FreeIs
<1>4. OnePlace(c) /\ CountIs(s, c) /\ ChainIs(s)
  BY <1>2, <1>3 DEF ListIs
<1>5. Hand(me[t]) = c /\ InHand(t, c) /\ \A b : ~Refers(me[t], b)
  BY <1>0, <1>2 DEF Hand, InHand, Refers, Adding, Flagging
<1>6. OnlyHand(t, c) /\ freeListRefs[c] = References(c) + 1 /\ ~ElementOf(s, c)
  BY <1>2, <1>4, <1>5 DEF OnePlace, CountIs, HeldCount, Flagging, Loose
<1>7. ListTypes
  BY <1>1
<1> USE PoolLocal DEF PoolLocals
<1>8. CASE freeListHead = me[t].listHead
  <2>1. freeListHead' = c /\ Added(t) /\ me[t].pc \in Adding
    BY <1>0, <1>2, <1>8 DEF LinkSwap, Adding
  <2>2. /\ Shaped' /\ Others(t) /\ me'[t].freed = me[t].freed /\ PoolOK(me'[t]) /\ ReadOK(t)'
        /\ Hand(me'[t]) = None /\ \A b \in PoolBlocks : ~Refers(me'[t], b)
    BY <1>1, <2>1, AddedIs
  <2>3. HandsOnly(t) /\ ~InHand(t, c)'
    BY <1>2, <2>2, NotBlock DEF HandsOnly, InHand
  <2>4. Loose(c)'
    BY <1>2, <1>6, <2>3, HandDrops
  <2>5. PICK z \in Seq(PoolBlocks) :
          ChainIs(z)' /\ ElementOf(z, c) /\ \A b : b # c => (ElementOf(z, b) <=> ElementOf(s, b))
    BY <1>2, <1>4, <1>6, <1>8, <2>1, LongerChain
  <2>6. freeListRefs'[c] = References(c)' + 1
    <3>1. References(c)' = References(c)
      BY <1>2, <1>5, <2>2, ReferringSame
    <3> QED  BY <1>2, <1>6, <3>1
  <2>7. OnePlace(c)' /\ CountIs(z, c)'
    BY <1>2, <2>4, <2>5, <2>6, IsLoose
  <2>8. \A b \in PoolBlocks \ {c} : SameFor(t, b)
    <3>1. \A b \in PoolBlocks \ {c} :
            freeListRefs'[b] = freeListRefs[b] /\ (Refers(me'[t], b) <=> Refers(me[t], b))
      BY <1>2, <1>5, <2>2
    <3>2. HandsOnly(t) /\ Hand(me[t]) \in {None, c} /\ Hand(me'[t]) \in {None, c}
      BY <1>5, <2>2, <2>3
    <3>3. ASSUME NEW b \in PoolBlocks \ {c} PROVE SameFor(t, b)
      BY <3>1, <3>2, NotInHand, SMTT(20)
    <3> QED  BY <3>3
  <2>9. ListTypes' /\ \A u \in Threads : ReadOK(u)'
    <3>1. ListTypes'
      BY <1>1, <1>2 DEF ListTypes, PoolBlocks
    <3> QED  BY <1>1, <1>2, <2>2, <3>1, ReadKept
  <2> QED  BY <1>3, <2>2, <2>5, <2>7, <2>8, <2>9, FreeTouch
<1>9. CASE freeListHead # me[t].listHead
  <2>1. Go(t, "unlink", [me[t] EXCEPT !.listHead = freeListHead]) /\ UNCHANGED freeListHead
    BY <1>9 DEF LinkSwap
  <2>2. freeListHead \in PoolBlocks \cup {None}
    BY <1>4 DEF ChainIs
  <2>3. /\ Shaped' /\ Others(t) /\ me'[t].freed = me[t].freed /\ PoolOK(me'[t]) /\ ReadOK(t)'
        /\ me'[t].pc = "unlink" /\ Hand(me'[t]) = c
        /\ \A b \in PoolBlocks : Refers(me'[t], b) <=> Refers(me[t], b)
    BY <1>0, <1>1, <1>2, <2>1, <2>2, GoPool
    DEF Others, PoolOK, ReadOK, Hand, Refers, Adding, Flagging, Getting, PoolSteps, CallsPool
  <2>4. \A b \in PoolBlocks : SameFor(t, b)
    BY <1>2, <1>5, <2>3, SameForAll DEF Adding, Flagging, Listing
  <2> QED  BY <1>2, <2>1, <2>3, <2>4, FreeStay
<1> QED  BY <1>8, <1>9

\* The list's reference is taken back: the node is put on the list again unless somebody
\* refers to it.
LEMMA UnlinkStepOK ==
  ASSUME FreeInv, NEW t \in Threads, Unlink(t), UNCHANGED producers
  PROVE  FreeInv'
<1>0. PICK c : c = me[t].node
  OBVIOUS
<1>1. /\ Shaped /\ DOMAIN me[t] = Locals /\ ListTypes /\ PoolOK(me[t]) /\ ReadOK(t)
      /\ \A u \in Threads : ReadOK(u)
  BY FreeIs
<1>2. /\ me[t].pc = "unlink" /\ UNCHANGED <<initialPool, freeListHead, freeListNext, producers>>
      /\ c \in PoolBlocks /\ UNCHANGED <<initialBlockPoolSize, initialBlockPoolIndex>>
      /\ freeListRefs[c] \in Nat
      /\ freeListRefs' = [freeListRefs EXCEPT ![c] = @ + SHOULD_BE_ON_FREELIST - 1]
  BY <1>0, <1>1 DEF Unlink, At, PoolOK, Adding, initialPool, ListTypes
<1>3. PICK s \in Seq(PoolBlocks) : ListIs(s)
  BY FreeIs
<1>4. OnePlace(c) /\ CountIs(s, c)
  BY <1>2, <1>3 DEF ListIs
<1>5. Hand(me[t]) = c /\ InHand(t, c) /\ \A b : ~Refers(me[t], b)
  BY <1>0, <1>2 DEF Hand, InHand, Refers, Adding, Flagging
<1>6. OnlyHand(t, c) /\ freeListRefs[c] = References(c) + 1 /\ ~ElementOf(s, c)
  BY <1>2, <1>4, <1>5 DEF OnePlace, CountIs, HeldCount, Flagging, Loose
<1>7. References(c) \in Nat /\ SHOULD_BE_ON_FREELIST \in Nat /\ (References(c) = 0 <=> Referring(c) = {})
  BY ReferencesAre
<1>8. /\ freeListRefs'[c] = References(c) + SHOULD_BE_ON_FREELIST /\ DOMAIN freeListRefs' = PoolBlocks
      /\ \A b \in PoolBlocks \ {c} : freeListRefs'[b] = freeListRefs[b]
  BY <1>1, <1>2, <1>6, <1>7 DEF ListTypes
<1>9. ListTypes' /\ ChainIs(s)'
  <2>1. ChainIs(s)'
    BY <1>2, <1>3 DEF ListIs, ChainIs, PoolBlocks
  <2>2. freeListRefs'[c] \in Nat
    BY <1>7, <1>8
  <2>3. ListTypes'
    BY <1>1, <1>2, <1>8, <2>2 DEF ListTypes, PoolBlocks
  <2> QED  BY <2>1, <2>3
<1> USE PoolLocal DEF PoolLocals
<1>10. CASE freeListRefs[c] = 1
  <2>1. Go(t, "linknext", me[t])
    BY <1>0, <1>10 DEF Unlink
  <2>2. /\ Shaped' /\ Others(t) /\ me'[t].freed = me[t].freed /\ PoolOK(me'[t]) /\ ReadOK(t)'
        /\ me'[t].pc = "linknext" /\ Hand(me'[t]) = c /\ \A b : ~Refers(me'[t], b)
    BY <1>0, <1>1, <1>2, <2>1, GoPool
    DEF Others, PoolOK, ReadOK, Hand, Refers, Adding, Flagging, Getting, PoolSteps, CallsPool
  <2>3. HandsOnly(t) /\ InHand(t, c)'
    BY <1>2, <2>2 DEF HandsOnly, InHand
  <2>4. OnlyHand(t, c)'
    BY <1>2, <1>6, <2>3, HandKeeps
  <2>5. HeldCount(t, c)'
    <3>1. Referring(c)' = Referring(c) /\ Referring(c) = {} /\ References(c) = 0
      BY <1>5, <1>6, <1>7, <1>10, <2>2, ReferringSame
    <3>2. freeListRefs'[c] = SHOULD_BE_ON_FREELIST
      BY <1>7, <1>8, <3>1
    <3> QED  BY <2>2, <3>1, <3>2 DEF HeldCount, Flagging, SHOULD_BE_ON_FREELIST
  <2>6. OnePlace(c)' /\ CountIs(s, c)'
    BY <1>2, <1>6, <2>3, <2>4, <2>5, HoldsIt
  <2>7. \A b \in PoolBlocks \ {c} : SameFor(t, b)
    BY <1>5, <1>8, <2>2, <2>3, NotInHand
  <2>8. \A u \in Threads : ReadOK(u)'
    BY <1>1, <1>2, <2>2, ReadKept
  <2> QED  BY <1>3, <1>9, <2>2, <2>6, <2>7, <2>8, FreeTouch
<1>11. CASE freeListRefs[c] # 1
  <2>1. Added(t) /\ me[t].pc \in Adding
    BY <1>0, <1>2, <1>11 DEF Unlink, Adding
  <2>2. /\ Shaped' /\ Others(t) /\ me'[t].freed = me[t].freed /\ PoolOK(me'[t]) /\ ReadOK(t)'
        /\ Hand(me'[t]) = None /\ \A b \in PoolBlocks : ~Refers(me'[t], b)
    BY <1>1, <2>1, AddedIs
  <2>3. HandsOnly(t) /\ ~InHand(t, c)'
    BY <1>2, <2>2, NotBlock DEF HandsOnly, InHand
  <2>4. Loose(c)'
    BY <1>2, <1>6, <2>3, HandDrops
  <2>5. Referring(c)' = Referring(c) /\ References(c)' = References(c)
    BY <1>2, <1>5, <2>2, ReferringSame
  <2>6. Referring(c)' # {}
    BY <1>6, <1>7, <1>11, <2>5
  <2>7. OnePlace(c)' /\ CountIs(s, c)'
    BY <1>2, <1>6, <1>8, <2>4, <2>5, <2>6, IsLoose
  <2>8. \A b \in PoolBlocks \ {c} : SameFor(t, b)
    <3>1. \A b \in PoolBlocks \ {c} :
            freeListRefs'[b] = freeListRefs[b] /\ (Refers(me'[t], b) <=> Refers(me[t], b))
      BY <1>5, <1>8, <2>2
    <3> QED  BY <1>5, <2>2, <2>3, <3>1, NotInHand
  <2>9. \A u \in Threads : ReadOK(u)'
    BY <1>1, <1>2, <2>2, ReadKept
  <2> QED  BY <1>3, <1>9, <2>2, <2>7, <2>8, <2>9, FreeTouch
<1> QED  BY <1>10, <1>11

\* Every step of the pool keeps the invariant.
LEMMA PoolStepOK ==
  ASSUME FreeInv, NEW t \in Threads, PoolStep(t), UNCHANGED producers
  PROVE  FreeInv'
<1>1. PoolLoad(t) \/ GetHead(t) \/ GetRefs(t) \/ GetNext(t) \/ LinkHead(t) => UNCHANGED poolVars
  BY DEF PoolLoad, GetHead, GetRefs, GetNext, LinkHead
<1> QED
  BY <1>1, LoadStep, TakeStepOK, HoldStepOK, SwapStepOK, TakenStepOK, DropStepOK, AddStepOK,
     LinkNextStepOK, LinkRefsStepOK, LinkSwapStepOK, UnlinkStepOK
  DEF PoolStep

-----------------------------------------------------------------------------
(* The numbers of the block index.                                         *)

\* The base of block number k, the number of the block that has index i, and the number
\* of blocks that n items need.
BaseOf(k) == k * BLOCK_SIZE
Blk(i) == i \div BLOCK_SIZE
Span(n) == Blk(n + BLOCK_SIZE - 1)
BlockOf(k) == BaseOf(k) .. BaseOf(k) + BLOCK_SIZE - 1

\* Division with remainder.
LEMMA Divided ==
  ASSUME NEW d \in Nat \ {0}, NEW i \in Int
  PROVE  /\ i \div d \in Int /\ i % d \in 0 .. d - 1 /\ i = d * (i \div d) + (i % d)
OBVIOUS

\* Products of a divisor are at least that divisor apart.
LEMMA Less ==
  ASSUME NEW d \in Nat \ {0}, NEW a \in Int, NEW b \in Int, a < b
  PROVE  d * a + d <= d * b /\ d * a \in Int /\ d * b \in Int
<1>1. PICK n \in Nat : b = a + 1 + n
  <2>1. b - a - 1 \in Nat /\ b = a + 1 + (b - a - 1)
    OBVIOUS
  <2> QED  BY <2>1
<1>2. d * n \in Nat /\ d * a \in Int
  OBVIOUS
<1>3. d * b = d * a + d + d * n
  BY <1>1
<1> QED  BY <1>2, <1>3

\* The quotient and the remainder of a division are its only ones.
LEMMA Quotient ==
  ASSUME NEW d \in Nat \ {0}, NEW q \in Int, NEW r \in 0 .. d - 1, NEW i \in Int, i = d * q + r
  PROVE  i \div d = q /\ i % d = r
<1>1. /\ i \div d \in Int /\ i % d \in 0 .. d - 1 /\ i = d * (i \div d) + (i % d)
  BY Divided
<1> DEFINE p == i \div d
           s == i % d
<1> HIDE DEF p, s
<1>2. p \in Int /\ s \in 0 .. d - 1 /\ d * p + s = d * q + r
  BY <1>1 DEF p, s
<1>3. ~(p < q)
  <2> SUFFICES ASSUME p < q PROVE FALSE
    OBVIOUS
  <2>1. d * p + d <= d * q /\ d * p \in Int /\ d * q \in Int
    BY <1>2, Less
  <2> DEFINE x == d * p
             y == d * q
  <2>2. x \in Int /\ y \in Int /\ x + d <= y /\ x + s = y + r
    BY <1>2, <2>1
  <2> HIDE DEF x, y
  <2> QED  BY <1>2, <2>2
<1>4. ~(q < p)
  <2> SUFFICES ASSUME q < p PROVE FALSE
    OBVIOUS
  <2>1. d * q + d <= d * p /\ d * p \in Int /\ d * q \in Int
    BY <1>2, Less
  <2> DEFINE x == d * p
             y == d * q
  <2>2. x \in Int /\ y \in Int /\ y + d <= x /\ x + s = y + r
    BY <1>2, <2>1
  <2> HIDE DEF x, y
  <2> QED  BY <1>2, <2>2
<1>5. p = q
  BY <1>2, <1>3, <1>4
<1>6. s = r
  <2> DEFINE y == d * q
  <2>1. y \in Int /\ y + s = y + r
    BY <1>2, <1>5
  <2> HIDE DEF y
  <2> QED  BY <1>2, <2>1
<1> QED  BY <1>5, <1>6 DEF p, s

\* BLOCK_SIZE and the size of the index.
LEMMA Sizes ==
  /\ BLOCK_SIZE \in Nat \ {0} /\ BLOCK_SIZE > 1 /\ IMPLICIT_INITIAL_INDEX_SIZE \in Nat \ {0}
BY QueueAssumption

\* Blocks follow each other without gaps; INVALID_BLOCK_BASE is no base.
LEMMA BaseIs ==
  ASSUME NEW k \in Int
  PROVE  /\ BaseOf(k) \in Int /\ BaseOf(k + 1) = BaseOf(k) + BLOCK_SIZE
         /\ Blk(BaseOf(k)) = k /\ BaseOf(k) # INVALID_BLOCK_BASE
         /\ k >= 0 => BaseOf(k) \in Nat
         /\ BaseOf(0) = 0
         /\ \A j \in Int : j < k => BaseOf(j) + BLOCK_SIZE <= BaseOf(k)
<1> DEFINE d == BLOCK_SIZE
<1>0. d \in Nat \ {0} /\ d > 1
  BY Sizes
<1> HIDE DEF d
<1>1. k * d \in Int /\ (k + 1) * d = k * d + d /\ k * d = d * k
  BY <1>0
<1>2. (k * d) \div d = k /\ (k * d) % d = 0
  <2>1. 0 \in 0 .. d - 1 /\ k * d = d * k + 0
    BY <1>0, <1>1
  <2> QED  BY <1>0, <1>1, <2>1, Quotient
<1>3. k * d # 1
  <2>1. 1 % d = 1
    BY <1>0, Quotient
  <2> QED  BY <1>2, <2>1
<1>4. k >= 0 => k * d \in Nat
  BY <1>0
<1>5. ASSUME NEW j \in Int, j < k PROVE j * d + d <= k * d
  <2>1. d * j + d <= d * k
    BY <1>0, <1>5, Less
  <2> QED  BY <1>0, <2>1
<1>6. 0 * d = 0
  BY <1>0
<1> QED  BY <1>1, <1>2, <1>3, <1>4, <1>5, <1>6 DEF d, BaseOf, Blk, INVALID_BLOCK_BASE

\* The block an index is in.
LEMMA BlkIs ==
  ASSUME NEW i \in Int
  PROVE  /\ Blk(i) \in Int /\ BaseOf(Blk(i)) <= i /\ i < BaseOf(Blk(i)) + BLOCK_SIZE
         /\ Base(i) = BaseOf(Blk(i)) /\ BaseOf(Blk(i)) \in Int
         /\ i >= 0 => Blk(i) \in Nat
         /\ \A k \in Int : BaseOf(k) <= i /\ i < BaseOf(k) + BLOCK_SIZE => k = Blk(i)
<1> DEFINE d == BLOCK_SIZE
<1>0. d \in Nat \ {0} /\ d > 1
  BY Sizes
<1> HIDE DEF d
<1>1. i \div d \in Int /\ i % d \in 0 .. d - 1 /\ i = d * (i \div d) + (i % d)
  BY <1>0, Divided
<1>2. (i \div d) * d = i - (i % d) /\ (i \div d) * d \in Int
  <2> DEFINE q == i \div d
  <2>1. q * d = d * q /\ q * d \in Int
    BY <1>0, <1>1
  <2> HIDE DEF q
  <2>2. i = q * d + (i % d)
    BY <1>1, <2>1 DEF q
  <2> QED  BY <1>1, <2>1, <2>2 DEF q
<1>3. /\ Blk(i) \in Int /\ BaseOf(Blk(i)) = i - (i % d) /\ Base(i) = BaseOf(Blk(i))
      /\ BaseOf(Blk(i)) \in Int
  BY <1>1, <1>2 DEF d, Blk, BaseOf, Base
<1>4. BaseOf(Blk(i)) <= i /\ i < BaseOf(Blk(i)) + d
  BY <1>0, <1>1, <1>3
<1>5. ASSUME NEW k \in Int, BaseOf(k) <= i, i < BaseOf(k) + d PROVE k = Blk(i)
  <2>1. /\ BaseOf(k) \in Int
        /\ k < Blk(i) => BaseOf(k) + d <= BaseOf(Blk(i))
        /\ Blk(i) < k => BaseOf(Blk(i)) + d <= BaseOf(k)
    BY <1>3, BaseIs DEF d
  <2>0. PICK j, x, y : j = Blk(i) /\ x = BaseOf(k) /\ y = BaseOf(Blk(i))
    OBVIOUS
  <2>2. /\ j \in Int /\ x \in Int /\ y \in Int /\ (k < j => x + d <= y) /\ (j < k => y + d <= x)
        /\ y <= i /\ i < y + d /\ x <= i /\ i < x + d
    BY <1>3, <1>4, <1>5, <2>0, <2>1
  <2>3. k = j
    BY <1>0, <2>2
  <2> QED  BY <2>0, <2>3
<1>6. ASSUME i >= 0 PROVE Blk(i) >= 0
  <2>1. Blk(i) < 0 => BaseOf(Blk(i)) + d <= BaseOf(0) /\ BaseOf(0) = 0
    BY <1>3, BaseIs DEF d
  <2> QED  BY <1>0, <1>3, <1>4, <1>6, <2>1
<1> QED  BY <1>0, <1>3, <1>4, <1>5, <1>6 DEF d

\* The blocks of the first n items.
LEMMA SpanIs ==
  ASSUME NEW n \in Nat
  PROVE  /\ Span(n) \in Nat /\ RoundUp(n) = BaseOf(Span(n)) /\ n <= BaseOf(Span(n))
         /\ BaseOf(Span(n)) < n + BLOCK_SIZE
         /\ \A i \in Nat : i < n => Blk(i) < Span(n)
         /\ \A i \in Nat : i >= n => Blk(i) + 1 >= Span(n)
         /\ n > 0 => Span(n) > 0
<1> DEFINE d == BLOCK_SIZE
           m == n + d - 1
<1>0. d \in Nat \ {0} /\ m \in Nat /\ m = n + d - 1 /\ Span(n) = Blk(m) /\ RoundUp(n) = Base(m)
  BY Sizes DEF Span, RoundUp
<1> HIDE DEF d, m
<1>1. /\ Blk(m) \in Nat /\ BaseOf(Blk(m)) <= m /\ m < BaseOf(Blk(m)) + d /\ BaseOf(Blk(m)) \in Int
      /\ Base(m) = BaseOf(Blk(m))
  BY <1>0, BlkIs DEF d
<1>2. n <= BaseOf(Span(n)) /\ BaseOf(Span(n)) < n + d
  BY <1>0, <1>1
<1>3. ASSUME NEW i \in Nat, i < n PROVE Blk(i) < Span(n)
  <2>1. Blk(i) \in Nat /\ BaseOf(Blk(i)) <= i /\ BaseOf(Blk(i)) \in Int
    BY BlkIs
  <2>2. Span(n) < Blk(i) => BaseOf(Span(n)) + d <= BaseOf(Blk(i))
    BY <1>0, <1>1, <2>1, BaseIs DEF d
  <2>3. BaseOf(Blk(i)) < BaseOf(Span(n))
    BY <1>0, <1>1, <1>2, <1>3, <2>1
  <2> QED  BY <1>0, <1>1, <1>2, <2>1, <2>2, <2>3
<1>4. ASSUME NEW i \in Nat, i >= n PROVE Blk(i) + 1 >= Span(n)
  <2>1. Blk(i) \in Nat /\ i < BaseOf(Blk(i)) + d /\ BaseOf(Blk(i)) \in Int
        /\ BaseOf(Blk(i) + 1) = BaseOf(Blk(i)) + d /\ BaseOf(Blk(i) + 1) \in Int
    BY BlkIs, BaseIs DEF d
  <2>2. Blk(i) + 1 < Span(n) => BaseOf(Blk(i) + 1) + d <= BaseOf(Span(n))
    BY <1>0, <1>1, <2>1, BaseIs DEF d
  <2> QED  BY <1>0, <1>1, <1>2, <1>4, <2>1, <2>2
<1>5. ASSUME n > 0 PROVE Span(n) > 0
  <2>1. 0 \in Nat /\ Blk(0) \in Nat
    BY BlkIs
  <2> QED  BY <1>0, <1>1, <1>3, <1>5, <2>1
<1> QED  BY <1>0, <1>1, <1>2, <1>3, <1>4, <1>5 DEF d

\* The span after n more items that fill up to block j.
LEMMA SpanGrows ==
  ASSUME NEW n \in Nat, NEW k \in Nat, n <= BaseOf(k), k > 0 => BaseOf(k - 1) < n
  PROVE  Span(n) = k
<1> DEFINE d == BLOCK_SIZE
<1>0. d \in Nat \ {0}
  BY Sizes
<1>1. Span(n) \in Nat /\ n <= BaseOf(Span(n)) /\ BaseOf(Span(n)) < n + d /\ BaseOf(Span(n)) \in Int
      /\ BaseOf(k) \in Int
  BY SpanIs, BaseIs
<1>2. ~(k < Span(n))
  <2>1. k < Span(n) => BaseOf(k) + d <= BaseOf(Span(n))
    BY <1>1, BaseIs
  <2> HIDE DEF d
  <2> QED  BY <1>0, <1>1, <2>1
<1>3. ~(Span(n) < k)
  <2> SUFFICES ASSUME Span(n) < k PROVE FALSE
    OBVIOUS
  <2>1. Span(n) <= k - 1 /\ k - 1 \in Nat /\ BaseOf(k - 1) \in Int
    BY <1>1, BaseIs
  <2>2. Span(n) < k - 1 => BaseOf(Span(n)) + d <= BaseOf(k - 1)
    BY <1>1, <2>1, BaseIs
  <2>3. BaseOf(Span(n)) <= BaseOf(k - 1)
    <3>1. CASE Span(n) = k - 1
      BY <2>1, <3>1
    <3>2. CASE Span(n) < k - 1
      BY <1>0, <1>1, <2>1, <2>2, <3>2
    <3> QED  BY <1>1, <2>1, <3>1, <3>2
  <2> HIDE DEF d
  <2> QED  BY <1>1, <2>1, <2>3
<1> QED  BY <1>1, <1>2, <1>3

\* Places in the circular index.
LEMMA WrapIs ==
  ASSUME NEW a \in Int
  PROVE  /\ Wrap(a) \in Slots /\ Wrap(a) \in Int
         /\ \A b \in Int : Wrap(Wrap(a) + b) = Wrap(a + b)
         /\ Wrap(a + IMPLICIT_INITIAL_INDEX_SIZE) = Wrap(a)
<1> DEFINE d == IMPLICIT_INITIAL_INDEX_SIZE
<1>0. d \in Nat \ {0} /\ Slots = 0 .. d - 1 /\ \A x : Wrap(x) = x % d
  BY Sizes DEF Slots, Wrap
<1> HIDE DEF d
<1>1. a \div d \in Int /\ a % d \in 0 .. d - 1 /\ a = d * (a \div d) + (a % d)
  BY <1>0, Divided
<1> DEFINE q == a \div d
           r == a % d
<1>2. q \in Int /\ r \in 0 .. d - 1 /\ a = d * q + r
  BY <1>1
<1> HIDE DEF q, r
<1>3. ASSUME NEW b \in Int PROVE (r + b) % d = (a + b) % d
  <2>1. (r + b) \div d \in Int /\ (r + b) % d \in 0 .. d - 1
        /\ r + b = d * ((r + b) \div d) + ((r + b) % d)
    <3>1. r + b \in Int
      BY <1>0, <1>2
    <3> QED  BY <1>0, <3>1, Divided
  <2> DEFINE q2 == (r + b) \div d
             r2 == (r + b) % d
  <2>2. q2 \in Int /\ r2 \in 0 .. d - 1 /\ r + b = d * q2 + r2
    BY <2>1
  <2> HIDE DEF q2, r2
  <2>3. d * (q + q2) = d * q + d * q2 /\ d * q \in Int /\ d * q2 \in Int
    BY <1>0, <1>2, <2>2
  <2>4. a + b = d * (q + q2) + r2
    <3> DEFINE x == d * q
               y == d * q2
               z == d * (q + q2)
    <3>1. x \in Int /\ y \in Int /\ z = x + y /\ a = x + r /\ r + b = y + r2
      BY <1>2, <2>2, <2>3
    <3> HIDE DEF x, y, z
    <3>2. a + b = z + r2
      BY <1>2, <2>2, <3>1
    <3> QED  BY <3>2 DEF z
  <2>5. (a + b) % d = r2
    <3>1. PICK x, y : x = a + b /\ y = q + q2
      OBVIOUS
    <3>2. x \in Int /\ y \in Int /\ x = d * y + r2
      BY <1>2, <2>2, <2>4, <3>1
    <3>3. x \div d = y /\ x % d = r2
      <4>1. d \in Nat \ {0} /\ r2 \in 0 .. d - 1
        BY <1>0, <2>2
      <4> HIDE <1>0, <2>2
      <4> QED  BY <3>2, <4>1, Quotient
    <3> QED  BY <3>1, <3>3
  <2> QED  BY <2>5 DEF r2
<1>4. (a + d) % d = r
  <2>1. d * (q + 1) = d * q + d /\ d * q \in Int
    BY <1>0, <1>2
  <2>2. a + d = d * (q + 1) + r
    <3> DEFINE x == d * q
               z == d * (q + 1)
    <3>1. x \in Int /\ z = x + d /\ a = x + r
      BY <1>2, <2>1
    <3> HIDE DEF x, z
    <3>2. a + d = z + r
      BY <1>0, <1>2, <3>1
    <3> QED  BY <3>2 DEF z
  <2> QED  BY <1>0, <1>2, <2>2, Quotient
<1>5. Wrap(a) = r /\ r \in Slots /\ r \in Int
  BY <1>0, <1>2 DEF r
<1>6. \A b \in Int : Wrap(Wrap(a) + b) = Wrap(a + b)
  BY <1>0, <1>3, <1>5
<1>7. Wrap(a + d) = Wrap(a)
  BY <1>0, <1>4, <1>5
<1> QED  BY <1>5, <1>6, <1>7 DEF d

\* get_block_index_index_for_index, from an entry of block j.
LEMMA SlotForIs ==
  ASSUME NEW q, NEW tail, NEW j \in Int, q.key[tail] = BaseOf(j), tail = Wrap(j), NEW i \in Int
  PROVE  SlotFor(q, tail, i) = Wrap(Blk(i))
<1> DEFINE d == BLOCK_SIZE
           k == Blk(i)
<1>0. d \in Nat \ {0}
  BY Sizes
<1>1. k \in Int /\ Base(i) = BaseOf(k)
  BY BlkIs
<1>2. (BaseOf(k) - BaseOf(j)) \div d = k - j
  <2> HIDE DEF d, k
  <2>1. k * d - j * d = (k - j) * d /\ k - j \in Int
    BY <1>0, <1>1
  <2>2. Blk(BaseOf(k - j)) = k - j
    BY <2>1, BaseIs
  <2> QED  BY <2>1, <2>2 DEF BaseOf, Blk, d
<1>3. SlotFor(q, tail, i) = Wrap(Wrap(j) + (k - j))
  BY <1>1, <1>2 DEF SlotFor
<1> HIDE DEF d, k
<1>4. Wrap(Wrap(j) + (k - j)) = Wrap(j + (k - j)) /\ j + (k - j) = k
  BY <1>1, WrapIs
<1> QED  BY <1>3, <1>4 DEF k

-----------------------------------------------------------------------------
(* The block index: its inductive invariant.                               *)

\* The thread is getting a block for the entry it has just made.
Gets(m) == m.pc = "attach" \/ CallsPool(m, "attach")

\* Entries of the blocks an enqueue adds.
Extra(m) == Len(m.blocks) + (IF Gets(m) THEN 1 ELSE 0)

\* An entry's key is invalid or the base of a block that has its place there; only an
\* entry with a key has a block.
KeyOf(q, s) == q.key[s] \in Nat /\ q.key[s] = BaseOf(Blk(q.key[s])) /\ s = Wrap(Blk(q.key[s]))
KeysOK(q) ==
  /\ DOMAIN q = DOMAIN ImplicitProducer
  /\ q.tail \in Slots /\ DOMAIN q.key = Slots /\ DOMAIN q.value = Slots
  /\ \A s \in Slots : /\ q.key[s] = INVALID_BLOCK_BASE \/ KeyOf(q, s)
                      /\ q.value[s] \in PoolBlocks \cup {None}
                      /\ q.value[s] # None => KeyOf(q, s)

\* The tail of the index when n blocks follow those of the published items.
TailOK(q, n) ==
  /\ q.tail = Wrap(Span(q.tailIndex) + n - 1)
  /\ \A k \in 0 .. Span(q.tailIndex) + n - 1 : KeyOf(q, Wrap(k))

\* Entry of block number k.
EntryIs(q, k, b) == q.key[Wrap(k)] = BaseOf(k) /\ q.value[Wrap(k)] = b

\* The indices that a thread has claimed and not yet emptied.
Emptied(m) == m.pc \in {"detach", "freed"} \/ CallsPool(m, "freed")
Debt(m) ==
  IF m.pc \in {"find", "key", "move"} \/ Emptied(m) THEN m.index .. m.end - 1
  ELSE IF m.pc = "empty" THEN m.index - m.count .. m.end - 1 ELSE {}
Owes(l, p, t, i) == l[t].ptr = p /\ i \in Debt(l[t])

\* The indices of producer p in block k that nobody has emptied.
Rest(q, l, p, i) == i >= q.headIndex \/ \E t \in Threads : Owes(l, p, t, i)
RestOf(q, l, p, k) == {i \in BlockOf(k) : Rest(q, l, p, i)}

\* A block that is not yet empty is in the index, with the count of what was emptied.
LiveOK(q, l, p, elems) ==
  \A k \in 0 .. Span(q.tailIndex) - 1 : RestOf(q, l, p, k) # {} =>
    /\ q.key[Wrap(k)] = BaseOf(k) /\ q.value[Wrap(k)] \in PoolBlocks
    /\ elems[q.value[Wrap(k)]] = BLOCK_SIZE - Cardinality(RestOf(q, l, p, k))

\* No item is claimed twice.
DebtsOK(q, l, p) ==
  /\ \A t \in Threads : \A i \in Int : Owes(l, p, t, i) => i \in Nat /\ i < q.headIndex
  /\ \A t, u \in Threads : \A i \in Int : Owes(l, p, t, i) /\ Owes(l, p, u, i) => t = u

\* The blocks an enqueue has put into the index and not published.
WriterOK(q, m, elems) ==
  /\ m.blocks \in Seq(PoolBlocks)
  /\ TailOK(q, Extra(m))
  /\ \A j \in DOMAIN m.blocks :
       /\ EntryIs(q, Span(q.tailIndex) + Len(m.freed) + j - 1, m.blocks[j])
       /\ elems[m.blocks[j]] = 0
  /\ CallsPool(m, "unindex") => m.blocks = << >>
  /\ Gets(m) => /\ EntryIs(q, Span(q.tailIndex) + Len(m.blocks), None)
                /\ BaseOf(Span(q.tailIndex) + Len(m.blocks)) < q.tailIndex + Len(m.items)
  /\ m.blocks # << >> /\ m.pc # "unindex" =>
       BaseOf(Span(q.tailIndex) + Len(m.blocks) - 1) < q.tailIndex + Len(m.items)

\* A dequeue asks for items and claims some.
AskOK(m) ==
  /\ m.pc # "assert"
  /\ m.pc \in {"rotate", "tail"} \cup Claiming => m.max > 0
  /\ m.pc \in {"claim", "again", "head", "correct"} => m.want > 0
  /\ m.pc = "correct" => m.n < m.want
  /\ m.pc = "head" => m.n > 0

\* The slot of the block that a dequeue empties.
Ended(m) == m.index = m.end \/ m.index = BaseOf(Blk(m.index - 1) + 1)
TakerOK(q, m) ==
  /\ m.pc \in {"find", "key", "move", "empty"} \/ Emptied(m) =>
       m.index \in Nat /\ m.end \in Nat /\ m.index <= m.end
  /\ m.pc \in {"find", "key", "move"} => m.index < m.end
  /\ m.pc = "key" => m.slot \in Slots /\ KeyOf(q, m.slot)
  /\ m.pc = "move" => m.slot = Wrap(Blk(m.index))
  /\ m.pc = "empty" \/ Emptied(m) =>
       m.index > 0 /\ m.slot = Wrap(Blk(m.index - 1)) /\ Ended(m)
  /\ m.pc = "empty" => /\ m.count \in Nat \ {0} /\ m.count <= m.index
                       /\ Blk(m.index - m.count) = Blk(m.index - 1) /\ q.value[m.slot] = m.block

\* A block that a thread has found empty is still in the index.
DetachOK(q, l, m, p) ==
  m.pc = "detach" =>
    /\ m.block \in PoolBlocks /\ EntryIs(q, Blk(m.index - 1), m.block)
    /\ Blk(m.index - 1) < Span(q.tailIndex)
    /\ RestOf(q, l, p, Blk(m.index - 1)) = {}

ThreadOK(t) ==
  /\ IF Enqueuing(t)
     THEN WriterOK(producers[me[t].producer], me[t], elementsCompletelyDequeued)
     ELSE me[t].blocks = << >>
  /\ AskOK(me[t])
  /\ Consuming(t) /\ me[t].pc # "rotate" =>
       /\ TakerOK(producers[me[t].ptr], me[t])
       /\ DetachOK(producers[me[t].ptr], me, me[t], me[t].ptr)

DetachersApart ==
  \A t, u \in Threads :
    me[t].pc = "detach" /\ me[u].pc = "detach" /\ me[t].ptr = me[u].ptr /\ me[t].slot = me[u].slot
      => t = u

Unwritten(p) == \A t \in Threads : Enqueuing(t) => me[t].producer # p
IndexOK(p) ==
  /\ KeysOK(producers[p]) /\ LiveOK(producers[p], me, p, elementsCompletelyDequeued)
  /\ DebtsOK(producers[p], me, p) /\ (Unwritten(p) => TailOK(producers[p], 0))

IndexInv ==
  /\ DOMAIN elementsCompletelyDequeued = PoolBlocks
  /\ \A b \in PoolBlocks : elementsCompletelyDequeued[b] \in Int
  /\ \A p \in Names : IndexOK(p)
  /\ \A t \in Threads : ThreadOK(t)
  /\ DetachersApart
-----------------------------------------------------------------------------
(* What a step keeps of the block index.                                   *)

\* The locals the block index is about.
IndexLocals == {"producer", "items", "blocks", "freed", "ptr", "max", "n", "want", "index", "end",
                "slot", "count", "block", "node", "back"}
\* Every local of an enqueue or a dequeue is one.
LEMMA IndexLocal == IndexLocals \subseteq Locals \ {"pc"}
BY DEF Locals, Idle, IndexLocals

\* What Go does to the locals that the index is about.
LEMMA GoIndex ==
  ASSUME Shaped, NEW t \in Threads, NEW pc, NEW m, DOMAIN m = Locals, Go(t, pc, m)
  PROVE  /\ Shaped' /\ Others(t) /\ me'[t].pc = pc
         /\ me'[t].producer = m.producer /\ me'[t].items = m.items /\ me'[t].blocks = m.blocks
         /\ me'[t].freed = m.freed /\ me'[t].ptr = m.ptr /\ me'[t].max = m.max /\ me'[t].n = m.n
         /\ me'[t].want = m.want /\ me'[t].index = m.index /\ me'[t].end = m.end
         /\ me'[t].slot = m.slot /\ me'[t].count = m.count /\ me'[t].block = m.block
         /\ me'[t].node = m.node /\ me'[t].back = m.back
<1>1. \A f \in IndexLocals : me'[t][f] = m[f]
  BY GoMakes, IndexLocal
<1> QED  BY <1>1, GoMakes DEF IndexLocals, Others

\* The numbers of a producer.
LEMMA ProducerIs ==
  ASSUME QueueInv, ClaimsPublished, NEW p \in Names
  PROVE  /\ producers[p].headIndex \in Nat /\ producers[p].tailIndex \in Nat
         /\ producers[p].headIndex <= producers[p].tailIndex
         /\ Span(producers[p].tailIndex) \in Nat
<1>1. producers[p].headIndex \in Nat /\ producers[p].tailIndex \in Nat
  BY DEF QueueInv, CounterInv, Counters
<1> QED  BY <1>1, SpanIs DEF ClaimsPublished

\* The producers of a thread that enqueues and of one that dequeues.
LEMMA TheirProducers ==
  ASSUME QueueInv, NEW t \in Threads
  PROVE  /\ Enqueuing(t) => me[t].producer \in Names
         /\ Consuming(t) /\ me[t].pc # "rotate" => me[t].ptr \in Names
<1>1. ProducersOf(t) \subseteq Listed /\ Listed \subseteq Names /\ RingOK(t)
      /\ (Enqueuing(t) => me[t].producer \in ProducersOf(t))
  BY DEF QueueInv, ListInv, RingInv, OwnInv, Settled
<1> QED  BY <1>1 DEF RingOK, OnRing

\* A block's indices, and those of them that are left.
LEMMA BlockOfIs ==
  ASSUME NEW k \in Int
  PROVE  /\ BlockOf(k) \subseteq Int /\ IsFiniteSet(BlockOf(k)) /\ Cardinality(BlockOf(k)) = BLOCK_SIZE
         /\ \A i \in Int : i \in BlockOf(k) <=> Blk(i) = k
         /\ k >= 0 => BlockOf(k) \subseteq Nat
<1>1. BaseOf(k) \in Int /\ BLOCK_SIZE \in Nat \ {0} /\ (k >= 0 => BaseOf(k) \in Nat)
  BY BaseIs, Sizes
<1> DEFINE a == BaseOf(k)
           b == a + BLOCK_SIZE - 1
<1>2. a \in Int /\ b \in Int /\ BlockOf(k) = a .. b
  BY <1>1 DEF BlockOf
<1> HIDE DEF a, b
<1>3. IsFiniteSet(a .. b) /\ Cardinality(a .. b) = IF a > b THEN 0 ELSE b - a + 1
  BY <1>2, FS_Interval
<1>4. b - a + 1 = BLOCK_SIZE /\ ~(a > b)
  BY <1>1 DEF a, b
<1>5. ASSUME NEW i \in Int PROVE i \in BlockOf(k) <=> Blk(i) = k
  <2>1. /\ Blk(i) \in Int /\ BaseOf(Blk(i)) <= i /\ i < BaseOf(Blk(i)) + BLOCK_SIZE
        /\ BaseOf(k) <= i /\ i < BaseOf(k) + BLOCK_SIZE => k = Blk(i)
    BY BlkIs
  <2> QED  BY <1>1, <2>1 DEF BlockOf
<1>6. k >= 0 => BlockOf(k) \subseteq Nat
  BY <1>1 DEF BlockOf
<1> QED  BY <1>2, <1>3, <1>4, <1>5, <1>6

\* What is left of a block is finite, and not more than a block holds.
LEMMA RestIs ==
  ASSUME NEW q, NEW l, NEW p, NEW k \in Int
  PROVE  /\ RestOf(q, l, p, k) \subseteq Int /\ IsFiniteSet(RestOf(q, l, p, k))
         /\ Cardinality(RestOf(q, l, p, k)) \in 0 .. BLOCK_SIZE
         /\ Cardinality(RestOf(q, l, p, k)) = 0 <=> RestOf(q, l, p, k) = {}
<1>1. RestOf(q, l, p, k) \subseteq BlockOf(k)
  BY DEF RestOf
<1>2. /\ BlockOf(k) \subseteq Int /\ IsFiniteSet(BlockOf(k)) /\ Cardinality(BlockOf(k)) = BLOCK_SIZE
  BY BlockOfIs
<1>3. /\ IsFiniteSet(RestOf(q, l, p, k)) /\ Cardinality(RestOf(q, l, p, k)) <= BLOCK_SIZE
  BY <1>1, <1>2, FS_Subset
<1>4. /\ Cardinality(RestOf(q, l, p, k)) \in Nat
      /\ Cardinality(RestOf(q, l, p, k)) = 0 <=> RestOf(q, l, p, k) = {}
  BY <1>3, FS_CardinalityType, FS_EmptySet
<1> QED  BY <1>1, <1>2, <1>3, <1>4, Sizes

\* The same claims leave the same items.
LEMMA RestKept ==
  ASSUME NEW q, NEW r, NEW l, NEW n, NEW p, NEW k \in Int, r.headIndex = q.headIndex,
         \A t \in Threads : \A i \in Int : Owes(n, p, t, i) <=> Owes(l, p, t, i)
  PROVE  RestOf(r, n, p, k) = RestOf(q, l, p, k)
<1>1. BlockOf(k) \subseteq Int
  BY BlockOfIs
<1>2. \A i \in BlockOf(k) : Rest(r, n, p, i) <=> Rest(q, l, p, i)
  BY <1>1 DEF Rest
<1> QED  BY <1>2 DEF RestOf

\* The block of an item that is not yet emptied.
LEMMA LiveIs ==
  ASSUME QueueInv, ClaimsPublished, NEW p \in Names, IndexOK(p), NEW t \in Threads, NEW i \in Int,
         Owes(me, p, t, i)
  PROVE  /\ i \in Nat /\ i < producers[p].headIndex
         /\ Blk(i) \in 0 .. Span(producers[p].tailIndex) - 1 /\ i \in RestOf(producers[p], me, p, Blk(i))
         /\ producers[p].key[Wrap(Blk(i))] = BaseOf(Blk(i))
         /\ producers[p].value[Wrap(Blk(i))] \in PoolBlocks
         /\ elementsCompletelyDequeued[producers[p].value[Wrap(Blk(i))]]
              = BLOCK_SIZE - Cardinality(RestOf(producers[p], me, p, Blk(i)))
<1>1. i \in Nat /\ i < producers[p].headIndex
  BY DEF IndexOK, DebtsOK
<1>2. /\ producers[p].headIndex \in Nat /\ producers[p].tailIndex \in Nat
      /\ producers[p].headIndex <= producers[p].tailIndex
      /\ Span(producers[p].tailIndex) \in Nat
  BY ProducerIs
<1>3. Blk(i) \in Nat /\ Blk(i) < Span(producers[p].tailIndex)
  <2>1. PICK n \in Nat : n = producers[p].tailIndex
    BY <1>2
  <2>2. i \in Nat /\ i < n
    BY <1>1, <1>2, <2>1
  <2>3. Blk(i) \in Nat
    BY <2>2, BlkIs
  <2>4. Blk(i) < Span(n)
    BY <2>2, SpanIs
  <2> QED  BY <2>1, <2>3, <2>4
<1>4. i \in RestOf(producers[p], me, p, Blk(i))
  <2>1. i \in BlockOf(Blk(i))
    BY <1>3, BlockOfIs
  <2> QED  BY <2>1 DEF RestOf, Rest
<1>5. Blk(i) \in 0 .. Span(producers[p].tailIndex) - 1
  BY <1>2, <1>3
<1> QED  BY <1>1, <1>4, <1>5 DEF IndexOK, LiveOK

\* The block that a dequeue has just moved items out of.
LEMMA EmptyIs ==
  ASSUME QueueInv, ClaimsPublished, NEW t \in Threads, IndexOK(me[t].ptr), ThreadOK(t),
         me[t].pc = "empty"
  PROVE  LET p == me[t].ptr
             q == producers[p]
             k == Blk(me[t].index - 1)
         IN  /\ p \in Names /\ me[t].slot = Wrap(k) /\ k \in 0 .. Span(q.tailIndex) - 1
             /\ EntryIs(q, k, me[t].block) /\ me[t].block \in PoolBlocks
             /\ elementsCompletelyDequeued[me[t].block] = BLOCK_SIZE - Cardinality(RestOf(q, me, p, k))
             /\ RestOf(q, me, p, k) # {}
<1> DEFINE p == me[t].ptr
           i == me[t].index - me[t].count
<1>1. Consuming(t) /\ me[t].pc # "rotate"
  BY DEF Consuming, Taking, Moving
<1>2. p \in Names /\ TakerOK(producers[p], me[t])
  BY <1>1, TheirProducers DEF ThreadOK
<1>3. /\ me[t].index \in Nat /\ me[t].end \in Nat /\ me[t].index <= me[t].end
      /\ me[t].count \in Nat \ {0} /\ me[t].count <= me[t].index
      /\ Blk(i) = Blk(me[t].index - 1) /\ me[t].slot = Wrap(Blk(me[t].index - 1))
      /\ producers[p].value[me[t].slot] = me[t].block
  BY <1>2 DEF TakerOK
<1>4. i \in Int /\ Owes(me, p, t, i)
  BY <1>3 DEF Owes, Debt, Emptied, CallsPool, PoolSteps
<1> HIDE DEF p, i
<1>5. IndexOK(p)
  BY DEF p
<1>6. /\ Blk(i) \in 0 .. Span(producers[p].tailIndex) - 1 /\ i \in RestOf(producers[p], me, p, Blk(i))
      /\ producers[p].key[Wrap(Blk(i))] = BaseOf(Blk(i))
      /\ producers[p].value[Wrap(Blk(i))] \in PoolBlocks
      /\ elementsCompletelyDequeued[producers[p].value[Wrap(Blk(i))]]
           = BLOCK_SIZE - Cardinality(RestOf(producers[p], me, p, Blk(i)))
  BY <1>2, <1>4, <1>5, LiveIs
<1> QED  BY <1>2, <1>3, <1>6 DEF EntryIs, p

-----------------------------------------------------------------------------
(* What a step keeps of the block index.                                   *)

\* What a step must keep of an index for the thread that adds to it, and for the others.
WriterSame(q, r) ==
  /\ r.tail = q.tail /\ r.tailIndex = q.tailIndex /\ r.key = q.key
  /\ \A k \in Int : \A b : k >= Span(q.tailIndex) /\ EntryIs(q, k, b) => EntryIs(r, k, b)
KeysSame(q, r) == \A s \in Slots : KeyOf(q, s) => KeyOf(r, s)
EntriesSame(q, r) ==
  \A k \in 0 .. Span(q.tailIndex) - 1 : \A b \in PoolBlocks : EntryIs(q, k, b) => EntryIs(r, k, b)

\* Two blocks with one base are one.
LEMMA OneEntry ==
  ASSUME NEW q, NEW j \in Int, NEW k \in Int, NEW a, NEW b, EntryIs(q, j, a), EntryIs(q, k, b),
         Wrap(j) = Wrap(k)
  PROVE  j = k
<1>1. BaseOf(j) = BaseOf(k)
  BY DEF EntryIs
<1> QED  BY <1>1, BaseIs

\* The writer's view of an index.
LEMMA WriterKept ==
  ASSUME NEW q, NEW r, NEW m, NEW e, NEW f, WriterOK(q, m, e), WriterSame(q, r),
         Span(q.tailIndex) \in Nat, Len(m.freed) \in Nat,
         \A j \in DOMAIN m.blocks : f[m.blocks[j]] = e[m.blocks[j]]
  PROVE  WriterOK(r, m, f)
<1>1. r.tailIndex = q.tailIndex /\ m.blocks \in Seq(PoolBlocks)
  BY DEF WriterOK, WriterSame
<1>2. TailOK(r, Extra(m))
  BY DEF WriterOK, WriterSame, TailOK, KeyOf
<1>3. ASSUME NEW j \in DOMAIN m.blocks
      PROVE  /\ EntryIs(r, Span(r.tailIndex) + Len(m.freed) + j - 1, m.blocks[j])
             /\ f[m.blocks[j]] = 0
  <2>1. j \in Nat \ {0}
    BY <1>1
  <2> DEFINE k == Span(q.tailIndex) + Len(m.freed) + j - 1
  <2>2. k \in Int /\ k >= Span(q.tailIndex)
    BY <2>1
  <2>3. EntryIs(q, k, m.blocks[j]) /\ f[m.blocks[j]] = 0
    BY DEF WriterOK
  <2> HIDE DEF k
  <2>4. EntryIs(r, k, m.blocks[j])
    BY <2>2, <2>3 DEF WriterSame
  <2> QED  BY <1>1, <2>3, <2>4 DEF k
<1>4. ASSUME Gets(m)
      PROVE  EntryIs(r, Span(r.tailIndex) + Len(m.blocks), None)
  <2> DEFINE k == Span(q.tailIndex) + Len(m.blocks)
  <2>1. k \in Int /\ k >= Span(q.tailIndex)
    BY <1>1
  <2>2. EntryIs(q, k, None)
    BY <1>4 DEF WriterOK
  <2> HIDE DEF k
  <2>3. EntryIs(r, k, None)
    BY <2>1, <2>2 DEF WriterSame
  <2> QED  BY <1>1, <2>3 DEF k
<1>5. /\ CallsPool(m, "unindex") => m.blocks = << >>
      /\ Gets(m) => BaseOf(Span(r.tailIndex) + Len(m.blocks)) < r.tailIndex + Len(m.items)
      /\ m.blocks # << >> /\ m.pc # "unindex" =>
           BaseOf(Span(r.tailIndex) + Len(m.blocks) - 1) < r.tailIndex + Len(m.items)
  BY <1>1 DEF WriterOK
<1> QED  BY <1>1, <1>2, <1>3, <1>4, <1>5 DEF WriterOK

\* The blocks of a writer are in its index.
LEMMA WriterBlocks ==
  ASSUME NEW q, NEW m, NEW e, WriterOK(q, m, e), Span(q.tailIndex) \in Nat, Len(m.freed) \in Nat,
         NEW j \in DOMAIN m.blocks
  PROVE  /\ m.blocks[j] \in PoolBlocks
         /\ \E k \in Int : k >= Span(q.tailIndex) /\ EntryIs(q, k, m.blocks[j]) /\ Wrap(k) \in Slots
<1>1. m.blocks \in Seq(PoolBlocks)
  BY DEF WriterOK
<1>2. j \in Nat \ {0} /\ m.blocks[j] \in PoolBlocks
  BY <1>1
<1> DEFINE k == Span(q.tailIndex) + Len(m.freed) + j - 1
<1>3. k \in Int /\ k >= Span(q.tailIndex)
  BY <1>2
<1>4. EntryIs(q, k, m.blocks[j])
  BY DEF WriterOK
<1> HIDE DEF k
<1>5. Wrap(k) \in Slots
  BY <1>3, WrapIs
<1> QED  BY <1>2, <1>3, <1>4, <1>5

\* What holds of another thread still does.
LEMMA OtherKept ==
  ASSUME QueueInv, ClaimsPublished, FreeInv, IndexInv, NEW u \in Threads, me'[u] = me[u],
         NEW p \in Names, NEW q \in Names,
         Enqueuing(u) =>
           /\ p = me[u].producer /\ WriterSame(producers[p], producers'[p])
           /\ \A j \in DOMAIN me[u].blocks :
                elementsCompletelyDequeued'[me[u].blocks[j]] = elementsCompletelyDequeued[me[u].blocks[j]],
         Consuming(u) /\ me[u].pc # "rotate" =>
           /\ q = me[u].ptr /\ KeysSame(producers[q], producers'[q])
           /\ Span(producers[q].tailIndex) <= Span(producers'[q].tailIndex)
           /\ Span(producers'[q].tailIndex) \in Nat
           /\ me[u].pc \in {"empty", "detach"} =>
                (EntryIs(producers[q], Blk(me[u].index - 1), me[u].block)
                   => EntryIs(producers'[q], Blk(me[u].index - 1), me[u].block))
           /\ me[u].pc = "detach" =>
                (RestOf(producers[q], me, q, Blk(me[u].index - 1)) = {}
                   => RestOf(producers'[q], me', q, Blk(me[u].index - 1)) = {})
  PROVE  ThreadOK(u)'
<1>1. ThreadOK(u) /\ IndexOK(q) /\ Len(me[u].freed) \in Nat
  <2>1. me[u].freed \in Seq(PoolBlocks)
    BY DEF FreeInv, PoolOK
  <2> QED  BY <2>1 DEF IndexInv
<1>2. (Enqueuing(u)' <=> Enqueuing(u)) /\ (Consuming(u)' <=> Consuming(u))
  BY DEF Enqueuing, Consuming, Taking
<1>3. ASSUME Enqueuing(u)
      PROVE  WriterOK(producers'[me'[u].producer], me'[u], elementsCompletelyDequeued')
  <2>1. WriterOK(producers[p], me[u], elementsCompletelyDequeued)
    BY <1>1, <1>3 DEF ThreadOK
  <2>2. Span(producers[p].tailIndex) \in Nat
    BY ProducerIs
  <2>3. WriterOK(producers'[p], me[u], elementsCompletelyDequeued')
    BY <1>1, <1>3, <2>1, <2>2, WriterKept
  <2> QED  BY <1>3, <2>3
<1>4. ~Enqueuing(u) => me'[u].blocks = << >>
  BY <1>1 DEF ThreadOK
<1>5. AskOK(me'[u])
  BY <1>1 DEF ThreadOK
<1>6. ASSUME Consuming(u), me[u].pc # "rotate"
      PROVE  /\ TakerOK(producers'[me'[u].ptr], me'[u])
             /\ DetachOK(producers'[me'[u].ptr], me', me'[u], me'[u].ptr)
  <2>1. TakerOK(producers[q], me[u]) /\ DetachOK(producers[q], me, me[u], q)
    BY <1>1, <1>6 DEF ThreadOK
  <2>2. TakerOK(producers'[q], me[u])
    <3>1. me[u].pc = "key" => KeyOf(producers'[q], me[u].slot)
      BY <1>6, <2>1 DEF TakerOK, KeysSame
    <3>2. ASSUME me[u].pc = "empty" PROVE producers'[q].value[me[u].slot] = me[u].block
      <4>1. /\ me[u].slot = Wrap(Blk(me[u].index - 1))
            /\ EntryIs(producers[q], Blk(me[u].index - 1), me[u].block)
        BY <1>1, <1>6, <3>2, EmptyIs
      <4> QED  BY <1>6, <3>2, <4>1 DEF EntryIs
    <3> QED  BY <2>1, <3>1, <3>2 DEF TakerOK
  <2>3. DetachOK(producers'[q], me', me[u], q)
    <3> SUFFICES ASSUME me[u].pc = "detach"
                 PROVE  /\ me[u].block \in PoolBlocks
                        /\ EntryIs(producers'[q], Blk(me[u].index - 1), me[u].block)
                        /\ Blk(me[u].index - 1) < Span(producers'[q].tailIndex)
                        /\ RestOf(producers'[q], me', q, Blk(me[u].index - 1)) = {}
      BY DEF DetachOK
    <3>1. /\ me[u].block \in PoolBlocks /\ EntryIs(producers[q], Blk(me[u].index - 1), me[u].block)
          /\ Blk(me[u].index - 1) < Span(producers[q].tailIndex)
          /\ RestOf(producers[q], me, q, Blk(me[u].index - 1)) = {}
      BY <2>1 DEF DetachOK
    <3>2. me[u].index \in Nat
      BY <2>1 DEF TakerOK, Emptied
    <3>3. Blk(me[u].index - 1) \in Int /\ Span(producers[q].tailIndex) \in Nat
      BY <3>2, BlkIs, ProducerIs
    <3> QED  BY <1>6, <3>1, <3>3
  <2> QED  BY <1>6, <2>2, <2>3
<1> QED  BY <1>2, <1>3, <1>4, <1>5, <1>6 DEF ThreadOK

-----------------------------------------------------------------------------
(* A step keeps the invariant if it keeps what is known of the index.      *)

\* Nothing changes about which indices of a block are left.
RestSame(q, r, l, n, p) ==
  \A k \in 0 .. Span(q.tailIndex) - 1 : RestOf(r, n, p, k) = RestOf(q, l, p, k)

\* Blocks that an enqueue publishes are in the index and none of their items was moved.
NewLive(q, r, n, p, e) ==
  \A k \in Span(q.tailIndex) .. Span(r.tailIndex) - 1 :
    /\ r.key[Wrap(k)] = BaseOf(k) /\ r.value[Wrap(k)] \in PoolBlocks
    /\ e[r.value[Wrap(k)]] = BLOCK_SIZE - Cardinality(RestOf(r, n, p, k))

\* Blocks that are not empty stay in the index, with their counts.
LEMMA LiveKept ==
  ASSUME NEW q, NEW r, NEW l, NEW n, NEW p, NEW e, NEW f,
         Span(q.tailIndex) \in Nat, Span(r.tailIndex) \in Nat,
         LiveOK(q, l, p, e), EntriesSame(q, r), RestSame(q, r, l, n, p), NewLive(q, r, n, p, f),
         \A s \in Slots : q.value[s] \in PoolBlocks => f[q.value[s]] = e[q.value[s]]
  PROVE  LiveOK(r, n, p, f)
<1> SUFFICES ASSUME NEW k \in 0 .. Span(r.tailIndex) - 1, RestOf(r, n, p, k) # {}
             PROVE  /\ r.key[Wrap(k)] = BaseOf(k) /\ r.value[Wrap(k)] \in PoolBlocks
                    /\ f[r.value[Wrap(k)]] = BLOCK_SIZE - Cardinality(RestOf(r, n, p, k))
  BY DEF LiveOK
<1>1. CASE k < Span(q.tailIndex)
  <2>1. k \in 0 .. Span(q.tailIndex) - 1 /\ RestOf(r, n, p, k) = RestOf(q, l, p, k)
    BY <1>1 DEF RestSame
  <2>2. /\ q.key[Wrap(k)] = BaseOf(k) /\ q.value[Wrap(k)] \in PoolBlocks
        /\ e[q.value[Wrap(k)]] = BLOCK_SIZE - Cardinality(RestOf(q, l, p, k))
    BY <2>1 DEF LiveOK
  <2>3. EntryIs(r, k, q.value[Wrap(k)])
    BY <2>1, <2>2 DEF EntriesSame, EntryIs
  <2>4. Wrap(k) \in Slots
    BY WrapIs
  <2> QED  BY <2>1, <2>2, <2>3, <2>4 DEF EntryIs
<1>2. CASE ~(k < Span(q.tailIndex))
  <2>1. k \in Span(q.tailIndex) .. Span(r.tailIndex) - 1
    BY <1>2
  <2> QED  BY <2>1 DEF NewLive
<1> QED  BY <1>1, <1>2

\* The number of a block that a thread has emptied.
LEMMA TakerBlock ==
  ASSUME QueueInv, ClaimsPublished, IndexInv, NEW u \in Threads, me[u].pc \in {"empty", "detach"}
  PROVE  LET p == me[u].ptr
             k == Blk(me[u].index - 1)
         IN  /\ p \in Names /\ k \in 0 .. Span(producers[p].tailIndex) - 1 /\ me[u].slot = Wrap(k)
             /\ EntryIs(producers[p], k, me[u].block) /\ me[u].block \in PoolBlocks
             /\ me[u].pc = "detach" => RestOf(producers[p], me, p, k) = {}
             /\ me[u].pc = "empty" => RestOf(producers[p], me, p, k) # {}
<1>1. Consuming(u) /\ me[u].pc # "rotate" /\ ThreadOK(u)
  BY DEF Consuming, Taking, Moving, IndexInv
<1>2. me[u].ptr \in Names
  BY <1>1, TheirProducers
<1>3. CASE me[u].pc = "empty"
  BY <1>1, <1>2, <1>3, EmptyIs DEF IndexInv
<1>4. CASE me[u].pc = "detach"
  <2>1. TakerOK(producers[me[u].ptr], me[u]) /\ DetachOK(producers[me[u].ptr], me, me[u], me[u].ptr)
    BY <1>1 DEF ThreadOK
  <2>2. me[u].index \in Nat /\ me[u].index > 0 /\ me[u].slot = Wrap(Blk(me[u].index - 1))
    BY <1>4, <2>1 DEF TakerOK, Emptied
  <2>3. Blk(me[u].index - 1) \in Nat /\ Span(producers[me[u].ptr].tailIndex) \in Nat
    BY <1>2, <2>2, BlkIs, ProducerIs
  <2> QED  BY <1>2, <1>4, <2>1, <2>2, <2>3 DEF DetachOK
<1> QED  BY <1>3, <1>4

\* The conditions under which a step of one thread keeps the invariant.
LEMMA IndexFrame ==
  ASSUME QueueInv, ClaimsPublished, FreeInv, IndexInv, NEW t \in Threads, Others(t),
         ThreadOK(t)', me'[t].pc # "detach",
         DOMAIN elementsCompletelyDequeued' = PoolBlocks,
         \A b \in PoolBlocks : elementsCompletelyDequeued'[b] \in Int,
         \A p \in Names : \A s \in Slots : producers[p].value[s] \in PoolBlocks =>
           elementsCompletelyDequeued'[producers[p].value[s]]
             = elementsCompletelyDequeued[producers[p].value[s]],
         \A p \in Names :
           /\ KeysOK(producers'[p]) /\ KeysSame(producers[p], producers'[p])
           /\ EntriesSame(producers[p], producers'[p])
           /\ Span(producers'[p].tailIndex) \in Nat
           /\ Span(producers[p].tailIndex) <= Span(producers'[p].tailIndex)
           /\ RestSame(producers[p], producers'[p], me, me', p)
           /\ NewLive(producers[p], producers'[p], me', p, elementsCompletelyDequeued')
           /\ DebtsOK(producers'[p], me', p)
           /\ Unwritten(p)' => TailOK(producers'[p], 0),
         \A u \in Threads \ {t} : Enqueuing(u) =>
           WriterSame(producers[me[u].producer], producers'[me[u].producer])
  PROVE  IndexInv'
<1>1. ASSUME NEW p \in Names PROVE IndexOK(p)'
  <2>1. LiveOK(producers[p], me, p, elementsCompletelyDequeued) /\ Span(producers[p].tailIndex) \in Nat
    BY ProducerIs DEF IndexInv, IndexOK
  <2>2. LiveOK(producers'[p], me', p, elementsCompletelyDequeued')
    BY <2>1, LiveKept
  <2> QED  BY <2>2 DEF IndexOK
<1>2. ASSUME NEW u \in Threads \ {t} PROVE ThreadOK(u)'
  <2>0. PICK p \in Names, q \in Names : /\ Enqueuing(u) => p = me[u].producer
                                        /\ Consuming(u) /\ me[u].pc # "rotate" => q = me[u].ptr
    <3>1. Names # {}
      <4>1. IsFiniteSet(Threads) /\ Cardinality(Threads) \in Nat
        BY PoolAssumption, FS_CardinalityType
      <4>2. Cardinality(Threads) # 0
        BY <4>1, FS_EmptySet
      <4>3. 1 \in Names
        BY <4>1, <4>2 DEF Names
      <4> QED  BY <4>3
    <3>2. Enqueuing(u) => me[u].producer \in Names
      BY TheirProducers
    <3>3. Consuming(u) /\ me[u].pc # "rotate" => me[u].ptr \in Names
      BY TheirProducers
    <3> QED  BY <3>1, <3>2, <3>3, Zenon
  <2>1. me'[u] = me[u] /\ ThreadOK(u) /\ Len(me[u].freed) \in Nat
    <3>1. me[u].freed \in Seq(PoolBlocks)
      BY DEF FreeInv, PoolOK
    <3> QED  BY <3>1 DEF IndexInv, Others
  <2>2. ASSUME Enqueuing(u), NEW j \in DOMAIN me[u].blocks
        PROVE  elementsCompletelyDequeued'[me[u].blocks[j]] = elementsCompletelyDequeued[me[u].blocks[j]]
    <3>1. WriterOK(producers[p], me[u], elementsCompletelyDequeued) /\ Span(producers[p].tailIndex) \in Nat
      BY <2>0, <2>1, <2>2, ProducerIs DEF ThreadOK
    <3>2. /\ me[u].blocks[j] \in PoolBlocks
          /\ \E k \in Int : EntryIs(producers[p], k, me[u].blocks[j]) /\ Wrap(k) \in Slots
      BY <2>1, <3>1, WriterBlocks
    <3> QED  BY <3>2 DEF EntryIs
  <2>3. me[u].pc \in {"empty", "detach"} =>
          /\ me[u].ptr \in Names
          /\ Blk(me[u].index - 1) \in 0 .. Span(producers[me[u].ptr].tailIndex) - 1
          /\ me[u].block \in PoolBlocks
    BY TakerBlock
  <2>4. Enqueuing(u) => WriterSame(producers[p], producers'[p])
    BY <2>0
  <2>5. /\ KeysSame(producers[q], producers'[q]) /\ Span(producers'[q].tailIndex) \in Nat
        /\ Span(producers[q].tailIndex) <= Span(producers'[q].tailIndex)
    OBVIOUS
  <2>6. ASSUME q = me[u].ptr, me[u].pc \in {"empty", "detach"}
        PROVE  /\ EntryIs(producers[q], Blk(me[u].index - 1), me[u].block)
                    => EntryIs(producers'[q], Blk(me[u].index - 1), me[u].block)
               /\ RestOf(producers[q], me, q, Blk(me[u].index - 1)) = {}
                    => RestOf(producers'[q], me', q, Blk(me[u].index - 1)) = {}
    BY <2>3, <2>6 DEF EntriesSame, RestSame
  <2> QED  BY <2>0, <2>1, <2>2, <2>4, <2>5, <2>6, OtherKept
<1>3. DetachersApart'
  <2>1. DetachersApart
    BY DEF IndexInv
  <2> QED  BY <2>1 DEF DetachersApart, Others
<1> QED  BY <1>1, <1>2, <1>3 DEF IndexInv

\* A step that changes neither what is published nor what is claimed.
LEMMA IndexQuiet ==
  ASSUME QueueInv, ClaimsPublished, FreeInv, IndexInv, NEW t \in Threads, Others(t),
         ThreadOK(t)', me'[t].pc # "detach",
         DOMAIN elementsCompletelyDequeued' = PoolBlocks,
         \A b \in PoolBlocks : elementsCompletelyDequeued'[b] \in Int,
         \A p \in Names : \A s \in Slots : producers[p].value[s] \in PoolBlocks =>
           elementsCompletelyDequeued'[producers[p].value[s]]
             = elementsCompletelyDequeued[producers[p].value[s]],
         \A p \in Names :
           /\ KeysOK(producers'[p]) /\ KeysSame(producers[p], producers'[p])
           /\ EntriesSame(producers[p], producers'[p])
           /\ producers'[p].headIndex = producers[p].headIndex
           /\ producers'[p].tailIndex = producers[p].tailIndex
           /\ \A i \in Int : Owes(me', p, t, i) <=> Owes(me, p, t, i)
           /\ Unwritten(p)' => TailOK(producers'[p], 0),
         \A u \in Threads \ {t} : Enqueuing(u) =>
           WriterSame(producers[me[u].producer], producers'[me[u].producer])
  PROVE  IndexInv'
<1>1. ASSUME NEW p \in Names
      PROVE  /\ Span(producers'[p].tailIndex) \in Nat
             /\ Span(producers[p].tailIndex) <= Span(producers'[p].tailIndex)
             /\ RestSame(producers[p], producers'[p], me, me', p)
             /\ NewLive(producers[p], producers'[p], me', p, elementsCompletelyDequeued')
             /\ DebtsOK(producers'[p], me', p)
  <2>1. Span(producers[p].tailIndex) \in Nat
    BY ProducerIs
  <2>2. Span(producers'[p].tailIndex) = Span(producers[p].tailIndex)
    OBVIOUS
  <2>3. \A u \in Threads : \A i \in Int : Owes(me', p, u, i) <=> Owes(me, p, u, i)
    BY DEF Others, Owes
  <2>4. RestSame(producers[p], producers'[p], me, me', p)
    <3> SUFFICES ASSUME NEW k \in 0 .. Span(producers[p].tailIndex) - 1
                 PROVE  RestOf(producers'[p], me', p, k) = RestOf(producers[p], me, p, k)
      BY DEF RestSame
    <3>1. k \in Int
      BY <2>1
    <3> QED  BY <2>3, <3>1, RestKept
  <2>5. NewLive(producers[p], producers'[p], me', p, elementsCompletelyDequeued')
    BY <2>1, <2>2 DEF NewLive
  <2>6. DebtsOK(producers[p], me, p)
    BY DEF IndexInv, IndexOK
  <2>7. DebtsOK(producers'[p], me', p)
    BY <2>3, <2>6 DEF DebtsOK
  <2> QED  BY <2>1, <2>2, <2>4, <2>5, <2>7
<1> QED  BY <1>1, IndexFrame

\* A step that changes no producer's index and no count.
LEMMA IndexSame ==
  ASSUME QueueInv, ClaimsPublished, FreeInv, IndexInv, NEW t \in Threads, Others(t),
         ThreadOK(t)', me'[t].pc # "detach", elementsCompletelyDequeued' = elementsCompletelyDequeued,
         \A p \in Names :
           /\ DOMAIN producers'[p] = DOMAIN producers[p]
           /\ \A f \in {"tail", "key", "value", "headIndex", "tailIndex"} :
                producers'[p][f] = producers[p][f]
           /\ \A i \in Int : Owes(me', p, t, i) <=> Owes(me, p, t, i)
           /\ Unwritten(p)' => Unwritten(p) \/ TailOK(producers[p], 0)
  PROVE  IndexInv'
<1>1. ASSUME NEW p \in Names
      PROVE  /\ KeysOK(producers'[p]) /\ KeysSame(producers[p], producers'[p])
             /\ EntriesSame(producers[p], producers'[p]) /\ WriterSame(producers[p], producers'[p])
             /\ producers'[p].headIndex = producers[p].headIndex
             /\ producers'[p].tailIndex = producers[p].tailIndex
             /\ Unwritten(p)' => TailOK(producers'[p], 0)
  <2>1. /\ producers'[p].tail = producers[p].tail /\ producers'[p].key = producers[p].key
        /\ producers'[p].value = producers[p].value
        /\ producers'[p].headIndex = producers[p].headIndex
        /\ producers'[p].tailIndex = producers[p].tailIndex
    OBVIOUS
  <2>2. /\ KeysOK(producers'[p])
    BY <2>1 DEF IndexInv, IndexOK, KeysOK, KeyOf
  <2>3. KeysSame(producers[p], producers'[p]) /\ EntriesSame(producers[p], producers'[p])
    BY <2>1 DEF KeysSame, KeyOf, EntriesSame, EntryIs
  <2>4. WriterSame(producers[p], producers'[p])
    BY <2>1 DEF WriterSame, EntryIs
  <2>5. Unwritten(p)' => TailOK(producers[p], 0)
    BY DEF IndexInv, IndexOK
  <2>6. TailOK(producers[p], 0) => TailOK(producers'[p], 0)
    BY <2>1 DEF TailOK, KeyOf
  <2> QED  BY <2>1, <2>2, <2>3, <2>4, <2>5, <2>6
<1>2. \A u \in Threads \ {t} : Enqueuing(u) =>
        WriterSame(producers[me[u].producer], producers'[me[u].producer])
  BY <1>1, TheirProducers
<1>3. DOMAIN elementsCompletelyDequeued = PoolBlocks
      /\ \A b \in PoolBlocks : elementsCompletelyDequeued[b] \in Int
  BY DEF IndexInv
<1> QED  BY <1>1, <1>2, <1>3, IndexQuiet

\* The same, with the producers unchanged.
LEMMA IndexStay ==
  ASSUME QueueInv, ClaimsPublished, FreeInv, IndexInv, NEW t \in Threads, Others(t),
         ThreadOK(t)', me'[t].pc # "detach", elementsCompletelyDequeued' = elementsCompletelyDequeued,
         producers' = producers,
         \A p \in Names :
           /\ \A i \in Int : Owes(me', p, t, i) <=> Owes(me, p, t, i)
           /\ Unwritten(p)' => Unwritten(p) \/ TailOK(producers[p], 0)
  PROVE  IndexInv'
BY IndexSame

-----------------------------------------------------------------------------
(* The steps of the pool and of the hash.                                  *)

\* A step of the pool changes none of the locals that the index is about.
PoolFixed == IndexLocals \ {"block", "node"}
\* What a step of the pool leaves alone.
LEMMA PoolIndex ==
  ASSUME Shaped, NEW t \in Threads, PoolStep(t)
  PROVE  /\ Others(t) /\ me[t].pc \in PoolSteps /\ me'[t].pc \in PoolSteps \cup {me[t].back}
         /\ \A f \in PoolFixed : me'[t][f] = me[t][f]
<1> USE DEF At
<1>1. me[t].pc \in PoolSteps
  BY DEF PoolStep, PoolLoad, PoolTake, GetHead, GetRefs, GetHold, GetNext, GetSwap, GetTaken,
         GetDrop, AddFlag, LinkHead, LinkNext, LinkRefs, LinkSwap, Unlink, PoolSteps
<1> DEFINE Q == /\ Others(t) /\ me'[t].pc \in PoolSteps \cup {me[t].back}
                /\ \A f \in PoolFixed : me'[t][f] = me[t][f]
           Ok(m) == DOMAIN m = Locals /\ \A f \in PoolFixed : m[f] = me[t][f]
<1>2. ASSUME NEW pc, NEW m, Go(t, pc, m), pc \in PoolSteps \cup {me[t].back}, Ok(m)
      PROVE  Q
  <2>1. PoolFixed \subseteq Locals \ {"pc"}
    BY IndexLocal DEF PoolFixed
  <2>2. /\ \A u \in Threads \ {t} : me'[u] = me[u]
        /\ me'[t].pc = pc /\ \A f \in Locals \ {"pc"} : me'[t][f] = m[f]
    BY <1>2, GoMakes
  <2> QED  BY <1>2, <2>1, <2>2 DEF Others
<1>3. /\ Ok(me[t]) /\ \A x : Ok([me[t] EXCEPT !.block = x]) /\ Ok([me[t] EXCEPT !.head = x])
                            /\ Ok([me[t] EXCEPT !.refs = x]) /\ Ok([me[t] EXCEPT !.next = x])
                            /\ Ok([me[t] EXCEPT !.inGet = x]) /\ Ok([me[t] EXCEPT !.listHead = x])
      /\ \A x, y : /\ Ok([me[t] EXCEPT !.head = x, !.node = y])
                   /\ Ok([me[t] EXCEPT !.block = x, !.inGet = y])
  <2>1. DOMAIN me[t] = Locals
    BY DEF Shaped
  <2>2. PoolFixed \subseteq Locals
    BY IndexLocal DEF PoolFixed
  <2> QED  BY <2>1, <2>2 DEF PoolFixed, IndexLocals
<1>4. \A pc, m : Go(t, pc, m) /\ pc \in PoolSteps \cup {me[t].back} /\ Ok(m) => Q
  BY ONLY <1>2
<1> HIDE DEF Ok, Q
<1>5. \A block : Return(t, block) => Q
  BY ZenonT(60), <1>3, <1>4 DEF Return
<1>6. Added(t) => Q
  BY ZenonT(60), <1>3, <1>4 DEF Added, PoolSteps
<1>7. Loop(t) => Q
  BY ZenonT(60), <1>3, <1>4, <1>5 DEF Loop, PoolSteps
<1>8. CASE PoolLoad(t) \/ PoolTake(t) \/ GetHead(t) \/ GetRefs(t)
  <2>1. Q
    BY ZenonT(60), <1>3, <1>4, <1>5, <1>8 DEF PoolLoad, PoolTake, GetHead, GetRefs, PoolSteps
  <2> QED  BY <1>1, <2>1 DEF Q
<1>9. CASE GetHold(t) \/ GetNext(t) \/ GetSwap(t) \/ GetTaken(t) \/ GetDrop(t)
  <2>1. Q
    BY ZenonT(60), <1>3, <1>4, <1>5, <1>7, <1>9
    DEF GetHold, GetNext, GetSwap, GetTaken, GetDrop, PoolSteps
  <2> QED  BY <1>1, <2>1 DEF Q
<1>10. CASE AddFlag(t) \/ LinkHead(t) \/ LinkNext(t) \/ LinkRefs(t) \/ LinkSwap(t) \/ Unlink(t)
  <2>1. Q
    BY <1>3, <1>4, <1>6, <1>10
       DEF AddFlag, LinkHead, LinkNext, LinkRefs, LinkSwap, Unlink, PoolSteps
  <2> QED  BY <1>1, <2>1 DEF Q
<1> QED  BY <1>8, <1>9, <1>10 DEF PoolStep

\* A step of the hash changes the thread's producer only, and its enqueue may begin.
HashFixed == (IndexLocals \ {"producer"}) \cup {"back", "inGet"}
\* What a step of the hash leaves alone.
LEMMA HashIndex ==
  ASSUME Shaped, NEW t \in Threads, HashStep(t)
  PROVE  /\ Shaped' /\ Others(t) /\ me[t].pc \in Registering \cup {"search"}
         /\ me'[t].pc \in Registering \cup {"first", "refused"}
         /\ \A f \in HashFixed : me'[t][f] = me[t][f]
<1> USE DEF At
<1>1. me[t].pc \in Registering \cup {"search"}
  BY DEF HashStep, Search, Readd, CountThread, Grow, Resize, Resized, Room, Create, Enlist,
         AllocationFails, Registering, Lacking
<1> DEFINE Q == /\ Shaped' /\ Others(t) /\ me'[t].pc \in Registering \cup {"first", "refused"}
                /\ \A f \in HashFixed : me'[t][f] = me[t][f]
           Ok(m) == DOMAIN m = Locals /\ \A f \in HashFixed : m[f] = me[t][f]
<1>2. ASSUME NEW pc, NEW m, Go(t, pc, m), pc \in Registering \cup {"first", "refused"}, Ok(m)
      PROVE  Q
  <2>1. HashFixed \subseteq Locals \ {"pc"}
    BY IndexLocal DEF HashFixed, IndexLocals, Locals, Idle
  <2>2. /\ Shaped' /\ \A u \in Threads \ {t} : me'[u] = me[u]
        /\ me'[t].pc = pc /\ \A f \in Locals \ {"pc"} : me'[t][f] = m[f]
    BY <1>2, GoMakes
  <2> QED  BY <1>2, <2>1, <2>2 DEF Others
<1>3. /\ Ok(me[t]) /\ \A x : Ok([me[t] EXCEPT !.mainHash = x]) /\ Ok([me[t] EXCEPT !.newCount = x])
                            /\ Ok([me[t] EXCEPT !.producer = x]) /\ Ok([me[t] EXCEPT !.failing = x])
      /\ \A x, y : Ok([me[t] EXCEPT !.producer = x, !.mainHash = y])
  <2>1. DOMAIN me[t] = Locals
    BY DEF Shaped
  <2>2. HashFixed \subseteq Locals
    BY IndexLocal DEF HashFixed, IndexLocals, Locals, Idle
  <2> QED  BY <2>1, <2>2 DEF HashFixed, IndexLocals
<1>4. \A pc, m : Go(t, pc, m) /\ pc \in Registering \cup {"first", "refused"} /\ Ok(m) => Q
  BY ONLY <1>2
<1> HIDE DEF Ok, Q
<1>5. CASE Search(t)
  <2>1. Q
    BY <1>3, <1>4, <1>5 DEF Search, Registering, Lacking
  <2> QED  BY <1>1, <2>1 DEF Q
<1>6. CASE Readd(t) \/ CountThread(t) \/ Grow(t) \/ Resize(t)
  <2>1. Q
    BY <1>3, <1>4, <1>6 DEF Readd, CountThread, Grow, Resize, Registering, Lacking
  <2> QED  BY <1>1, <2>1 DEF Q
<1>7. CASE Resized(t) \/ Room(t) \/ Create(t) \/ Enlist(t) \/ AllocationFails(t)
  <2>1. Q
    BY <1>3, <1>4, <1>7 DEF Resized, Room, Create, Enlist, AllocationFails, Registering, Lacking
  <2> QED  BY <1>1, <2>1 DEF Q
<1> QED  BY <1>5, <1>6, <1>7 DEF HashStep

\* A step of the pool keeps the invariant.
LEMMA PoolIndexOK ==
  ASSUME QueueInv, ClaimsPublished, FreeInv, IndexInv, NEW t \in Threads, PoolStep(t),
         UNCHANGED <<producers, elementsCompletelyDequeued>>
  PROVE  IndexInv'
<1>1. /\ Others(t) /\ me[t].pc \in PoolSteps /\ me'[t].pc \in PoolSteps \cup {me[t].back}
      /\ \A f \in PoolFixed : me'[t][f] = me[t][f]
  BY PoolIndex DEF FreeInv
<1>2. me[t].back \in {"attach", "unindex", "freed"}
  BY <1>1 DEF QueueInv, OwnInv, LocalsOK, Backs, CallInv
<1>3. /\ me'[t].producer = me[t].producer /\ me'[t].items = me[t].items
      /\ me'[t].blocks = me[t].blocks /\ me'[t].freed = me[t].freed
      /\ me'[t].ptr = me[t].ptr /\ me'[t].index = me[t].index /\ me'[t].end = me[t].end
      /\ me'[t].slot = me[t].slot /\ me'[t].count = me[t].count /\ me'[t].back = me[t].back
  BY <1>1 DEF PoolFixed, IndexLocals
<1>4. /\ me[t].pc \notin {"find", "key", "move", "empty", "detach", "freed", "rotate", "attach", "unindex"}
      /\ me'[t].pc \notin {"find", "key", "move", "empty", "detach", "rotate", "assert", "tail", "first"}
      /\ me'[t].pc \notin Claiming /\ me'[t].pc # "correct"
  BY <1>1, <1>2 DEF PoolSteps, Claiming
<1>5. Debt(me'[t]) = Debt(me[t]) /\ (Emptied(me'[t]) <=> Emptied(me[t]))
  BY <1>1, <1>2, <1>3, <1>4 DEF Debt, Emptied, CallsPool, PoolSteps
<1>6. \A p \in Names : \A i \in Int : Owes(me', p, t, i) <=> Owes(me, p, t, i)
  BY <1>3, <1>5 DEF Owes
<1>7. (Enqueuing(t)' <=> Enqueuing(t)) /\ (Consuming(t)' <=> Consuming(t))
  BY <1>1, <1>2, <1>3, <1>4 DEF Enqueuing, Consuming, Taking, Moving, PoolSteps, Claiming
<1>8. \A p \in Names : Unwritten(p)' <=> Unwritten(p)
  <2>1. \A u \in Threads : (Enqueuing(u)' <=> Enqueuing(u)) /\ me'[u].producer = me[u].producer
    BY <1>1, <1>3, <1>7 DEF Others, Enqueuing
  <2> QED  BY <2>1 DEF Unwritten
<1>9. ThreadOK(t)
  BY DEF IndexInv
<1>10. ASSUME Enqueuing(t)
       PROVE  WriterOK(producers'[me'[t].producer], me'[t], elementsCompletelyDequeued')
  <2>1. WriterOK(producers[me[t].producer], me[t], elementsCompletelyDequeued)
    BY <1>9, <1>10 DEF ThreadOK
  <2>2. (Gets(me'[t]) <=> Gets(me[t])) /\ Extra(me'[t]) = Extra(me[t])
    BY <1>1, <1>2, <1>3, <1>4 DEF Gets, Extra, CallsPool, PoolSteps
  <2>3. /\ CallsPool(me'[t], "unindex") => CallsPool(me[t], "unindex")
        /\ me[t].pc # "unindex"
    BY <1>1, <1>3, <1>4 DEF CallsPool
  <2> QED  BY <1>3, <2>1, <2>2, <2>3 DEF WriterOK
<1>11. ThreadOK(t)'
  <2>1. ~Enqueuing(t) => me'[t].blocks = << >>
    BY <1>3, <1>9 DEF ThreadOK
  <2>2. AskOK(me'[t])
    BY <1>4 DEF AskOK, Claiming
  <2>3. Consuming(t) => TakerOK(producers'[me'[t].ptr], me'[t])
                          /\ DetachOK(producers'[me'[t].ptr], me', me'[t], me'[t].ptr)
    <3>1. Consuming(t) => TakerOK(producers[me[t].ptr], me[t])
      BY <1>4, <1>9 DEF ThreadOK
    <3> QED  BY <1>3, <1>4, <1>5, <3>1 DEF TakerOK, Ended, DetachOK
  <2> QED  BY <1>7, <1>10, <2>1, <2>2, <2>3 DEF ThreadOK
<1> QED  BY <1>1, <1>4, <1>6, <1>8, <1>11, IndexStay

\* A step of the hash keeps the invariant.
LEMMA HashIndexOK ==
  ASSUME QueueInv, QueueInv', ClaimsPublished, SingleWriter', FreeInv, IndexInv, NEW t \in Threads,
         HashStep(t), UNCHANGED <<producers, elementsCompletelyDequeued>>
  PROVE  IndexInv'
<1>1. /\ Others(t) /\ me[t].pc \in Registering \cup {"search"}
      /\ me'[t].pc \in Registering \cup {"first", "refused"}
      /\ \A f \in HashFixed : me'[t][f] = me[t][f]
  BY HashIndex DEF FreeInv
<1>2. me'[t].blocks = me[t].blocks /\ me'[t].items = me[t].items
  BY <1>1 DEF HashFixed, IndexLocals
<1>3. /\ me[t].pc \notin {"find", "key", "move", "empty", "detach", "freed", "rotate", "attach", "unindex"}
      /\ me'[t].pc \notin {"find", "key", "move", "empty", "detach", "freed", "rotate", "assert", "tail",
                           "attach", "unindex"}
      /\ me'[t].pc \notin Claiming /\ me'[t].pc # "correct"
      /\ me[t].pc \notin PoolSteps /\ me'[t].pc \notin PoolSteps
  BY <1>1 DEF PoolSteps, Claiming, Registering, Lacking
<1>4. Debt(me'[t]) = {} /\ Debt(me[t]) = {}
  BY <1>3 DEF Debt, Emptied, CallsPool
<1>5. \A p \in Names : \A i \in Int : Owes(me', p, t, i) <=> Owes(me, p, t, i)
  BY <1>4 DEF Owes
<1>6. ~Enqueuing(t) /\ ~Consuming(t)' /\ (Enqueuing(t)' => me'[t].pc = "first")
  BY <1>1, <1>3 DEF Enqueuing, Consuming, Taking, Moving, Registering, Lacking
<1>7. me[t].blocks = << >>
  BY <1>6 DEF IndexInv, ThreadOK
<1>8. \A u \in Threads \ {t} : Enqueuing(u)' <=> Enqueuing(u)
  BY <1>1 DEF Others, Enqueuing
<1>9. \A p \in Names : Unwritten(p)' => Unwritten(p)
  BY <1>1, <1>6, <1>8 DEF Unwritten, Others
<1>10. ASSUME Enqueuing(t)'
       PROVE  WriterOK(producers'[me'[t].producer], me'[t], elementsCompletelyDequeued')
  <2>1. PICK p : p = me'[t].producer
    OBVIOUS
  <2>2. p \in Names
    <3>1. Enqueuing(t)' => me'[t].producer \in Names
      BY DEF QueueInv, OwnInv, Settled, ListInv
    <3> QED  BY <1>10, <2>1, <3>1
  <2>3. \A u \in Threads \ {t} : Enqueuing(u) => me[u].producer # p
    BY <1>1, <1>8, <1>10, <2>1 DEF SingleWriter, Others
  <2>4. Unwritten(p)
    BY <1>6, <2>3 DEF Unwritten
  <2>5. TailOK(producers[p], 0)
    BY <2>2, <2>4 DEF IndexInv, IndexOK
  <2>6. ~Gets(me'[t]) /\ ~CallsPool(me'[t], "unindex") /\ Extra(me'[t]) = 0
    <3>1. ~Gets(me'[t]) /\ ~CallsPool(me'[t], "unindex")
      BY <1>3 DEF Gets, CallsPool
    <3>2. Len(<< >>) = 0
      OBVIOUS
    <3> QED  BY <1>2, <1>7, <3>1, <3>2 DEF Extra
  <2>7. /\ me'[t].blocks \in Seq(PoolBlocks) /\ DOMAIN me'[t].blocks = {}
    BY <1>2, <1>7
  <2> QED  BY <1>2, <1>7, <2>1, <2>5, <2>6, <2>7 DEF WriterOK
<1>11. ThreadOK(t)'
  <2>1. AskOK(me'[t])
    BY <1>3 DEF AskOK, Claiming
  <2> QED  BY <1>2, <1>6, <1>7, <1>10, <2>1 DEF ThreadOK
<1> QED  BY <1>1, <1>3, <1>5, <1>9, <1>11, IndexStay

-----------------------------------------------------------------------------
(* The steps of a thread that is not at a block.                           *)

\* At a block of the index: while a dequeue moves the items it has claimed.
AtBlock == {"find", "key", "move", "assert", "empty", "detach", "freed"} \cup PoolSteps

\* A step of a thread that is at no block, before or after.
LEMMA OutsideOK ==
  ASSUME QueueInv, ClaimsPublished, FreeInv, IndexInv, NEW t \in Threads, Others(t),
         me[t].pc \notin AtBlock, me'[t].pc \notin AtBlock \cup {"first", "attach", "unindex"},
         me'[t].blocks = << >>, AskOK(me'[t]), elementsCompletelyDequeued' = elementsCompletelyDequeued,
         \A p \in Names :
           /\ DOMAIN producers'[p] = DOMAIN producers[p]
           /\ \A f \in {"tail", "key", "value", "headIndex", "tailIndex"} :
                producers'[p][f] = producers[p][f],
         Enqueuing(t) => TailOK(producers[me[t].producer], 0)
  PROVE  IndexInv'
<1>1. Debt(me'[t]) = {} /\ Debt(me[t]) = {}
  BY DEF Debt, Emptied, CallsPool, AtBlock
<1>2. \A p \in Names : \A i \in Int : Owes(me', p, t, i) <=> Owes(me, p, t, i)
  BY <1>1 DEF Owes
<1>3. ~Enqueuing(t)'
  BY DEF Enqueuing, AtBlock
<1>4. \A u \in Threads \ {t} : (Enqueuing(u)' <=> Enqueuing(u)) /\ me'[u].producer = me[u].producer
  BY DEF Others, Enqueuing
<1>5. \A p \in Names : Unwritten(p)' => Unwritten(p) \/ TailOK(producers[p], 0)
  BY <1>4 DEF Unwritten
<1>6. /\ TakerOK(producers'[me'[t].ptr], me'[t])
      /\ DetachOK(producers'[me'[t].ptr], me', me'[t], me'[t].ptr)
  BY DEF TakerOK, DetachOK, Emptied, CallsPool, AtBlock
<1>7. ThreadOK(t)'
  BY <1>3, <1>6 DEF ThreadOK
<1>8. me'[t].pc # "detach"
  BY DEF AtBlock
<1> QED  BY <1>2, <1>5, <1>7, <1>8, IndexSame

\* The thread after its call has returned.
LEMMA FinishIndex ==
  ASSUME Shaped, NEW t \in Threads, NEW short, Finish(t, short)
  PROVE  /\ Shaped' /\ Others(t) /\ me'[t].pc = "idle" /\ me'[t].back = "idle"
         /\ me'[t].blocks = << >> /\ me'[t].freed = << >> /\ me'[t].inGet = FALSE
<1> DEFINE m == [Idle EXCEPT !.failing = me[t].failing, !.short = short]
<1>1. /\ DOMAIN m = Locals /\ m.pc = "idle" /\ m.blocks = << >> /\ m.freed = << >>
      /\ m.inGet = FALSE /\ m.back = "idle"
  BY DEF Idle, Locals
<1>2. me' = [me EXCEPT ![t] = m]
  BY DEF Finish
<1> HIDE DEF m
<1>3. DOMAIN me' = Threads /\ me'[t] = m /\ \A u \in Threads \ {t} : me'[u] = me[u]
  BY <1>2 DEF Shaped
<1> QED  BY <1>1, <1>3 DEF Shaped, Others

\* A call returns; nothing is written to the index, and it was written as far as published.
LEMMA FinishOK ==
  ASSUME QueueInv, ClaimsPublished, FreeInv, IndexInv, NEW t \in Threads, NEW short, Finish(t, short),
         me[t].pc \notin AtBlock, UNCHANGED <<producers, elementsCompletelyDequeued>>,
         Enqueuing(t) => TailOK(producers[me[t].producer], 0)
  PROVE  IndexInv'
<1>1. Others(t) /\ me'[t].pc = "idle" /\ me'[t].blocks = << >>
  BY FinishIndex DEF FreeInv
<1>2. AskOK(me'[t]) /\ me'[t].pc \notin AtBlock \cup {"first", "attach", "unindex"}
  BY <1>1 DEF AskOK, AtBlock, PoolSteps, Claiming
<1> QED  BY <1>1, <1>2, OutsideOK

\* A call of enqueue begins.
LEMMA EnqueueOK ==
  ASSUME QueueInv, ClaimsPublished, FreeInv, IndexInv, NEW t \in Threads, Enqueue(t)
  PROVE  IndexInv'
<1>1. /\ me[t].pc = "idle" /\ UNCHANGED <<producers, elementsCompletelyDequeued>>
  BY DEF Enqueue, At, queueVars
<1> DEFINE m == [me[t] EXCEPT !.items = Head(todo[t]).items]
<1>2. Shaped /\ DOMAIN me[t] = Locals
  BY FreeIs
<1>3. DOMAIN m = Locals /\ m.blocks = me[t].blocks /\ Go(t, "search", m)
  BY <1>2, IndexLocal DEF Enqueue
<1> HIDE DEF m
<1>4. Others(t) /\ me'[t].pc = "search" /\ me'[t].blocks = me[t].blocks
  BY <1>2, <1>3, GoIndex
<1>5. ~Enqueuing(t)
  BY <1>1 DEF Enqueuing, PoolSteps
<1>6. me[t].blocks = << >>
  BY <1>5 DEF IndexInv, ThreadOK
<1>7. /\ AskOK(me'[t]) /\ me'[t].pc \notin AtBlock \cup {"first", "attach", "unindex"}
      /\ me[t].pc \notin AtBlock
  BY <1>1, <1>4 DEF AskOK, AtBlock, PoolSteps, Claiming
<1> QED  BY <1>1, <1>4, <1>5, <1>6, <1>7, OutsideOK

\* An enqueue gives up.
LEMMA RefusedOK ==
  ASSUME QueueInv, ClaimsPublished, FreeInv, IndexInv, NEW t \in Threads, Refused(t)
  PROVE  IndexInv'
<1>1. /\ me[t].pc = "refused" \/ (me[t].pc = "unindex" /\ me[t].blocks = << >>)
      /\ Finish(t, FALSE) /\ UNCHANGED <<producers, elementsCompletelyDequeued>>
  BY DEF Refused, At, queueVars
<1>2. me[t].pc \notin AtBlock
  BY <1>1 DEF AtBlock, PoolSteps
<1>3. Enqueuing(t) => TailOK(producers[me[t].producer], 0)
  <2> SUFFICES ASSUME Enqueuing(t) PROVE TailOK(producers[me[t].producer], 0)
    OBVIOUS
  <2>1. TailOK(producers[me[t].producer], Extra(me[t]))
    BY DEF IndexInv, ThreadOK, WriterOK
  <2>2. me[t].pc = "unindex" /\ me[t].blocks = << >>
    BY <1>1 DEF Enqueuing, PoolSteps
  <2>3. Extra(me[t]) = 0
    <3>1. Len(<< >>) = 0
      OBVIOUS
    <3> QED  BY <2>2, <3>1 DEF Extra, Gets, CallsPool, PoolSteps
  <2> QED  BY <2>1, <2>3
<1> QED  BY <1>1, <1>2, <1>3, FinishOK

-----------------------------------------------------------------------------
(* The steps of a dequeue up to the items it gets.                         *)

\* The locals that a dequeue does not use before it moves items.
WalkFixed == PoolLocals \cup {"blocks", "producer"}
\* Each of them is a local.
LEMMA WalkLocal == WalkFixed \subseteq Locals \ {"pc"}
BY DEF Locals, Idle, WalkFixed, PoolLocals

\* What the walk over the producers leaves alone.
LEMMA WalkIndex ==
  ASSUME Shaped, NEW t \in Threads, Walking(t)
  PROVE  \/ \E short : Finish(t, short)
         \/ Shaped' /\ Others(t) /\ \A f \in WalkFixed : me'[t][f] = me[t][f]
<1> DEFINE Q == Shaped' /\ Others(t) /\ \A f \in WalkFixed : me'[t][f] = me[t][f]
           Ok(m) == DOMAIN m = Locals /\ \A f \in WalkFixed : m[f] = me[t][f]
<1>1. ASSUME NEW pc, NEW m, Go(t, pc, m), Ok(m)
      PROVE  Q
  <2>1. /\ Shaped' /\ \A u \in Threads \ {t} : me'[u] = me[u]
        /\ \A f \in Locals \ {"pc"} : me'[t][f] = m[f]
    BY <1>1, GoMakes
  <2> QED  BY <1>1, <2>1, WalkLocal DEF Others
<1>2. DOMAIN me[t] = Locals
  BY DEF Shaped
<1>3. /\ Ok(me[t]) /\ \A x : /\ Ok([me[t] EXCEPT !.ptr = x]) /\ Ok([me[t] EXCEPT !.tailIndex = x])
                             /\ Ok([me[t] EXCEPT !.overcommit = x]) /\ Ok([me[t] EXCEPT !.want = x])
                             /\ Ok([me[t] EXCEPT !.n = x]) /\ Ok([me[t] EXCEPT !.dequeueCount = x])
      /\ \A x, y, z : Ok([me[t] EXCEPT !.index = x, !.end = y, !.given = z])
      /\ \A x, y, z : /\ Ok([[me[t] EXCEPT !.max = x, !.promised = y] EXCEPT !.listTail = z])
                      /\ Ok([[me[t] EXCEPT !.max = x, !.promised = y] EXCEPT !.ptr = z])
      /\ \A x, y, z : Ok([me[t] EXCEPT !.ptr = x, !.walking = TRUE, !.n = 0, !.listTail = y, !.max = z])
  BY <1>2, WalkLocal DEF WalkFixed, PoolLocals
<1>4. \A pc, m : Go(t, pc, m) /\ Ok(m) => Q
  BY ONLY <1>1
<1> HIDE DEF Ok, Q
<1>6. CASE Dequeue(t)
  <2>1. \/ \E x : Finish(t, x)
        \/ \E x, y, z : Go(t, "rotate", [[me[t] EXCEPT !.max = x, !.promised = y] EXCEPT !.listTail = z])
        \/ \E x, y, z : Go(t, "tail", [[me[t] EXCEPT !.max = x, !.promised = y] EXCEPT !.ptr = z])
    BY <1>6 DEF Dequeue
  <2>2. (\E x : Finish(t, x)) \/ Q
    BY <1>3, <1>4, <2>1, Zenon
  <2> QED  BY <2>2 DEF Q
<1>7. CASE update_current_producer_after_rotation(t)
  <2>1. \E x : Go(t, "tail", [me[t] EXCEPT !.ptr = x])
    BY <1>7 DEF update_current_producer_after_rotation
  <2>2. Q
    BY <1>3, <1>4, <2>1, Zenon
  <2> QED  BY <2>2 DEF Q
<1>8. CASE Dequeued(t)
  <2>1. \/ \E short : Finish(t, short)
        \/ \E x, y, z : Go(t, "tail", [me[t] EXCEPT !.ptr = x, !.walking = TRUE,
                               !.n = 0, !.listTail = y, !.max = z])
    BY ZenonT(60), <1>8 DEF Dequeued
  <2>2. (\E x : Finish(t, x)) \/ Q
    BY <1>3, <1>4, <2>1, Zenon
  <2> QED  BY <2>2 DEF Q
<1>9. CASE LoadTail(t) \/ LoadOvercommit(t) \/ LoadCount(t)
  <2>1. Q
    BY ZenonT(60), <1>3, <1>4, <1>9 DEF LoadTail, LoadOvercommit, LoadCount
  <2> QED  BY <2>1 DEF Q
<1>10. CASE Claim(t) \/ LoadAgain(t) \/ Correct(t)
  <2>1. Q
    BY ZenonT(60), <1>3, <1>4, <1>10 DEF Claim, LoadAgain, Correct
  <2> QED  BY <2>1 DEF Q
<1>11. CASE TakeHead(t)
  <2>1. \E x, y, z : Go(t, "find", [me[t] EXCEPT !.index = x, !.end = y, !.given = z])
    BY <1>11 DEF TakeHead
  <2>2. Q
    BY <1>3, <1>4, <2>1, Zenon
  <2> QED  BY <2>2 DEF Q
<1> QED  BY <1>6, <1>7, <1>8, <1>9, <1>10, <1>11 DEF Walking

\* Such a step that gives the thread no items keeps the index, if it keeps what is asked.
LEMMA WalkStay ==
  ASSUME QueueInv, ClaimsPublished, FreeInv, IndexInv, NEW t \in Threads, Walking(t),
         me[t].pc \notin AtBlock \cup {"first", "attach", "unindex"},
         \/ \E short : Finish(t, short)
         \/ me'[t].pc \notin AtBlock \cup {"first", "attach", "unindex"} /\ AskOK(me'[t]),
         elementsCompletelyDequeued' = elementsCompletelyDequeued,
         \A p \in Names :
           /\ DOMAIN producers'[p] = DOMAIN producers[p]
           /\ \A f \in {"tail", "key", "value", "headIndex", "tailIndex"} :
                producers'[p][f] = producers[p][f]
  PROVE  IndexInv'
<1>1. ~Enqueuing(t)
  BY DEF Enqueuing, AtBlock
<1>2. me[t].blocks = << >> /\ Shaped
  BY <1>1, FreeIs DEF IndexInv, ThreadOK
<1>3. \A short : Finish(t, short) =>
        /\ me'[t].blocks = << >> /\ Others(t)
        /\ me'[t].pc \notin AtBlock \cup {"first", "attach", "unindex"} /\ AskOK(me'[t])
  BY <1>2, FinishIndex DEF AskOK, AtBlock, PoolSteps, Claiming
<1>4. /\ me'[t].blocks = << >> /\ Others(t)
      /\ me'[t].pc \notin AtBlock \cup {"first", "attach", "unindex"} /\ AskOK(me'[t])
  <2>1. (\E short : Finish(t, short)) \/ (Others(t) /\ me'[t].blocks = me[t].blocks)
    BY <1>2, WalkIndex DEF WalkFixed
  <2> QED  BY <1>2, <1>3, <2>1, WalkIndex DEF WalkFixed
<1> QED  BY <1>1, <1>4, OutsideOK

\* What is asked stays positive as long as a dequeue goes on.
LEMMA AskKept ==
  ASSUME QueueInv, NEW t \in Threads, AskOK(me[t]), Walking(t), ~TakeHead(t)
  PROVE  /\ me[t].pc \notin AtBlock \cup {"first", "attach", "unindex"}
         /\ \/ \E short : Finish(t, short)
            \/ me'[t].pc \notin AtBlock \cup {"first", "attach", "unindex"} /\ AskOK(me'[t])
<1> USE DEF At
<1>0. /\ OwnInv /\ LocalsOK /\ CallInv /\ ListInv /\ RingInv
      /\ RingOK(t) /\ (Consuming(t) => Amounts(t))
  BY DEF QueueInv, OwnInv, RingInv, AmountInv
<1>1. {"max", "want", "n", "ptr", "tailIndex", "overcommit", "dequeueCount"} \subseteq Kept
  BY DEF Kept
<1> DEFINE Calmed == me'[t].pc \notin AtBlock \cup {"first", "attach", "unindex"} /\ AskOK(me'[t])
           Away == me[t].pc \notin AtBlock \cup {"first", "attach", "unindex"}
<1>2. CASE Dequeue(t)
  <2>1. me[t].pc = "idle" /\ todo[t] # << >> /\ Head(todo[t]).op = "take"
    BY <1>2 DEF Dequeue, Calling
  <2>2. Head(todo[t]).max \in Nat \ {0}
    BY <1>0, <2>1, CallIs DEF IsCall
  <2>3. Finish(t, FALSE) \/ (me'[t].max = Head(todo[t]).max /\ me'[t].pc \in {"rotate", "tail"})
    BY <1>0, <1>2, DequeueIs
  <2>4. Away
    BY <2>1 DEF AtBlock, PoolSteps
  <2>5. me'[t].max = Head(todo[t]).max /\ me'[t].pc \in {"rotate", "tail"} => Calmed
    BY <2>2 DEF AskOK, AtBlock, PoolSteps, Claiming
  <2> QED  BY <2>3, <2>4, <2>5
<1>3. CASE update_current_producer_after_rotation(t)
  <2>1. me[t].pc = "rotate" /\ Consuming(t)
    BY <1>3 DEF update_current_producer_after_rotation, Consuming
  <2>2. me[t].max > 0 /\ me[t].listTail \in Listed
    BY <1>0, <2>1 DEF AskOK, RingOK
  <2>3. PICK new \in Listed : Sets(t, "tail", "ptr", new)
    BY <1>0, <1>3, <2>2, RotateIs
  <2>4. me'[t].pc = "tail" /\ me'[t].max = me[t].max
    BY <1>1, <2>3 DEF Sets
  <2>5. Away
    BY <2>1 DEF AtBlock, PoolSteps
  <2>6. Calmed
    BY <2>2, <2>4 DEF AskOK, AtBlock, PoolSteps, Claiming
  <2> QED  BY <2>5, <2>6
<1>4. CASE Dequeued(t)
  <2>1. me[t].pc = "dequeued" /\ Taking(t) /\ Consuming(t)
    BY <1>4 DEF Dequeued, Consuming, Taking, Moving
  <2>2. me[t].max \in Nat /\ me[t].n \in 0 .. me[t].max
    BY <1>0, <2>1 DEF Amounts
  <2>3. \/ \E short : Finish(t, short)
        \/ /\ ~(me[t].n = me[t].max) /\ me'[t].pc = "tail" /\ me'[t].max = me[t].max - me[t].n
    BY <1>0, <1>4, DequeuedIs
  <2>4. Away
    BY <2>1 DEF AtBlock, PoolSteps
  <2>5. ~(me[t].n = me[t].max) /\ me'[t].pc = "tail" /\ me'[t].max = me[t].max - me[t].n => Calmed
    BY <2>2 DEF AskOK, AtBlock, PoolSteps, Claiming
  <2> QED  BY <2>3, <2>4, <2>5
<1>5. CASE LoadTail(t)
  <2>1. me[t].pc = "tail" /\ Sets(t, "over", "tailIndex", Theirs(t).tailIndex)
    BY <1>0, <1>5, LoadsAre DEF LoadTail
  <2>2. me'[t].pc = "over" /\ me'[t].max = me[t].max
    BY <1>1, <2>1 DEF Sets
  <2>3. Away
    BY <2>1 DEF AtBlock, PoolSteps
  <2>4. Calmed
    BY <2>1, <2>2 DEF AskOK, AtBlock, PoolSteps, Claiming
  <2> QED  BY <2>3, <2>4
<1>6. CASE LoadOvercommit(t)
  <2>1. me[t].pc = "over" /\ Sets(t, "optimistic", "overcommit", Theirs(t).dequeueOvercommit)
    BY <1>0, <1>6, LoadsAre DEF LoadOvercommit
  <2>2. me'[t].pc = "optimistic" /\ me'[t].max = me[t].max
    BY <1>1, <2>1 DEF Sets
  <2>3. Away
    BY <2>1 DEF AtBlock, PoolSteps
  <2>4. Calmed
    BY <2>1, <2>2 DEF AskOK, AtBlock, PoolSteps, Claiming
  <2> QED  BY <2>3, <2>4
<1>7. CASE LoadCount(t)
  <2>1. PICK desired : desired = me[t].tailIndex - (Theirs(t).dequeueOptimisticCount - me[t].overcommit)
    OBVIOUS
  <2>2. /\ me[t].pc = "optimistic"
        /\ \/ desired > 0 /\ Sets(t, "claim", "want", Least2(desired, me[t].max))
           \/ ~(desired > 0) /\ Sets(t, "dequeued", "n", 0)
    BY <1>0, <1>7, <2>1, LoadsAre DEF LoadCount
  <2>3. \/ /\ desired > 0 /\ me'[t].pc = "claim" /\ me'[t].max = me[t].max
           /\ me'[t].want = Least2(desired, me[t].max)
        \/ me'[t].pc = "dequeued"
    BY <1>1, <2>2 DEF Sets
  <2>4. Away
    BY <2>2 DEF AtBlock, PoolSteps
  <2>5. Calmed
    BY <2>2, <2>3 DEF AskOK, AtBlock, PoolSteps, Claiming, Least2
  <2> QED  BY <2>4, <2>5
<1>8. CASE Claim(t)
  <2>1. me[t].pc = "claim" /\ Sets(t, "again", "dequeueCount", Theirs(t).dequeueOptimisticCount)
    BY <1>0, <1>8, LoadsAre DEF Claim
  <2>2. me'[t].pc = "again" /\ me'[t].max = me[t].max /\ me'[t].want = me[t].want
    BY <1>1, <2>1 DEF Sets
  <2>3. Away
    BY <2>1 DEF AtBlock, PoolSteps
  <2>4. Calmed
    BY <2>1, <2>2 DEF AskOK, AtBlock, PoolSteps, Claiming
  <2> QED  BY <2>3, <2>4
<1>9. CASE LoadAgain(t)
  <2>1. PICK actual, n : /\ actual = Theirs(t).tailIndex - (me[t].dequeueCount - me[t].overcommit)
                         /\ n = IF actual <= 0 THEN 0 ELSE Least2(actual, me[t].want)
    OBVIOUS
  <2>2. /\ me[t].pc = "again" /\ Sets(t, IF n < me[t].want THEN "correct" ELSE "head", "n", n)
    BY <1>0, <1>9, <2>1, ClaimsAre DEF LoadAgain
  <2>3. /\ me'[t].pc = (IF n < me[t].want THEN "correct" ELSE "head") /\ me'[t].n = n
        /\ me'[t].max = me[t].max /\ me'[t].want = me[t].want
    BY <1>1, <2>2 DEF Sets
  <2>4. Away
    BY <2>2 DEF AtBlock, PoolSteps
  <2>5. me[t].want > 0 /\ me[t].max > 0
    BY <2>2 DEF AskOK, Claiming
  <2>6. me[t].want \in Nat /\ (~(n < me[t].want) => n > 0)
    <3>1. me[t].want \in 0 .. me[t].max
      BY <1>0, <2>2 DEF Amounts, Consuming, Claiming
    <3> QED  BY <2>1, <2>5, <3>1 DEF Least2
  <2>7. Calmed
    BY <2>3, <2>5, <2>6 DEF AskOK, AtBlock, PoolSteps, Claiming
  <2> QED  BY <2>4, <2>7
<1>10. CASE Correct(t)
  <2>1. /\ me[t].pc = "correct" /\ Sets(t, IF me[t].n = 0 THEN "dequeued" ELSE "head", "n", me[t].n)
    BY <1>0, <1>10, ClaimsAre DEF Correct
  <2>2. /\ me'[t].pc = (IF me[t].n = 0 THEN "dequeued" ELSE "head") /\ me'[t].n = me[t].n
        /\ me'[t].max = me[t].max /\ me'[t].want = me[t].want
    BY <1>1, <2>1 DEF Sets
  <2>3. Away
    BY <2>1 DEF AtBlock, PoolSteps
  <2>4. /\ me[t].want \in 0 .. me[t].max /\ me[t].max \in Nat /\ me[t].n \in 0 .. me[t].want
        /\ me[t].want > 0
    BY <1>0, <2>1 DEF Amounts, Consuming, AskOK
  <2>5. Calmed
    BY <2>2, <2>4 DEF AskOK, AtBlock, PoolSteps, Claiming
  <2> QED  BY <2>3, <2>5
<1> QED  BY <1>2, <1>3, <1>4, <1>5, <1>6, <1>7, <1>8, <1>9, <1>10 DEF Walking

\* The counters of the claims are not part of the index.
LEMMA IndexFields ==
  ASSUME QueueInv, FreeInv, IndexInv, NEW t \in Threads, Walking(t), ~TakeHead(t)
  PROVE  /\ elementsCompletelyDequeued' = elementsCompletelyDequeued
         /\ \A p \in Names :
              /\ DOMAIN producers'[p] = DOMAIN producers[p]
              /\ \A f \in {"tail", "key", "value", "headIndex", "tailIndex"} :
                   producers'[p][f] = producers[p][f]
<1>1. elementsCompletelyDequeued' = elementsCompletelyDequeued
  BY DEF Walking, Dequeue, update_current_producer_after_rotation, Dequeued, LoadTail, LoadOvercommit,
         LoadCount, Claim, LoadAgain, Correct, takeVars, queueVars
<1>2. ASSUME NEW q, NEW f \in {"dequeueOptimisticCount", "dequeueOvercommit"}, NEW v,
             producers' = [producers EXCEPT ![q][f] = v], NEW p \in Names
      PROVE  /\ DOMAIN producers'[p] = DOMAIN producers[p]
             /\ \A g \in {"tail", "key", "value", "headIndex", "tailIndex"} :
                  producers'[p][g] = producers[p][g]
  <2>1. p \in DOMAIN producers
    BY DEF QueueInv, CounterInv
  <2> QED  BY <1>2, <2>1
<1>3. CASE Claim(t)
  <2>1. PICK v : producers' = [producers EXCEPT ![me[t].ptr]["dequeueOptimisticCount"] = v]
    BY <1>3 DEF Claim
  <2> QED  BY <1>1, <1>2, <2>1
<1>4. CASE Correct(t)
  <2>1. PICK v : producers' = [producers EXCEPT ![me[t].ptr]["dequeueOvercommit"] = v]
    BY <1>4 DEF Correct
  <2> QED  BY <1>1, <1>2, <2>1
<1>5. CASE ~Claim(t) /\ ~Correct(t)
  <2>1. producers' = producers
    BY <1>5 DEF Walking, Dequeue, update_current_producer_after_rotation, Dequeued, LoadTail,
         LoadOvercommit, LoadCount, LoadAgain, takeVars, queueVars
  <2> QED  BY <1>1, <2>1
<1> QED  BY <1>3, <1>4, <1>5

\* The walk up to the items it gets keeps the invariant.
LEMMA WalkIndexOK ==
  ASSUME QueueInv, ClaimsPublished, FreeInv, IndexInv, NEW t \in Threads, Walking(t), ~TakeHead(t)
  PROVE  IndexInv'
<1>1. AskOK(me[t])
  BY DEF IndexInv, ThreadOK
<1>2. /\ me[t].pc \notin AtBlock \cup {"first", "attach", "unindex"}
      /\ \/ \E short : Finish(t, short)
         \/ me'[t].pc \notin AtBlock \cup {"first", "attach", "unindex"} /\ AskOK(me'[t])
  BY <1>1, AskKept, Zenon
<1>3. /\ elementsCompletelyDequeued' = elementsCompletelyDequeued
      /\ \A p \in Names :
           /\ DOMAIN producers'[p] = DOMAIN producers[p]
           /\ \A f \in {"tail", "key", "value", "headIndex", "tailIndex"} :
                producers'[p][f] = producers[p][f]
  BY IndexFields, Zenon
<1> QED  BY <1>2, <1>3, WalkStay, Zenon

-----------------------------------------------------------------------------
(* A dequeue gets its items.                                               *)

\* The consumer adds to headIndex and so claims its items; they are left until it empties them.
LEMMA HeadOK ==
  ASSUME QueueInv, ClaimsPublished, FreeInv, IndexInv, NEW t \in Threads, TakeHead(t)
  PROVE  IndexInv'
<1>0. PICK o, h, n : o = me[t].ptr /\ h = producers[me[t].ptr].headIndex /\ n = me[t].n
  OBVIOUS
<1>1. /\ Shaped /\ DOMAIN me[t] = Locals /\ me[t].pc = "head" /\ Consuming(t) /\ me[t].pc # "rotate"
      /\ elementsCompletelyDequeued' = elementsCompletelyDequeued
      /\ producers' = [producers EXCEPT ![o].headIndex = h + n]
  BY <1>0, FreeIs DEF TakeHead, At, Consuming, Claiming, takeVars, Theirs
<1>2. /\ o \in Names /\ n > 0 /\ h \in Nat /\ producers[o].tailIndex \in Nat
      /\ h + n <= producers[o].tailIndex
  <2>1. o \in Names
    BY <1>0, <1>1, TheirProducers
  <2>2. n > 0
    BY <1>0, <1>1 DEF IndexInv, ThreadOK, AskOK
  <2> QED  BY <1>0, <1>1, <2>1, <2>2, ProducerIs DEF ClaimsPublished
<1>3. n \in Nat
  BY <1>0, <1>1 DEF QueueInv, AmountInv, Amounts
<1> DEFINE m == [me[t] EXCEPT !.index = h, !.end = h + n, !.given = me[t].given + n]
<1>4. /\ DOMAIN m = Locals /\ m.ptr = o /\ m.index = h /\ m.end = h + n /\ m.blocks = me[t].blocks
      /\ Go(t, "find", m)
  BY <1>0, <1>1, IndexLocal DEF TakeHead, Theirs, Locals, Idle
<1> HIDE DEF m
<1>5. /\ Others(t) /\ me'[t].pc = "find" /\ me'[t].ptr = o /\ me'[t].index = h /\ me'[t].end = h + n
      /\ me'[t].blocks = me[t].blocks
  BY <1>1, <1>4, GoIndex
<1>6. ~Enqueuing(t) /\ ~Enqueuing(t)' /\ me'[t].blocks = << >>
  <2>1. ~Enqueuing(t) /\ ~Enqueuing(t)'
    BY <1>1, <1>5 DEF Enqueuing, PoolSteps
  <2> QED  BY <1>5, <2>1 DEF IndexInv, ThreadOK
<1>7. Debt(me[t]) = {} /\ Debt(me'[t]) = h .. h + n - 1
  <2>1. Debt(me[t]) = {}
    BY <1>1 DEF Debt, Emptied, CallsPool, PoolSteps
  <2>2. Debt(me'[t]) = me'[t].index .. me'[t].end - 1
    BY <1>5 DEF Debt
  <2> QED  BY <1>2, <1>3, <1>5, <2>1, <2>2
<1>8. ASSUME NEW p \in Names
      PROVE  /\ DOMAIN producers'[p] = DOMAIN producers[p]
             /\ producers'[p].tail = producers[p].tail /\ producers'[p].key = producers[p].key
             /\ producers'[p].value = producers[p].value
             /\ producers'[p].tailIndex = producers[p].tailIndex
             /\ producers'[p].headIndex = IF p = o THEN h + n ELSE producers[p].headIndex
  <2>1. p \in DOMAIN producers /\ "headIndex" \in DOMAIN producers[p]
    BY DEF QueueInv, CounterInv, Counters
  <2> QED  BY <1>1, <2>1
<1>9. ASSUME NEW p \in Names, NEW i \in Int
      PROVE  /\ \A u \in Threads \ {t} : Owes(me', p, u, i) <=> Owes(me, p, u, i)
             /\ ~Owes(me, p, t, i) /\ (Owes(me', p, t, i) <=> p = o /\ i >= h /\ i < h + n)
  <2>1. i \in h .. h + n - 1 <=> i >= h /\ i < h + n
    BY <1>2, <1>3
  <2> QED  BY <1>5, <1>7, <2>1 DEF Owes, Others
<1>10. ASSUME NEW p \in Names
       PROVE  /\ KeysOK(producers'[p]) /\ KeysSame(producers[p], producers'[p])
              /\ EntriesSame(producers[p], producers'[p]) /\ WriterSame(producers[p], producers'[p])
              /\ Span(producers'[p].tailIndex) \in Nat
              /\ Span(producers[p].tailIndex) <= Span(producers'[p].tailIndex)
              /\ RestSame(producers[p], producers'[p], me, me', p)
              /\ NewLive(producers[p], producers'[p], me', p, elementsCompletelyDequeued')
              /\ DebtsOK(producers'[p], me', p)
              /\ Unwritten(p)' => TailOK(producers'[p], 0)
  <2>0. /\ producers'[p].tail = producers[p].tail /\ producers'[p].key = producers[p].key
        /\ producers'[p].value = producers[p].value
        /\ producers'[p].tailIndex = producers[p].tailIndex
        /\ DOMAIN producers'[p] = DOMAIN producers[p]
    BY <1>8
  <2>1. KeysOK(producers'[p]) /\ KeysSame(producers[p], producers'[p])
    BY <2>0 DEF IndexInv, IndexOK, KeysOK, KeyOf, KeysSame
  <2>2. EntriesSame(producers[p], producers'[p]) /\ WriterSame(producers[p], producers'[p])
    BY <2>0 DEF EntriesSame, EntryIs, WriterSame
  <2>3. Span(producers'[p].tailIndex) \in Nat
        /\ Span(producers[p].tailIndex) <= Span(producers'[p].tailIndex)
    BY <2>0, ProducerIs
  <2>4. NewLive(producers[p], producers'[p], me', p, elementsCompletelyDequeued')
    BY <2>0, <2>3 DEF NewLive
  <2>5. RestSame(producers[p], producers'[p], me, me', p)
    <3> SUFFICES ASSUME NEW k \in Int
                 PROVE  RestOf(producers'[p], me', p, k) = RestOf(producers[p], me, p, k)
      BY <2>3 DEF RestSame
    <3>1. ASSUME NEW i \in Int
          PROVE  Rest(producers'[p], me', p, i) <=> Rest(producers[p], me, p, i)
      <4>1. CASE p = o
        <5>1. /\ producers[p].headIndex = h /\ producers'[p].headIndex = h + n
          BY <1>0, <1>8, <4>1
        <5>2. (\E u \in Threads : Owes(me', p, u, i))
                 <=> (\E u \in Threads : Owes(me, p, u, i)) \/ (i >= h /\ i < h + n)
          BY <1>9, <4>1
        <5> QED  BY <1>2, <1>3, <5>1, <5>2 DEF Rest
      <4>2. CASE p # o
        BY <1>8, <1>9, <4>2 DEF Rest
      <4> QED  BY <4>1, <4>2
    <3>2. BlockOf(k) \subseteq Int
      BY BlockOfIs
    <3> QED  BY <3>1, <3>2 DEF RestOf
  <2>6. DebtsOK(producers'[p], me', p)
    <3>1. /\ \A u \in Threads : \A i \in Int : Owes(me, p, u, i) => i \in Nat /\ i < producers[p].headIndex
          /\ \A u, v \in Threads : \A i \in Int : Owes(me, p, u, i) /\ Owes(me, p, v, i) => u = v
      BY DEF IndexInv, IndexOK, DebtsOK
    <3>2. producers[p].headIndex \in Nat /\ (p = o => producers[p].headIndex = h)
          /\ producers[p].headIndex <= producers'[p].headIndex
          /\ producers'[p].headIndex = IF p = o THEN h + n ELSE producers[p].headIndex
      BY <1>0, <1>2, <1>3, <1>8, ProducerIs
    <3>3. ASSUME NEW u \in Threads, NEW i \in Int, Owes(me', p, u, i)
          PROVE  i \in Nat /\ i < producers'[p].headIndex
      <4>1. CASE u = t
        <5>1. p = o /\ i >= h /\ i < h + n
          BY <1>9, <3>3, <4>1
        <5>2. producers'[p].headIndex = h + n
          BY <3>2, <5>1
        <5> QED  BY <1>2, <1>3, <5>1, <5>2
      <4>2. CASE u # t
        <5>1. Owes(me, p, u, i)
          BY <1>9, <3>3, <4>2
        <5>2. i \in Nat /\ i < producers[p].headIndex
          BY <3>1, <5>1
        <5>3. producers'[p].headIndex \in Nat
          BY <1>2, <1>3, <3>2
        <5> QED  BY <3>2, <5>2, <5>3
      <4> QED  BY <4>1, <4>2
    <3>4. ASSUME NEW u \in Threads, NEW v \in Threads, NEW i \in Int, Owes(me', p, u, i), Owes(me', p, v, i)
          PROVE  u = v
      <4>1. CASE u = t /\ v # t
        BY <1>9, <3>1, <3>2, <3>4, <4>1
      <4>2. CASE u # t /\ v = t
        BY <1>9, <3>1, <3>2, <3>4, <4>2
      <4>3. CASE u # t /\ v # t
        BY <1>9, <3>1, <3>4, <4>3
      <4> QED  BY <4>1, <4>2, <4>3
    <3> QED  BY <3>3, <3>4 DEF DebtsOK
  <2>7. Unwritten(p)' => TailOK(producers'[p], 0)
    <3>1. Unwritten(p)' => Unwritten(p)
      <4>1. \A u \in Threads \ {t} : (Enqueuing(u)' <=> Enqueuing(u)) /\ me'[u] = me[u]
        BY <1>5 DEF Others, Enqueuing
      <4> QED  BY <1>6, <4>1 DEF Unwritten
    <3>2. Unwritten(p) => TailOK(producers[p], 0)
      BY DEF IndexInv, IndexOK
    <3> QED  BY <2>0, <3>1, <3>2 DEF TailOK, KeyOf
  <2> QED  BY <2>1, <2>2, <2>3, <2>4, <2>5, <2>6, <2>7
<1>11. ThreadOK(t)'
  <2>1. AskOK(me'[t])
    BY <1>5 DEF AskOK, Claiming
  <2>2. TakerOK(producers'[me'[t].ptr], me'[t])
    BY <1>2, <1>3, <1>5 DEF TakerOK, Emptied, CallsPool, PoolSteps
  <2>3. DetachOK(producers'[me'[t].ptr], me', me'[t], me'[t].ptr)
    BY <1>5 DEF DetachOK
  <2> QED  BY <1>6, <2>1, <2>2, <2>3 DEF ThreadOK
<1>12. \A u \in Threads \ {t} : Enqueuing(u) =>
         WriterSame(producers[me[u].producer], producers'[me[u].producer])
  BY <1>10, TheirProducers
<1>13. DOMAIN elementsCompletelyDequeued = PoolBlocks
       /\ \A b \in PoolBlocks : elementsCompletelyDequeued[b] \in Int
  BY DEF IndexInv
<1> QED  BY <1>1, <1>5, <1>10, <1>11, <1>12, <1>13, IndexFrame

-----------------------------------------------------------------------------
(* The items of a dequeue are found and moved.                             *)

\* The steps that read the index.
LEMMA ReaderOK ==
  ASSUME QueueInv, ClaimsPublished, FreeInv, IndexInv, NEW t \in Threads, Others(t),
         me[t].pc \in Moving, me'[t].pc \in Moving \ {"assert", "detach"},
         me'[t].blocks = me[t].blocks, me'[t].ptr = me[t].ptr, Debt(me'[t]) = Debt(me[t]),
         TakerOK(producers[me[t].ptr], me'[t]), UNCHANGED <<producers, elementsCompletelyDequeued>>
  PROVE  IndexInv'
<1>1. /\ ~Enqueuing(t) /\ ~Enqueuing(t)' /\ AskOK(me'[t]) /\ me'[t].pc # "detach"
  BY DEF Enqueuing, Moving, PoolSteps, AskOK, Claiming
<1>2. me'[t].blocks = << >>
  BY <1>1 DEF IndexInv, ThreadOK
<1>3. \A p \in Names : \A i \in Int : Owes(me', p, t, i) <=> Owes(me, p, t, i)
  BY DEF Owes
<1>4. \A p \in Names : Unwritten(p)' => Unwritten(p)
  <2>1. \A u \in Threads \ {t} : (Enqueuing(u)' <=> Enqueuing(u)) /\ me'[u] = me[u]
    BY DEF Others, Enqueuing
  <2> QED  BY <1>1, <2>1 DEF Unwritten
<1>5. ThreadOK(t)'
  BY <1>1, <1>2 DEF ThreadOK, DetachOK
<1> QED  BY <1>1, <1>3, <1>4, <1>5, IndexStay

\* What is known of a thread at a block.
LEMMA MoverIs ==
  ASSUME QueueInv, ClaimsPublished, FreeInv, IndexInv, NEW t \in Threads, me[t].pc \in Moving
  PROVE  /\ Shaped /\ DOMAIN me[t] = Locals /\ me[t].ptr \in Names /\ IndexOK(me[t].ptr)
         /\ TakerOK(producers[me[t].ptr], me[t])
         /\ Span(producers[me[t].ptr].tailIndex) \in Nat
<1>1. Consuming(t) /\ me[t].pc # "rotate"
  BY DEF Consuming, Taking, Moving
<1>2. me[t].ptr \in Names
  BY <1>1, TheirProducers
<1> QED  BY <1>1, <1>2, FreeIs, ProducerIs DEF IndexInv, ThreadOK

\* The next item that a thread is to move is in a block of the index.
LEMMA NextItem ==
  ASSUME QueueInv, ClaimsPublished, FreeInv, IndexInv, NEW t \in Threads,
         me[t].pc \in {"find", "key", "move"}
  PROVE  LET q == producers[me[t].ptr]
             k == Blk(me[t].index)
         IN  /\ me[t].index \in Nat /\ me[t].end \in Nat /\ me[t].index < me[t].end
             /\ k \in 0 .. Span(q.tailIndex) - 1 /\ q.key[Wrap(k)] = BaseOf(k)
             /\ q.value[Wrap(k)] \in PoolBlocks
<1>1. /\ me[t].ptr \in Names /\ IndexOK(me[t].ptr) /\ TakerOK(producers[me[t].ptr], me[t])
  BY MoverIs DEF Moving
<1>2. me[t].index \in Nat /\ me[t].end \in Nat /\ me[t].index < me[t].end
  BY <1>1 DEF TakerOK
<1>3. Owes(me, me[t].ptr, t, me[t].index)
  BY <1>2 DEF Owes, Debt
<1> QED  BY <1>1, <1>2, <1>3, LiveIs

\* The entry at the tail of an index with a published block has a key.
LEMMA TailKey ==
  ASSUME IndexInv, NEW p \in Names, Span(producers[p].tailIndex) \in Nat \ {0}
  PROVE  producers[p].tail \in Slots /\ KeyOf(producers[p], producers[p].tail)
<1>1. producers[p].tail \in Slots
  BY DEF IndexInv, IndexOK, KeysOK
<1>2. PICK n \in Nat : TailOK(producers[p], n)
  <2>1. CASE Unwritten(p)
    BY <2>1 DEF IndexInv, IndexOK
  <2>2. CASE ~Unwritten(p)
    <3>1. PICK u \in Threads : Enqueuing(u) /\ me[u].producer = p
      BY <2>2 DEF Unwritten
    <3>2. TailOK(producers[p], Extra(me[u])) /\ me[u].blocks \in Seq(PoolBlocks)
      BY <3>1 DEF IndexInv, ThreadOK, WriterOK
    <3>3. Extra(me[u]) \in Nat
      <4>1. PICK n \in Nat : n = Len(me[u].blocks)
        BY <3>2
      <4>2. CASE Gets(me[u])
        BY <4>1, <4>2 DEF Extra
      <4>3. CASE ~Gets(me[u])
        BY <4>1, <4>3 DEF Extra
      <4> QED  BY <4>2, <4>3
    <3> QED  BY <3>2, <3>3
  <2> QED  BY <2>1, <2>2
<1> DEFINE k == Span(producers[p].tailIndex) + n - 1
<1>3. k \in 0 .. k
  OBVIOUS
<1>4. producers[p].tail = Wrap(k) /\ KeyOf(producers[p], Wrap(k))
  BY <1>2, <1>3 DEF TailOK
<1> QED  BY <1>1, <1>4

\* get_block_index_index_for_index: the tail is loaded.
LEMMA FindTailOK ==
  ASSUME QueueInv, ClaimsPublished, FreeInv, IndexInv, NEW t \in Threads, FindTail(t)
  PROVE  IndexInv'
<1>1. /\ me[t].pc = "find" /\ UNCHANGED <<producers, elementsCompletelyDequeued>>
      /\ me[t].pc \in Moving
  BY DEF FindTail, At, takeVars, Moving
<1>2. /\ Shaped /\ DOMAIN me[t] = Locals /\ me[t].ptr \in Names /\ IndexOK(me[t].ptr)
      /\ TakerOK(producers[me[t].ptr], me[t]) /\ Span(producers[me[t].ptr].tailIndex) \in Nat
  BY <1>1, MoverIs
<1>3. PICK s : s = producers[me[t].ptr].tail
  OBVIOUS
<1> DEFINE m == [me[t] EXCEPT !.slot = s]
<1>4. /\ DOMAIN m = Locals /\ m.ptr = me[t].ptr /\ m.index = me[t].index /\ m.end = me[t].end
      /\ m.blocks = me[t].blocks /\ m.slot = s /\ Go(t, "key", m)
  BY <1>2, <1>3, IndexLocal DEF FindTail, Theirs, Locals, Idle
<1> HIDE DEF m
<1>5. /\ Others(t) /\ me'[t].pc = "key" /\ me'[t].ptr = me[t].ptr /\ me'[t].index = me[t].index
      /\ me'[t].end = me[t].end /\ me'[t].blocks = me[t].blocks /\ me'[t].slot = s
  BY <1>2, <1>4, GoIndex
<1>6. /\ me[t].index \in Nat /\ me[t].end \in Nat /\ me[t].index < me[t].end
      /\ Blk(me[t].index) \in 0 .. Span(producers[me[t].ptr].tailIndex) - 1
  BY <1>1, NextItem
<1>7. Span(producers[me[t].ptr].tailIndex) \in Nat \ {0}
  BY <1>2, <1>6
<1>8. s \in Slots /\ KeyOf(producers[me[t].ptr], s)
  BY <1>2, <1>3, <1>7, TailKey
<1>9. Debt(me'[t]) = Debt(me[t]) /\ me'[t].pc \in Moving \ {"assert", "detach"}
  BY <1>1, <1>5 DEF Debt, Moving
<1>10. TakerOK(producers[me[t].ptr], me'[t])
  BY <1>5, <1>6, <1>8 DEF TakerOK, Emptied, CallsPool, PoolSteps
<1> QED  BY <1>1, <1>5, <1>9, <1>10, ReaderOK

\* get_block_index_index_for_index: the key at the tail gives the entry of the index looked for.
LEMMA FindKeyOK ==
  ASSUME QueueInv, ClaimsPublished, FreeInv, IndexInv, NEW t \in Threads, FindKey(t)
  PROVE  IndexInv'
<1>0. PICK q, i : q = producers[me[t].ptr] /\ i = me[t].index
  OBVIOUS
<1>1. /\ me[t].pc = "key" /\ UNCHANGED <<producers, elementsCompletelyDequeued>>
      /\ me[t].pc \in Moving
  BY DEF FindKey, At, takeVars, Moving
<1>2. /\ Shaped /\ DOMAIN me[t] = Locals /\ me[t].ptr \in Names /\ IndexOK(me[t].ptr)
      /\ TakerOK(q, me[t]) /\ Span(q.tailIndex) \in Nat
  BY <1>0, <1>1, MoverIs
<1>3. /\ i \in Nat /\ me[t].end \in Nat /\ i < me[t].end
      /\ q.key[Wrap(Blk(i))] = BaseOf(Blk(i)) /\ q.value[Wrap(Blk(i))] \in PoolBlocks
  BY <1>0, <1>1, NextItem
<1>4. KeyOf(q, me[t].slot)
  BY <1>1, <1>2 DEF TakerOK
<1>5. PICK j \in Int : j = Blk(q.key[me[t].slot])
  BY <1>4, BlkIs DEF KeyOf
<1>6. q.key[me[t].slot] = BaseOf(j) /\ me[t].slot = Wrap(j)
  BY <1>4, <1>5 DEF KeyOf
<1>7. SlotFor(q, me[t].slot, i) = Wrap(Blk(i)) /\ q.key[me[t].slot] # INVALID_BLOCK_BASE
      /\ Base(i) = BaseOf(Blk(i))
  <2>1. i \in Int
    BY <1>3
  <2>2. SlotFor(q, me[t].slot, i) = Wrap(Blk(i))
    BY <1>6, <2>1, SlotForIs
  <2>3. q.key[me[t].slot] # INVALID_BLOCK_BASE
    BY <1>6, BaseIs
  <2>4. Base(i) = BaseOf(Blk(i))
    BY <2>1, BlkIs
  <2> QED  BY <2>2, <2>3, <2>4
<1>8. q.value[Wrap(Blk(i))] # None
  BY <1>3, NotBlock
<1> DEFINE m == [me[t] EXCEPT !.slot = Wrap(Blk(i))]
<1>9. Go(t, "move", m)
  BY <1>0, <1>3, <1>7, <1>8 DEF FindKey, Theirs
<1>10. /\ DOMAIN m = Locals /\ m.ptr = me[t].ptr /\ m.index = i /\ m.end = me[t].end
       /\ m.blocks = me[t].blocks /\ m.slot = Wrap(Blk(i))
  BY <1>0, <1>2, IndexLocal DEF Locals, Idle
<1> HIDE DEF m
<1>11. /\ Others(t) /\ me'[t].pc = "move" /\ me'[t].ptr = me[t].ptr /\ me'[t].index = i
       /\ me'[t].end = me[t].end /\ me'[t].blocks = me[t].blocks /\ me'[t].slot = Wrap(Blk(i))
  BY <1>2, <1>9, <1>10, GoIndex
<1>12. Debt(me'[t]) = Debt(me[t]) /\ me'[t].pc \in Moving \ {"assert", "detach"}
  BY <1>0, <1>1, <1>11 DEF Debt, Moving
<1>13. TakerOK(q, me'[t])
  BY <1>3, <1>11 DEF TakerOK, Emptied, CallsPool, PoolSteps
<1> QED  BY <1>0, <1>1, <1>11, <1>12, <1>13, ReaderOK

\* The items of one block, of those from i on and before end.
LEMMA EndIs ==
  ASSUME NEW i \in Nat, NEW end \in Nat, i < end, NEW x,
         x = IF end < Base(i) + BLOCK_SIZE THEN end ELSE Base(i) + BLOCK_SIZE
  PROVE  /\ x \in Nat /\ i < x /\ x <= end /\ Blk(x - 1) = Blk(i)
         /\ x = end \/ x = BaseOf(Blk(x - 1) + 1)
<1>1. /\ Blk(i) \in Nat /\ BaseOf(Blk(i)) <= i /\ i < BaseOf(Blk(i)) + BLOCK_SIZE
      /\ Base(i) = BaseOf(Blk(i)) /\ BaseOf(Blk(i)) \in Int
  BY BlkIs
<1>2. BLOCK_SIZE \in Nat \ {0}
  BY Sizes
<1>3. x \in Nat /\ i < x /\ x <= end /\ x <= BaseOf(Blk(i)) + BLOCK_SIZE
  BY <1>1, <1>2
<1>4. Blk(x - 1) = Blk(i)
  <2>1. x - 1 \in Int /\ BaseOf(Blk(i)) <= x - 1 /\ x - 1 < BaseOf(Blk(i)) + BLOCK_SIZE
    BY <1>1, <1>2, <1>3
  <2> QED  BY <1>1, <2>1, BlkIs
<1>5. BaseOf(Blk(i) + 1) = BaseOf(Blk(i)) + BLOCK_SIZE
  BY <1>1, BaseIs
<1> QED  BY <1>1, <1>3, <1>4, <1>5

\* The items of one block are moved: the entry found is the one of that block.
LEMMA MoveOK ==
  ASSUME QueueInv, ClaimsPublished, FreeInv, IndexInv, NEW t \in Threads, Move(t)
  PROVE  IndexInv'
<1>0. PICK q, i, x, b : /\ q = producers[me[t].ptr] /\ i = me[t].index /\ x = EndIndex(t)
                        /\ b = q.value[me[t].slot]
  OBVIOUS
<1>1. /\ me[t].pc = "move" /\ UNCHANGED <<producers, elementsCompletelyDequeued>>
      /\ me[t].pc \in Moving
  BY DEF Move, At, Moving
<1>2. /\ Shaped /\ DOMAIN me[t] = Locals /\ me[t].ptr \in Names /\ IndexOK(me[t].ptr)
      /\ TakerOK(q, me[t]) /\ Span(q.tailIndex) \in Nat
  BY <1>0, <1>1, MoverIs
<1>3. /\ i \in Nat /\ me[t].end \in Nat /\ i < me[t].end
      /\ q.key[Wrap(Blk(i))] = BaseOf(Blk(i)) /\ q.value[Wrap(Blk(i))] \in PoolBlocks
  BY <1>0, <1>1, NextItem
<1>4. me[t].slot = Wrap(Blk(i)) /\ b # None
  BY <1>0, <1>1, <1>2, <1>3, NotBlock DEF TakerOK
<1>5. x = IF me[t].end < Base(i) + BLOCK_SIZE THEN me[t].end ELSE Base(i) + BLOCK_SIZE
  BY <1>0 DEF EndIndex
<1>6. /\ x \in Nat /\ i < x /\ x <= me[t].end /\ Blk(x - 1) = Blk(i)
      /\ x = me[t].end \/ x = BaseOf(Blk(x - 1) + 1)
  BY <1>3, <1>5, EndIs
<1> DEFINE m == [me[t] EXCEPT !.block = b, !.index = x, !.count = x - i]
<1>7. Go(t, "empty", m)
  BY <1>0, <1>4 DEF Move, Theirs
<1>8. /\ DOMAIN m = Locals /\ m.ptr = me[t].ptr /\ m.index = x /\ m.end = me[t].end
      /\ m.blocks = me[t].blocks /\ m.slot = me[t].slot /\ m.block = b /\ m.count = x - i
  BY <1>2, IndexLocal DEF Locals, Idle
<1> HIDE DEF m
<1>9. /\ Others(t) /\ me'[t].pc = "empty" /\ me'[t].ptr = me[t].ptr /\ me'[t].index = x
      /\ me'[t].end = me[t].end /\ me'[t].blocks = me[t].blocks /\ me'[t].slot = me[t].slot
      /\ me'[t].block = b /\ me'[t].count = x - i
  BY <1>2, <1>7, <1>8, GoIndex
<1>10. me'[t].pc \in Moving \ {"assert", "detach"}
  BY <1>9 DEF Moving
<1>11. Debt(me'[t]) = Debt(me[t])
  <2>1. Debt(me[t]) = i .. me[t].end - 1
    BY <1>0, <1>1 DEF Debt
  <2>2. Debt(me'[t]) = x - (x - i) .. me[t].end - 1
    BY <1>9 DEF Debt, Emptied, CallsPool, PoolSteps
  <2>3. x - (x - i) = i
    BY <1>3, <1>6
  <2> QED  BY <2>1, <2>2, <2>3
<1>12. TakerOK(q, me'[t])
  <2>1. x - (x - i) = i /\ x - i \in Nat \ {0} /\ x - i <= x /\ x > 0
    BY <1>3, <1>6
  <2>2. Ended(me'[t])
    BY <1>6, <1>9 DEF Ended
  <2> QED  BY <1>0, <1>3, <1>4, <1>6, <1>9, <2>1, <2>2 DEF TakerOK, Emptied, CallsPool, PoolSteps
<1> QED  BY <1>0, <1>1, <1>9, <1>10, <1>11, <1>12, ReaderOK

-----------------------------------------------------------------------------
(* The items of a block are counted, and the block leaves the index.       *)

\* Where a dequeue goes on after a block.
LEMMA NextBlockIs ==
  ASSUME QueueInv, ClaimsPublished, FreeInv, IndexInv, NEW t \in Threads,
         me[t].pc \in {"empty", "freed"}, NextBlock(t), NEW q
  PROVE  /\ Others(t) /\ me'[t].pc \in {"dequeued", "move"} /\ me'[t].ptr = me[t].ptr
         /\ me'[t].blocks = me[t].blocks /\ Debt(me'[t]) = me[t].index .. me[t].end - 1
         /\ TakerOK(q, me'[t])
<1>1. /\ me[t].pc \in Moving
  BY DEF Moving
<1>2. /\ Shaped /\ DOMAIN me[t] = Locals /\ TakerOK(producers[me[t].ptr], me[t])
  BY <1>1, MoverIs
<1>3. /\ me[t].index \in Nat /\ me[t].end \in Nat /\ me[t].index <= me[t].end /\ me[t].index > 0
      /\ me[t].slot = Wrap(Blk(me[t].index - 1)) /\ Ended(me[t])
  BY <1>2 DEF TakerOK, Emptied
<1>4. CASE me[t].index = me[t].end
  <2>1. Go(t, "dequeued", me[t])
    BY <1>4 DEF NextBlock
  <2>2. /\ Others(t) /\ me'[t].pc = "dequeued" /\ me'[t].ptr = me[t].ptr
        /\ me'[t].blocks = me[t].blocks
    BY <1>2, <2>1, GoIndex
  <2>3. Debt(me'[t]) = {} /\ me[t].index .. me[t].end - 1 = {}
    BY <1>3, <1>4, <2>2 DEF Debt, Emptied, CallsPool, PoolSteps
  <2>4. TakerOK(q, me'[t])
    BY <2>2 DEF TakerOK, Emptied, CallsPool, PoolSteps
  <2> QED  BY <2>2, <2>3, <2>4
<1>5. CASE me[t].index # me[t].end
  <2>1. PICK s : s = Wrap(me[t].slot + 1)
    OBVIOUS
  <2> DEFINE m == [me[t] EXCEPT !.slot = s]
  <2>2. Go(t, "move", m)
    BY <1>5, <2>1 DEF NextBlock
  <2>3. /\ DOMAIN m = Locals /\ m.ptr = me[t].ptr /\ m.index = me[t].index /\ m.end = me[t].end
        /\ m.blocks = me[t].blocks /\ m.slot = s
    BY <1>2, IndexLocal DEF Locals, Idle
  <2> HIDE DEF m
  <2>4. /\ Others(t) /\ me'[t].pc = "move" /\ me'[t].ptr = me[t].ptr /\ me'[t].index = me[t].index
        /\ me'[t].end = me[t].end /\ me'[t].blocks = me[t].blocks /\ me'[t].slot = s
    BY <1>2, <2>2, <2>3, GoIndex
  <2>5. s = Wrap(Blk(me[t].index))
    <3>1. PICK k \in Int : k = Blk(me[t].index - 1)
      BY <1>3, BlkIs
    <3>2. me[t].index = BaseOf(k + 1) /\ k + 1 \in Int
      BY <1>3, <1>5, <3>1 DEF Ended
    <3>3. Blk(me[t].index) = k + 1
      BY <3>2, BaseIs
    <3>4. s = Wrap(Wrap(k) + 1)
      BY <1>3, <2>1, <3>1
    <3>5. Wrap(Wrap(k) + 1) = Wrap(k + 1)
      BY <3>1, WrapIs
    <3> QED  BY <3>3, <3>4, <3>5
  <2>6. Debt(me'[t]) = me[t].index .. me[t].end - 1
    BY <2>4 DEF Debt
  <2>7. TakerOK(q, me'[t])
    BY <1>3, <1>5, <2>4, <2>5 DEF TakerOK, Emptied, CallsPool, PoolSteps
  <2> QED  BY <2>4, <2>6, <2>7
<1> QED  BY <1>4, <1>5

\* The block is on the free list, and the consumer goes on with the next.
LEMMA FreedOK ==
  ASSUME QueueInv, ClaimsPublished, FreeInv, IndexInv, NEW t \in Threads, Freed(t)
  PROVE  IndexInv'
<1>1. /\ me[t].pc = "freed" /\ NextBlock(t) /\ UNCHANGED <<producers, elementsCompletelyDequeued>>
  BY DEF Freed, At, takeVars
<1>2. PICK q : q = producers[me[t].ptr]
  OBVIOUS
<1>3. /\ Others(t) /\ me'[t].pc \in {"dequeued", "move"} /\ me'[t].ptr = me[t].ptr
      /\ me'[t].blocks = me[t].blocks /\ Debt(me'[t]) = me[t].index .. me[t].end - 1
      /\ TakerOK(q, me'[t])
  BY <1>1, NextBlockIs
<1>4. Debt(me[t]) = me[t].index .. me[t].end - 1
  BY <1>1 DEF Debt, Emptied
<1>5. me[t].pc \in Moving /\ me'[t].pc \in Moving \ {"assert", "detach"}
  BY <1>1, <1>3 DEF Moving
<1> QED  BY <1>1, <1>2, <1>3, <1>4, <1>5, ReaderOK

\* A block that is in an entry is in no other.
LEMMA EntryAlone ==
  ASSUME FreeInv, NEW p \in Names, NEW s \in Slots, NEW r \in Names, NEW x \in Slots,
         producers[p].value[s] \in PoolBlocks, producers[r].value[x] = producers[p].value[s]
  PROVE  r = p /\ x = s
<1>1. PICK b \in PoolBlocks : b = producers[p].value[s]
  OBVIOUS
<1>2. OnePlace(b)
  BY DEF FreeInv, ListIs
<1>3. InEntry(p, s, b) /\ InEntry(r, x, b)
  BY <1>1 DEF InEntry
<1> QED  BY <1>2, <1>3 DEF OnePlace, OnlyEntry

\* Stretches of a block.
LEMMA StretchIs ==
  ASSUME NEW k \in Int, NEW i \in Int, NEW n \in Int, i < n, Blk(i) = k, Blk(n - 1) = k
  PROVE  /\ i .. n - 1 \subseteq BlockOf(k) /\ IsFiniteSet(i .. n - 1)
         /\ Cardinality(i .. n - 1) = n - i
<1>1. BaseOf(k) <= i /\ n - 1 < BaseOf(k) + BLOCK_SIZE /\ BaseOf(k) \in Int
  BY BlkIs
<1>2. i .. n - 1 \subseteq BlockOf(k)
  BY <1>1, Sizes DEF BlockOf
<1>3. IsFiniteSet(i .. n - 1) /\ Cardinality(i .. n - 1) = IF i > n - 1 THEN 0 ELSE n - 1 - i + 1
  BY FS_Interval
<1> QED  BY <1>2, <1>3

\* The counts of a set without some of it.
LEMMA Without ==
  ASSUME NEW R, NEW D, IsFiniteSet(R), D \subseteq R
  PROVE  Cardinality(R \ D) = Cardinality(R) - Cardinality(D)
<1>1. R \cap D = D
  OBVIOUS
<1> QED  BY <1>1, FS_Difference

\* The items that a dequeue has moved out of a block are counted, and are left no more.
LEMMA ManyEmptyOK ==
  ASSUME QueueInv, ClaimsPublished, FreeInv, IndexInv, NEW t \in Threads, set_many_empty(t)
  PROVE  IndexInv'
<1>0. PICK p, q, k, b, c, n, R :
        /\ p = me[t].ptr /\ q = producers[me[t].ptr] /\ k = Blk(me[t].index - 1) /\ b = me[t].block
        /\ c = me[t].count /\ n = me[t].index /\ R = RestOf(q, me, p, k)
  OBVIOUS
<1>1. /\ me[t].pc = "empty" /\ me[t].pc \in Moving /\ UNCHANGED producers
  BY DEF set_many_empty, At, Moving
<1>2. /\ Shaped /\ DOMAIN me[t] = Locals /\ TakerOK(q, me[t]) /\ Span(q.tailIndex) \in Nat
      /\ IndexOK(p)
  BY <1>0, <1>1, MoverIs
<1>3. /\ p \in Names /\ k \in 0 .. Span(q.tailIndex) - 1 /\ me[t].slot = Wrap(k)
      /\ EntryIs(q, k, b) /\ b \in PoolBlocks /\ R # {}
      /\ elementsCompletelyDequeued[b] = BLOCK_SIZE - Cardinality(R)
  <2>1. IndexOK(me[t].ptr) /\ ThreadOK(t)
    BY <1>0, <1>2 DEF IndexInv
  <2> QED  BY <1>0, <1>1, <2>1, EmptyIs
<1>4. /\ n \in Nat /\ n > 0 /\ me[t].end \in Nat /\ n <= me[t].end
      /\ c \in Nat \ {0} /\ c <= n /\ Blk(n - c) = k /\ Blk(n - 1) = k /\ Ended(me[t])
  BY <1>0, <1>1, <1>2 DEF TakerOK, Emptied
<1> DEFINE D == n - c .. n - 1
<1>5. Debt(me[t]) = n - c .. me[t].end - 1
  BY <1>0, <1>1 DEF Debt, Emptied, CallsPool, PoolSteps
<1>6. /\ elementsCompletelyDequeued' = [elementsCompletelyDequeued EXCEPT ![b] = @ + c]
      /\ IF NowEmpty(t) THEN Go(t, "detach", me[t]) ELSE NextBlock(t)
  BY <1>0 DEF set_many_empty
<1>7. /\ DOMAIN elementsCompletelyDequeued' = PoolBlocks
      /\ elementsCompletelyDequeued'[b] = BLOCK_SIZE - Cardinality(R) + c
      /\ \A x \in PoolBlocks : x # b => elementsCompletelyDequeued'[x] = elementsCompletelyDequeued[x]
      /\ \A x \in PoolBlocks : elementsCompletelyDequeued'[x] \in Int
  <2>1. DOMAIN elementsCompletelyDequeued = PoolBlocks
        /\ \A x \in PoolBlocks : elementsCompletelyDequeued[x] \in Int
    BY DEF IndexInv
  <2> QED  BY <1>3, <1>4, <1>6, <2>1
<1>8. NowEmpty(t) <=> elementsCompletelyDequeued[b] + c = BLOCK_SIZE
  BY <1>0 DEF NowEmpty
\* What the thread does next.
<1>9. /\ Others(t) /\ me'[t].pc \in {"detach", "dequeued", "move"} /\ me'[t].ptr = p
      /\ me'[t].blocks = me[t].blocks /\ Debt(me'[t]) = n .. me[t].end - 1 /\ TakerOK(q, me'[t])
      /\ me'[t].pc = "detach" <=> NowEmpty(t)
      /\ me'[t].pc = "detach" => me'[t].index = n /\ me'[t].block = b /\ me'[t].slot = me[t].slot
  <2>1. CASE NowEmpty(t)
    <3>1. Go(t, "detach", me[t])
      BY <1>6, <2>1
    <3>2. /\ Others(t) /\ me'[t].pc = "detach" /\ me'[t].ptr = p /\ me'[t].blocks = me[t].blocks
          /\ me'[t].index = n /\ me'[t].end = me[t].end /\ me'[t].block = b
          /\ me'[t].slot = me[t].slot
      BY <1>0, <1>2, <3>1, GoIndex
    <3>3. Debt(me'[t]) = n .. me[t].end - 1
      BY <3>2 DEF Debt, Emptied
    <3>4. Ended(me'[t])
      BY <1>0, <1>4, <3>2 DEF Ended
    <3>5. TakerOK(q, me'[t])
      BY <1>0, <1>3, <1>4, <3>2, <3>4 DEF TakerOK
    <3> QED  BY <2>1, <3>2, <3>3, <3>5
  <2>2. CASE ~NowEmpty(t)
    <3>1. NextBlock(t) /\ me[t].pc \in {"empty", "freed"}
      BY <1>1, <1>6, <2>2
    <3>2. /\ Others(t) /\ me'[t].pc \in {"dequeued", "move"} /\ me'[t].ptr = me[t].ptr
          /\ me'[t].blocks = me[t].blocks /\ Debt(me'[t]) = me[t].index .. me[t].end - 1
          /\ TakerOK(q, me'[t])
      BY <3>1, NextBlockIs
    <3> QED  BY <1>0, <2>2, <3>2
  <2> QED  BY <2>1, <2>2
<1>10. ASSUME NEW r \in Names, NEW i \in Int
       PROVE  /\ \A u \in Threads \ {t} : Owes(me', r, u, i) <=> Owes(me, r, u, i)
              /\ Owes(me', r, t, i) <=> Owes(me, r, t, i) /\ i >= n
              /\ Owes(me, r, t, i) /\ ~(i >= n) <=> r = p /\ i \in D
  <2>1. Owes(me', r, t, i) <=> r = p /\ i \in n .. me[t].end - 1
    BY <1>9 DEF Owes
  <2>2. Owes(me, r, t, i) <=> r = p /\ i \in n - c .. me[t].end - 1
    BY <1>0, <1>5 DEF Owes
  <2> QED  BY <1>4, <1>9, <2>1, <2>2 DEF Owes, Others
<1>11. D \subseteq BlockOf(k) /\ IsFiniteSet(D) /\ Cardinality(D) = c
  <2>1. PICK i \in Int : i = n - c
    BY <1>4
  <2>2. i < n /\ n \in Int /\ k \in Int /\ Blk(i) = k /\ Blk(n - 1) = k /\ n - i = c
    BY <1>3, <1>4, <2>1
  <2>3. i .. n - 1 \subseteq BlockOf(k) /\ IsFiniteSet(i .. n - 1) /\ Cardinality(i .. n - 1) = n - i
    BY <2>2, StretchIs
  <2> QED  BY <2>1, <2>2, <2>3
<1>12. /\ \A u \in Threads : \A i \in Int : Owes(me, p, u, i) => i \in Nat /\ i < q.headIndex
       /\ \A u, v \in Threads : \A i \in Int : Owes(me, p, u, i) /\ Owes(me, p, v, i) => u = v
  BY <1>0, <1>2 DEF IndexOK, DebtsOK
<1>13. q.headIndex \in Nat
  BY <1>0, <1>3, ProducerIs
\* What is left of each block.
<1>14. RestOf(q, me', p, k) = R \ D /\ D \subseteq R
  <2>1. ASSUME NEW i \in Int
        PROVE  /\ Rest(q, me', p, i) <=> Rest(q, me, p, i) /\ i \notin D
               /\ i \in D => Rest(q, me, p, i)
    <3>1. CASE i \in D
      <4>1. Owes(me, p, t, i) /\ ~(i >= n)
        BY <1>3, <1>10, <3>1
      <4>2. \A u \in Threads : ~Owes(me', p, u, i)
        <5>1. ~Owes(me', p, t, i)
          BY <1>3, <1>10, <4>1
        <5>2. \A u \in Threads \ {t} : ~Owes(me, p, u, i)
          BY <1>12, <4>1
        <5> QED  BY <1>3, <1>10, <5>1, <5>2
      <4>3. ~(i >= q.headIndex)
        BY <1>12, <1>13, <4>1
      <4> QED  BY <3>1, <4>1, <4>2, <4>3 DEF Rest
    <3>2. CASE i \notin D
      <4>1. \A u \in Threads : Owes(me', p, u, i) <=> Owes(me, p, u, i)
        BY <1>3, <1>10, <3>2
      <4> QED  BY <3>2, <4>1 DEF Rest
    <3> QED  BY <3>1, <3>2
  <2>2. BlockOf(k) \subseteq Int
    BY <1>3, BlockOfIs
  <2> HIDE DEF D
  <2> QED  BY <1>0, <1>11, <2>1, <2>2 DEF RestOf
<1>15. ASSUME NEW r \in Names, NEW j \in Int, r # p \/ j # k
       PROVE  RestOf(producers[r], me', r, j) = RestOf(producers[r], me, r, j)
  <2>1. ASSUME NEW i \in BlockOf(j)
        PROVE  Rest(producers[r], me', r, i) <=> Rest(producers[r], me, r, i)
    <3>1. i \in Int /\ Blk(i) = j
      BY BlockOfIs
    <3>2. ~(r = p /\ i \in D)
      <4>1. i \in D => Blk(i) = k
        BY <1>3, <1>11, BlockOfIs
      <4> QED  BY <1>15, <3>1, <4>1
    <3>3. \A u \in Threads : Owes(me', r, u, i) <=> Owes(me, r, u, i)
      BY <1>10, <3>1, <3>2
    <3> QED  BY <3>3 DEF Rest
  <2> QED  BY <2>1 DEF RestOf
<1>16. /\ IsFiniteSet(R) /\ Cardinality(R) \in Nat
       /\ Cardinality(RestOf(q, me', p, k)) = Cardinality(R) - c
       /\ NowEmpty(t) <=> RestOf(q, me', p, k) = {}
  <2>1. IsFiniteSet(R) /\ Cardinality(R) \in Nat
    BY <1>0, <1>3, RestIs
  <2>2. Cardinality(R \ D) = Cardinality(R) - Cardinality(D)
    <3> HIDE DEF D
    <3> QED  BY <1>14, <2>1, Without
  <2>3. Cardinality(RestOf(q, me', p, k)) = 0 <=> RestOf(q, me', p, k) = {}
    <3>1. IsFiniteSet(R \ D)
      <4> HIDE DEF D
      <4> QED  BY <2>1, FS_Difference
    <3> QED  BY <1>14, <3>1, FS_EmptySet
  <2>4. Cardinality(RestOf(q, me', p, k)) = Cardinality(R) - c
    BY <1>11, <1>14, <2>2
  <2>5. NowEmpty(t) <=> Cardinality(R) - c = 0
    BY <1>3, <1>4, <1>8, <2>1, Sizes
  <2> QED  BY <2>1, <2>3, <2>4, <2>5
<1> HIDE DEF D
\* No other block's count changes.
<1>17. ASSUME NEW r \in Names, NEW j \in Int, EntryIs(producers[r], j, b)
       PROVE  r = p /\ j = k
  <2>1. Wrap(j) \in Slots /\ Wrap(k) \in Slots
    BY <1>3, WrapIs
  <2>2. producers[r].value[Wrap(j)] = b /\ producers[p].value[Wrap(k)] = b
    BY <1>0, <1>3, <1>17 DEF EntryIs
  <2>3. r = p /\ Wrap(j) = Wrap(k)
    BY <1>3, <2>1, <2>2, EntryAlone
  <2> QED  BY <1>0, <1>3, <1>17, <2>3, OneEntry
<1>18. ASSUME NEW r \in Names PROVE IndexOK(r)'
  <2>1. /\ KeysOK(producers[r]) /\ LiveOK(producers[r], me, r, elementsCompletelyDequeued)
        /\ DebtsOK(producers[r], me, r) /\ (Unwritten(r) => TailOK(producers[r], 0))
        /\ Span(producers[r].tailIndex) \in Nat
    BY ProducerIs DEF IndexInv, IndexOK
  <2>2. LiveOK(producers[r], me', r, elementsCompletelyDequeued')
    <3> SUFFICES ASSUME NEW j \in 0 .. Span(producers[r].tailIndex) - 1,
                        RestOf(producers[r], me', r, j) # {}
                 PROVE  /\ producers[r].key[Wrap(j)] = BaseOf(j)
                        /\ producers[r].value[Wrap(j)] \in PoolBlocks
                        /\ elementsCompletelyDequeued'[producers[r].value[Wrap(j)]]
                             = BLOCK_SIZE - Cardinality(RestOf(producers[r], me', r, j))
      BY DEF LiveOK
    <3>0. j \in Int
      BY <2>1
    <3>1. CASE r = p /\ j = k
      <4>1. /\ producers[r].key[Wrap(j)] = BaseOf(j) /\ producers[r].value[Wrap(j)] = b
        BY <1>0, <1>3, <3>1 DEF EntryIs
      <4>2. Cardinality(RestOf(producers[r], me', r, j)) = Cardinality(R) - c
        BY <1>0, <1>16, <3>1
      <4>3. BLOCK_SIZE - Cardinality(R) + c = BLOCK_SIZE - (Cardinality(R) - c)
        BY <1>4, <1>16, Sizes
      <4> QED  BY <1>3, <1>7, <4>1, <4>2, <4>3
    <3>2. CASE ~(r = p /\ j = k)
      <4>1. RestOf(producers[r], me', r, j) = RestOf(producers[r], me, r, j)
        BY <1>15, <3>0, <3>2
      <4>2. /\ producers[r].key[Wrap(j)] = BaseOf(j) /\ producers[r].value[Wrap(j)] \in PoolBlocks
            /\ elementsCompletelyDequeued[producers[r].value[Wrap(j)]]
                 = BLOCK_SIZE - Cardinality(RestOf(producers[r], me, r, j))
        BY <2>1, <4>1 DEF LiveOK
      <4>3. producers[r].value[Wrap(j)] # b
        BY <1>17, <3>0, <3>2, <4>2 DEF EntryIs
      <4> QED  BY <1>7, <4>1, <4>2, <4>3
    <3> QED  BY <3>1, <3>2
  <2>3. DebtsOK(producers[r], me', r)
    <3>1. \A u \in Threads : \A i \in Int : Owes(me', r, u, i) => Owes(me, r, u, i)
      BY <1>10
    <3> QED  BY <2>1, <3>1 DEF DebtsOK
  <2>4. Unwritten(r)' => Unwritten(r)
    <3>1. ~Enqueuing(t) /\ \A u \in Threads \ {t} : (Enqueuing(u)' <=> Enqueuing(u)) /\ me'[u] = me[u]
      BY <1>1, <1>9 DEF Enqueuing, Others, PoolSteps
    <3> QED  BY <3>1 DEF Unwritten
  <2> QED  BY <1>1, <2>1, <2>2, <2>3, <2>4 DEF IndexOK
<1>19. ThreadOK(t)'
  <2>1. ~Enqueuing(t) /\ ~Enqueuing(t)'
    BY <1>1, <1>9 DEF Enqueuing, PoolSteps
  <2>2. me'[t].blocks = << >>
    BY <1>9, <2>1 DEF IndexInv, ThreadOK
  <2>3. AskOK(me'[t])
    BY <1>9 DEF AskOK, Claiming
  <2>4. DetachOK(q, me', me'[t], p)
    <3> SUFFICES ASSUME me'[t].pc = "detach" PROVE DetachOK(q, me', me'[t], p)
      BY DEF DetachOK
    <3>1. me'[t].index = n /\ me'[t].block = b /\ RestOf(q, me', p, k) = {}
      BY <1>9, <1>16
    <3>2. k < Span(q.tailIndex) /\ Blk(n - 1) = k
      BY <1>2, <1>3, <1>4
    <3> QED  BY <1>3, <3>1, <3>2 DEF DetachOK
  <2> QED  BY <1>0, <1>1, <1>9, <2>1, <2>2, <2>3, <2>4 DEF ThreadOK
<1>20. ASSUME NEW u \in Threads \ {t} PROVE ThreadOK(u)'
  <2>0. me'[u] = me[u] /\ ThreadOK(u)
    BY <1>9 DEF Others, IndexInv
  <2>1. PICK y, z : y \in Names /\ z \in Names /\ (Enqueuing(u) => y = me[u].producer)
                    /\ (Consuming(u) /\ me[u].pc # "rotate" => z = me[u].ptr)
    <3>1. Enqueuing(u) => me[u].producer \in Names
      BY TheirProducers
    <3>2. Consuming(u) /\ me[u].pc # "rotate" => me[u].ptr \in Names
      BY TheirProducers
    <3> QED  BY <1>3, <3>1, <3>2, Zenon
  <2>2. WriterSame(producers[y], producers'[y]) /\ KeysSame(producers[z], producers'[z])
    BY <1>1 DEF WriterSame, KeysSame
  <2>3. ASSUME Enqueuing(u), NEW j \in DOMAIN me[u].blocks
        PROVE  elementsCompletelyDequeued'[me[u].blocks[j]] = elementsCompletelyDequeued[me[u].blocks[j]]
    <3>1. WriterOK(producers[y], me[u], elementsCompletelyDequeued) /\ Span(producers[y].tailIndex) \in Nat
      BY <2>0, <2>1, <2>3, ProducerIs DEF ThreadOK
    <3>2. Len(me[u].freed) \in Nat
      <4>1. me[u].freed \in Seq(PoolBlocks)
        BY DEF FreeInv, PoolOK
      <4> QED  BY <4>1
    <3>3. /\ me[u].blocks[j] \in PoolBlocks
          /\ \E x \in Int : x >= Span(producers[y].tailIndex) /\ EntryIs(producers[y], x, me[u].blocks[j])
      BY <3>1, <3>2, WriterBlocks
    <3>4. me[u].blocks[j] # b
      <4> SUFFICES ASSUME me[u].blocks[j] = b PROVE FALSE
        OBVIOUS
      <4>1. PICK x \in Int : x >= Span(producers[y].tailIndex) /\ EntryIs(producers[y], x, b)
        BY <3>3
      <4>2. y = p /\ x = k
        BY <1>17, <2>1, <4>1
      <4> QED  BY <1>0, <1>3, <3>1, <4>1, <4>2
    <3> QED  BY <1>7, <3>3, <3>4
  <2>4. Span(producers[z].tailIndex) \in Nat
    BY <2>1, ProducerIs
  <2>5. ASSUME Consuming(u), me[u].pc = "detach", RestOf(producers[z], me, z, Blk(me[u].index - 1)) = {}
        PROVE  RestOf(producers[z], me', z, Blk(me[u].index - 1)) = {}
    <3>1. z = me[u].ptr
      BY <2>1, <2>5
    <3>2. Blk(me[u].index - 1) \in 0 .. Span(producers[z].tailIndex) - 1
      BY <2>5, <3>1, TakerBlock
    <3>3. Blk(me[u].index - 1) \in Int
      BY <2>4, <3>2
    <3>4. CASE z = p /\ Blk(me[u].index - 1) = k
      BY <1>0, <1>3, <2>5, <3>4
    <3>5. CASE ~(z = p /\ Blk(me[u].index - 1) = k)
      BY <1>15, <2>1, <2>5, <3>3, <3>5
    <3> QED  BY <3>4, <3>5
  <2> QED  BY <1>1, <2>0, <2>1, <2>2, <2>3, <2>4, <2>5, OtherKept
<1>21. DetachersApart'
  <2> SUFFICES ASSUME NEW u \in Threads \ {t}, me[u].pc = "detach", me'[t].pc = "detach",
                      me[u].ptr = p, me[u].slot = me[t].slot
               PROVE  FALSE
    <3>1. DetachersApart /\ \A u \in Threads \ {t} : me'[u] = me[u]
      BY <1>9 DEF IndexInv, Others
    <3>2. ASSUME NEW u \in Threads, NEW v \in Threads, me'[u].pc = "detach", me'[v].pc = "detach",
                 me'[u].ptr = me'[v].ptr, me'[u].slot = me'[v].slot
          PROVE  u = v
      <4>1. CASE u # t /\ v # t
        BY <3>1, <3>2, <4>1 DEF DetachersApart
      <4>2. CASE u = t /\ v # t
        BY <1>9, <3>1, <3>2, <4>2
      <4>3. CASE u # t /\ v = t
        BY <1>9, <3>1, <3>2, <4>3
      <4> QED  BY <4>1, <4>2, <4>3
    <3> QED  BY <3>2 DEF DetachersApart
  <2>1. PICK j : j = Blk(me[u].index - 1)
    OBVIOUS
  <2>2. /\ j \in 0 .. Span(q.tailIndex) - 1 /\ Wrap(j) = Wrap(k) /\ EntryIs(q, j, me[u].block)
        /\ RestOf(q, me, p, j) = {}
    BY <1>0, <1>3, <2>1, TakerBlock
  <2>3. j \in Int /\ k \in Int
    BY <1>2, <1>3, <2>2
  <2>4. j = k
    BY <1>3, <2>2, <2>3, OneEntry
  <2> QED  BY <1>0, <1>3, <2>2, <2>4
<1> QED  BY <1>7, <1>18, <1>19, <1>20, <1>21 DEF IndexInv

\* A block with no items left leaves the index.
LEMMA DetachIndexOK ==
  ASSUME QueueInv, ClaimsPublished, FreeInv, IndexInv, NEW t \in Threads, Detach(t)
  PROVE  IndexInv'
<1>0. PICK p, q, k, s :
        /\ p = me[t].ptr /\ q = producers[me[t].ptr] /\ k = Blk(me[t].index - 1) /\ s = me[t].slot
  OBVIOUS
<1>1. /\ me[t].pc = "detach" /\ me[t].pc \in Moving
      /\ elementsCompletelyDequeued' = elementsCompletelyDequeued
      /\ producers' = [producers EXCEPT ![p].value[s] = None]
  BY <1>0 DEF Detach, At, Moving, takeVars
<1>2. /\ Shaped /\ DOMAIN me[t] = Locals /\ TakerOK(q, me[t]) /\ Span(q.tailIndex) \in Nat
      /\ IndexOK(p) /\ p \in Names
  BY <1>0, <1>1, MoverIs
<1>3. /\ k \in 0 .. Span(q.tailIndex) - 1 /\ s = Wrap(k)
      /\ EntryIs(q, k, me[t].block) /\ RestOf(q, me, p, k) = {} /\ k \in Int
  <2>1. /\ k \in 0 .. Span(q.tailIndex) - 1 /\ s = Wrap(k)
        /\ EntryIs(q, k, me[t].block) /\ RestOf(q, me, p, k) = {}
    BY <1>0, <1>1, TakerBlock
  <2> QED  BY <1>2, <2>1
<1>4. s \in Slots /\ DOMAIN producers = Names
  BY <1>3, WrapIs DEF QueueInv, CounterInv
<1> DEFINE m == [me[t] EXCEPT !.node = me[t].block, !.back = "freed"]
<1>5. /\ DOMAIN m = Locals /\ m.ptr = p /\ m.index = me[t].index /\ m.end = me[t].end
      /\ m.blocks = me[t].blocks /\ m.slot = s /\ m.back = "freed" /\ Go(t, "add", m)
  BY <1>0, <1>2, IndexLocal DEF Detach, Locals, Idle
<1> HIDE DEF m
<1>6. /\ Others(t) /\ me'[t].pc = "add" /\ me'[t].ptr = p /\ me'[t].index = me[t].index
      /\ me'[t].end = me[t].end /\ me'[t].blocks = me[t].blocks /\ me'[t].slot = s
      /\ me'[t].back = "freed"
  BY <1>2, <1>5, GoIndex
<1>7. Emptied(me'[t]) /\ Emptied(me[t]) /\ Debt(me'[t]) = Debt(me[t])
  BY <1>1, <1>6 DEF Debt, Emptied, CallsPool, PoolSteps
<1>8. \A r \in Names : \A u \in Threads : \A i \in Int : Owes(me', r, u, i) <=> Owes(me, r, u, i)
  BY <1>0, <1>6, <1>7 DEF Owes, Others
<1>9. /\ producers'[p] = [q EXCEPT !.value[s] = None]
      /\ \A r \in Names : r # p => producers'[r] = producers[r]
  BY <1>0, <1>1, <1>2, <1>4
<1>10. KeysOK(q)
  BY <1>0, <1>2 DEF IndexOK
<1>11. PICK x : x = producers'[p]
  OBVIOUS
<1>12. /\ KeysOK(x) /\ KeysSame(q, x) /\ KeysSame(x, q)
       /\ x.tail = q.tail /\ x.key = q.key /\ x.tailIndex = q.tailIndex /\ x.headIndex = q.headIndex
       /\ x.value[s] = None /\ \A y \in Slots \ {s} : x.value[y] = q.value[y]
       /\ TailOK(q, 0) => TailOK(x, 0)
  <2>1. x = [q EXCEPT !.value[s] = None]
    BY <1>9, <1>11
  <2>2. /\ KeysOK(x) /\ KeysSame(q, x) /\ KeysSame(x, q)
        /\ x.tail = q.tail /\ x.key = q.key /\ x.tailIndex = q.tailIndex /\ x.headIndex = q.headIndex
        /\ x.value[s] = None /\ \A y \in Slots \ {s} : x.value[y] = q.value[y]
    <3>1. {"tail", "key", "value", "tailIndex", "headIndex"} \subseteq DOMAIN q
      BY <1>10 DEF KeysOK, ImplicitProducer
    <3>2. /\ DOMAIN x = DOMAIN q /\ DOMAIN x.value = DOMAIN q.value
          /\ x.tail = q.tail /\ x.key = q.key /\ x.tailIndex = q.tailIndex /\ x.headIndex = q.headIndex
          /\ x.value[s] = None /\ \A y \in Slots \ {s} : x.value[y] = q.value[y]
      BY <1>4, <1>10, <2>1, <3>1 DEF KeysOK
    <3>3. KeysOK(x)
      BY <1>10, <3>2 DEF KeysOK, KeyOf
    <3> QED  BY <3>2, <3>3 DEF KeysSame, KeyOf
  <2>3. TailOK(q, 0) => TailOK(x, 0)
    BY <2>2 DEF TailOK, KeyOf
  <2> QED  BY <2>2, <2>3
\* Only the entry of block k changes.
<1>13. ASSUME NEW j \in Int, NEW b, EntryIs(q, j, b), j # k
       PROVE  EntryIs(x, j, b) /\ Wrap(j) # s
  <2>1. Wrap(j) # s
    BY <1>3, <1>13, OneEntry
  <2>2. Wrap(j) \in Slots
    BY WrapIs
  <2> QED  BY <1>12, <1>13, <2>1, <2>2 DEF EntryIs
<1>14. ASSUME NEW r \in Names, NEW j \in Int
       PROVE  RestOf(producers'[r], me', r, j) = RestOf(producers[r], me, r, j)
  <2>1. producers'[r].headIndex = producers[r].headIndex
    BY <1>0, <1>9, <1>11, <1>12
  <2> QED  BY <1>8, <2>1, RestKept
<1>15. ASSUME NEW r \in Names PROVE IndexOK(r)'
  <2>1. /\ KeysOK(producers[r]) /\ LiveOK(producers[r], me, r, elementsCompletelyDequeued)
        /\ DebtsOK(producers[r], me, r) /\ (Unwritten(r) => TailOK(producers[r], 0))
        /\ Span(producers[r].tailIndex) \in Nat
    BY ProducerIs DEF IndexInv, IndexOK
  <2>2. KeysOK(producers'[r]) /\ producers'[r].tailIndex = producers[r].tailIndex
        /\ producers'[r].headIndex = producers[r].headIndex
        /\ (TailOK(producers[r], 0) => TailOK(producers'[r], 0))
    BY <1>0, <1>9, <1>11, <1>12, <2>1
  <2>3. LiveOK(producers'[r], me', r, elementsCompletelyDequeued')
    <3> SUFFICES ASSUME NEW j \in 0 .. Span(producers[r].tailIndex) - 1,
                        RestOf(producers[r], me, r, j) # {}
                 PROVE  /\ producers'[r].key[Wrap(j)] = BaseOf(j)
                        /\ producers'[r].value[Wrap(j)] \in PoolBlocks
                        /\ elementsCompletelyDequeued'[producers'[r].value[Wrap(j)]]
                             = BLOCK_SIZE - Cardinality(RestOf(producers[r], me, r, j))
      <4>1. \A j \in 0 .. Span(producers[r].tailIndex) - 1 : j \in Int
        BY <2>1
      <4> QED  BY <1>14, <2>2, <4>1 DEF LiveOK
    <3>1. /\ producers[r].key[Wrap(j)] = BaseOf(j) /\ producers[r].value[Wrap(j)] \in PoolBlocks
          /\ elementsCompletelyDequeued[producers[r].value[Wrap(j)]]
               = BLOCK_SIZE - Cardinality(RestOf(producers[r], me, r, j))
      BY <2>1 DEF LiveOK
    <3>2. j \in Int
      BY <2>1
    <3>3. CASE r # p
      BY <1>1, <1>9, <3>1, <3>3
    <3>4. CASE r = p
      <4>1. j # k /\ producers[r] = q
        BY <1>0, <1>3, <3>4
      <4>2. EntryIs(q, j, q.value[Wrap(j)])
        BY <3>1, <4>1 DEF EntryIs
      <4>3. EntryIs(x, j, q.value[Wrap(j)])
        BY <1>13, <3>2, <4>1, <4>2
      <4> QED  BY <1>1, <1>11, <3>1, <3>4, <4>1, <4>3 DEF EntryIs
    <3> QED  BY <3>3, <3>4
  <2>4. DebtsOK(producers'[r], me', r)
    BY <1>8, <2>1, <2>2 DEF DebtsOK
  <2>5. Unwritten(r)' => Unwritten(r)
    <3>1. ~Enqueuing(t) /\ \A u \in Threads \ {t} : (Enqueuing(u)' <=> Enqueuing(u)) /\ me'[u] = me[u]
      BY <1>1, <1>6 DEF Enqueuing, Others, PoolSteps
    <3> QED  BY <3>1 DEF Unwritten
  <2> QED  BY <2>1, <2>2, <2>3, <2>4, <2>5 DEF IndexOK
<1>16. ThreadOK(t)'
  <2>1. ~Enqueuing(t) /\ ~Enqueuing(t)'
    BY <1>1, <1>6 DEF Enqueuing, PoolSteps
  <2>2. me'[t].blocks = << >>
    BY <1>6, <2>1 DEF IndexInv, ThreadOK
  <2>3. AskOK(me'[t])
    BY <1>6 DEF AskOK, Claiming
  <2>4. DetachOK(x, me', me'[t], p)
    BY <1>6 DEF DetachOK
  <2>5. TakerOK(x, me'[t])
    <3>1. me[t].index \in Nat /\ me[t].end \in Nat /\ me[t].index <= me[t].end
          /\ me[t].index > 0 /\ s = Wrap(Blk(me[t].index - 1)) /\ Ended(me[t])
      BY <1>0, <1>2, <1>7 DEF TakerOK
    <3>2. Ended(me'[t])
      BY <1>6, <3>1 DEF Ended
    <3> QED  BY <1>6, <3>1, <3>2 DEF TakerOK
  <2> QED  BY <1>6, <1>11, <2>1, <2>2, <2>3, <2>4, <2>5 DEF ThreadOK
<1>17. ASSUME NEW u \in Threads \ {t} PROVE ThreadOK(u)'
  <2>0. me'[u] = me[u] /\ ThreadOK(u)
    BY <1>6 DEF Others, IndexInv
  <2>1. PICK y, z : y \in Names /\ z \in Names /\ (Enqueuing(u) => y = me[u].producer)
                    /\ (Consuming(u) /\ me[u].pc # "rotate" => z = me[u].ptr)
    <3>1. Enqueuing(u) => me[u].producer \in Names
      BY TheirProducers
    <3>2. Consuming(u) /\ me[u].pc # "rotate" => me[u].ptr \in Names
      BY TheirProducers
    <3> QED  BY <1>2, <3>1, <3>2, Zenon
  <2>2. WriterSame(producers[y], producers'[y])
    <3>1. CASE y # p
      BY <1>9, <2>1, <3>1 DEF WriterSame
    <3>2. CASE y = p
      <4>1. ASSUME NEW j \in Int, NEW b, j >= Span(q.tailIndex), EntryIs(q, j, b)
            PROVE  EntryIs(x, j, b)
        <5>1. j # k
          BY <1>2, <1>3, <4>1
        <5> QED  BY <1>13, <4>1, <5>1
      <4>2. WriterSame(q, x)
        BY <1>12, <4>1 DEF WriterSame
      <4> QED  BY <1>0, <1>11, <3>2, <4>2
    <3> QED  BY <3>1, <3>2
  <2>3. KeysSame(producers[z], producers'[z]) /\ producers'[z].tailIndex = producers[z].tailIndex
    <3>1. CASE z # p
      BY <1>9, <2>1, <3>1 DEF KeysSame
    <3>2. CASE z = p
      BY <1>0, <1>11, <1>12, <3>2
    <3> QED  BY <3>1, <3>2
  <2>4. Span(producers[z].tailIndex) \in Nat
    BY <2>1, ProducerIs
  <2>5. ASSUME Consuming(u), me[u].pc \in {"empty", "detach"}
        PROVE  /\ EntryIs(producers[z], Blk(me[u].index - 1), me[u].block)
                    => EntryIs(producers'[z], Blk(me[u].index - 1), me[u].block)
               /\ RestOf(producers'[z], me', z, Blk(me[u].index - 1))
                    = RestOf(producers[z], me, z, Blk(me[u].index - 1))
    <3>1. z = me[u].ptr
      BY <2>1, <2>5
    <3>2. PICK j : j = Blk(me[u].index - 1)
      OBVIOUS
    <3>3. /\ j \in 0 .. Span(producers[z].tailIndex) - 1 /\ me[u].slot = Wrap(j)
          /\ EntryIs(producers[z], j, me[u].block)
          /\ (me[u].pc = "empty" => RestOf(producers[z], me, z, j) # {})
      BY <2>5, <3>1, <3>2, TakerBlock
    <3>4. j \in Int
      BY <2>4, <3>3
    <3>5. CASE z # p
      BY <1>9, <1>14, <2>1, <3>2, <3>4, <3>5
    <3>6. CASE z = p
      <4>1. j # k
        <5> SUFFICES ASSUME j = k PROVE FALSE
          OBVIOUS
        <5>1. me[u].pc = "detach" /\ me[u].slot = s
          BY <1>0, <1>3, <2>5, <3>3, <3>6
        <5>2. DetachersApart
          BY DEF IndexInv
        <5> QED  BY <1>0, <1>1, <3>1, <3>6, <5>1, <5>2 DEF DetachersApart
      <4>2. EntryIs(x, j, me[u].block)
        BY <1>0, <1>13, <3>3, <3>4, <3>6, <4>1
      <4> QED  BY <1>11, <1>14, <2>1, <3>2, <3>4, <3>6, <4>2
    <3> QED  BY <3>5, <3>6
  <2> QED  BY <1>1, <2>0, <2>1, <2>2, <2>3, <2>4, <2>5, OtherKept
<1>18. DetachersApart'
  <2>1. DetachersApart
    BY DEF IndexInv
  <2> QED  BY <1>6, <2>1 DEF DetachersApart, Others
<1>19. DOMAIN elementsCompletelyDequeued = PoolBlocks
       /\ \A b \in PoolBlocks : elementsCompletelyDequeued[b] \in Int
  BY DEF IndexInv
<1> QED  BY <1>1, <1>15, <1>16, <1>17, <1>18, <1>19 DEF IndexInv

-----------------------------------------------------------------------------
(* An enqueue adds blocks to its index, or takes them off again.           *)

\* What is known of a thread that enqueues.
LEMMA WriterIs ==
  ASSUME QueueInv, ClaimsPublished, FreeInv, IndexInv, NEW t \in Threads, Enqueuing(t)
  PROVE  LET q == producers[me[t].producer]
         IN  /\ Shaped /\ DOMAIN me[t] = Locals /\ PoolOK(me[t]) /\ me[t].producer \in Names
             /\ WriterOK(q, me[t], elementsCompletelyDequeued) /\ KeysOK(q)
             /\ q.tailIndex \in Nat /\ q.headIndex \in Nat /\ q.headIndex <= q.tailIndex
             /\ Span(q.tailIndex) \in Nat /\ Len(me[t].items) \in Nat
             /\ me[t].blocks \in Seq(PoolBlocks) /\ Len(me[t].blocks) \in Nat
             /\ me[t].freed \in Seq(PoolBlocks) /\ Len(me[t].freed) \in Nat
             /\ me[t].pc \in {"first", "attach"} => me[t].freed = << >>
             /\ NextBase(t) = BaseOf(Span(q.tailIndex) + Len(me[t].blocks))
<1>0. PICK q : q = producers[me[t].producer]
  OBVIOUS
<1>1. /\ Shaped /\ DOMAIN me[t] = Locals /\ PoolOK(me[t]) /\ me[t].producer \in Names
      /\ Len(me[t].items) \in Nat
  BY FreeIs, TheirProducers DEF QueueInv, CallInv
<1>2. WriterOK(q, me[t], elementsCompletelyDequeued) /\ KeysOK(q)
  BY <1>0, <1>1 DEF IndexInv, IndexOK, ThreadOK
<1>3. /\ q.tailIndex \in Nat /\ q.headIndex \in Nat /\ q.headIndex <= q.tailIndex
      /\ Span(q.tailIndex) \in Nat
  BY <1>0, <1>1, ProducerIs
<1>4. me[t].blocks \in Seq(PoolBlocks) /\ me[t].freed \in Seq(PoolBlocks)
  BY <1>1, <1>2 DEF WriterOK, PoolOK
<1>5. Len(me[t].blocks) \in Nat /\ Len(me[t].freed) \in Nat
  BY <1>4
<1>6. me[t].pc \in {"first", "attach"} => me[t].freed = << >>
  BY <1>1 DEF PoolOK, CallsPool, PoolSteps
<1>7. NextBase(t) = BaseOf(Span(q.tailIndex) + Len(me[t].blocks))
  <2>1. PICK k, l \in Nat : k = Span(q.tailIndex) /\ l = Len(me[t].blocks)
    BY <1>3, <1>5
  <2>2. RoundUp(q.tailIndex) = BaseOf(k)
    BY <1>3, <2>1, SpanIs
  <2>3. NextBase(t) = BaseOf(k) + BLOCK_SIZE * l
    BY <1>0, <2>1, <2>2 DEF NextBase, MyQueue
  <2>4. (k + l) * BLOCK_SIZE = k * BLOCK_SIZE + BLOCK_SIZE * l
    BY Sizes
  <2> QED  BY <2>1, <2>3, <2>4 DEF BaseOf
<1> QED  BY <1>0, <1>1, <1>2, <1>3, <1>4, <1>5, <1>6, <1>7

\* A step of a thread that goes on enqueuing, and changes its own index only.
LEMMA WriterStep ==
  ASSUME QueueInv, ClaimsPublished, FreeInv, IndexInv, SingleWriter, NEW t \in Threads, Others(t),
         Enqueuing(t), Enqueuing(t)', NEW p, p = me[t].producer, me'[t].producer = p,
         NEW q, NEW r, q = producers[p], r = producers'[p],
         \A z \in Names : z # p => producers'[z] = producers[z],
         KeysOK(r), KeysSame(q, r), EntriesSame(q, r),
         r.headIndex = q.headIndex, r.tailIndex = q.tailIndex,
         WriterOK(r, me'[t], elementsCompletelyDequeued'),
         DOMAIN elementsCompletelyDequeued' = PoolBlocks,
         \A b \in PoolBlocks : elementsCompletelyDequeued'[b] \in Int,
         \A z \in Names : \A s \in Slots : producers[z].value[s] \in PoolBlocks =>
           elementsCompletelyDequeued'[producers[z].value[s]]
             = elementsCompletelyDequeued[producers[z].value[s]]
  PROVE  IndexInv'
<1>1. /\ me[t].pc \notin {"find", "key", "move", "detach", "freed", "empty"}
      /\ me'[t].pc \notin {"find", "key", "move", "detach", "freed", "empty", "assert"}
      /\ ~CallsPool(me[t], "freed") /\ ~CallsPool(me'[t], "freed") /\ ~Consuming(t)'
      /\ AskOK(me'[t])
  BY DEF Enqueuing, CallsPool, PoolSteps, Consuming, Taking, Moving, Claiming, AskOK
<1>2. Debt(me[t]) = {} /\ Debt(me'[t]) = {}
  BY <1>1 DEF Debt, Emptied
<1>3. ThreadOK(t)'
  BY <1>1 DEF ThreadOK
<1>4. \A u \in Threads \ {t} : (Enqueuing(u)' <=> Enqueuing(u)) /\ me'[u] = me[u]
  BY DEF Others, Enqueuing
<1>5. ASSUME NEW z \in Names
      PROVE  /\ KeysOK(producers'[z]) /\ KeysSame(producers[z], producers'[z])
             /\ EntriesSame(producers[z], producers'[z])
             /\ producers'[z].headIndex = producers[z].headIndex
             /\ producers'[z].tailIndex = producers[z].tailIndex
             /\ \A i \in Int : Owes(me', z, t, i) <=> Owes(me, z, t, i)
             /\ Unwritten(z)' => TailOK(producers'[z], 0)
  <2>1. \A i \in Int : Owes(me', z, t, i) <=> Owes(me, z, t, i)
    BY <1>2 DEF Owes
  <2>2. CASE z = p
    <3>1. ~Unwritten(z)'
      BY <2>2 DEF Unwritten
    <3> QED  BY <2>1, <2>2, <3>1
  <2>3. CASE z # p
    <3>1. producers'[z] = producers[z]
      BY <2>3
    <3>2. Unwritten(z)' => Unwritten(z)
      BY <1>4, <2>3 DEF Unwritten
    <3>3. KeysOK(producers[z]) /\ (Unwritten(z) => TailOK(producers[z], 0))
      BY DEF IndexInv, IndexOK
    <3> QED  BY <2>1, <3>1, <3>2, <3>3 DEF KeysSame, EntriesSame
  <2> QED  BY <2>2, <2>3
<1>6. ASSUME NEW u \in Threads \ {t}, Enqueuing(u)
      PROVE  WriterSame(producers[me[u].producer], producers'[me[u].producer])
  <2>1. me[u].producer \in Names /\ me[u].producer # p
    BY <1>6, TheirProducers DEF SingleWriter
  <2> QED  BY <2>1 DEF WriterSame
<1> QED  BY <1>1, <1>3, <1>5, <1>6, IndexQuiet

\* A block in the index is not affected by a new entry in a free place.
LEMMA EntryFree ==
  ASSUME NEW q, NEW r, NEW s \in Slots, KeysOK(q),
         q.key[s] = INVALID_BLOCK_BASE \/ q.value[s] = None,
         \A x \in Slots \ {s} : r.key[x] = q.key[x] /\ r.value[x] = q.value[x],
         NEW k \in Int, NEW b \in PoolBlocks, EntryIs(q, k, b)
  PROVE  EntryIs(r, k, b) /\ Wrap(k) # s
<1>1. Wrap(k) \in Slots
  BY WrapIs
<1>2. Wrap(k) # s
  <2> SUFFICES ASSUME Wrap(k) = s PROVE FALSE
    OBVIOUS
  <2>1. q.key[s] = BaseOf(k) /\ q.value[s] = b
    BY DEF EntryIs
  <2>2. BaseOf(k) # INVALID_BLOCK_BASE /\ b # None
    BY BaseIs, NotBlock
  <2> QED  BY <2>1, <2>2
<1> QED  BY <1>1, <1>2 DEF EntryIs

\* insert_block_index_entry: the next entry after the tail gets the key of the next block.
LEMMA InsertOK ==
  ASSUME QueueInv, ClaimsPublished, FreeInv, IndexInv, SingleWriter, NEW t \in Threads,
         insert_block_index_entry(t)
  PROVE  IndexInv'
<1>0. PICK p, q, j, s, e :
        /\ p = me[t].producer /\ q = producers[me[t].producer]
        /\ j = Span(producers[me[t].producer].tailIndex) + Len(me[t].blocks)
        /\ s = Wrap(producers[me[t].producer].tail + 1) /\ e = elementsCompletelyDequeued
  OBVIOUS
<1>1. /\ me[t].pc = "first" /\ Enqueuing(t) /\ UNCHANGED elementsCompletelyDequeued
      /\ LacksBlock(t)
  BY DEF insert_block_index_entry, At, Enqueuing
<1>2. /\ Shaped /\ DOMAIN me[t] = Locals /\ p \in Names /\ WriterOK(q, me[t], e) /\ KeysOK(q)
      /\ q.tailIndex \in Nat /\ Span(q.tailIndex) \in Nat /\ Len(me[t].items) \in Nat
      /\ me[t].blocks \in Seq(PoolBlocks) /\ Len(me[t].blocks) \in Nat /\ me[t].freed = << >>
      /\ NextBase(t) = BaseOf(j)
  BY <1>0, <1>1, WriterIs
<1>3. j \in Nat /\ BaseOf(j) < q.tailIndex + Len(me[t].items)
  BY <1>0, <1>1, <1>2 DEF LacksBlock, MyQueue
<1>4. ~Gets(me[t]) /\ Extra(me[t]) = Len(me[t].blocks)
  BY <1>1, <1>2 DEF Gets, Extra, CallsPool, PoolSteps
<1>5. q.tail = Wrap(j - 1) /\ \A k \in 0 .. j - 1 : KeyOf(q, Wrap(k))
  BY <1>0, <1>2, <1>4 DEF WriterOK, TailOK
<1>6. s = Wrap(j) /\ s \in Slots
  <2>1. j - 1 \in Int /\ 1 \in Int
    BY <1>3
  <2>2. Wrap(Wrap(j - 1) + 1) = Wrap(j - 1 + 1)
    BY <2>1, WrapIs
  <2>3. j - 1 + 1 = j
    BY <1>3
  <2>4. s = Wrap(j)
    BY <1>0, <1>5, <2>2, <2>3
  <2> QED  BY <1>3, <2>4, WrapIs
<1>7. DOMAIN producers = Names /\ DOMAIN e = PoolBlocks /\ \A b \in PoolBlocks : e[b] \in Int
  BY <1>0 DEF QueueInv, CounterInv, IndexInv
<1>8. \A i \in DOMAIN me[t].blocks :
        /\ me[t].blocks[i] \in PoolBlocks /\ e[me[t].blocks[i]] = 0
        /\ Span(q.tailIndex) + Len(me[t].freed) + i - 1 \in Int
        /\ EntryIs(q, Span(q.tailIndex) + Len(me[t].freed) + i - 1, me[t].blocks[i])
  <2>1. Len(me[t].freed) \in Nat
    BY <1>2
  <2>2. ASSUME NEW i \in DOMAIN me[t].blocks
        PROVE  /\ me[t].blocks[i] \in PoolBlocks
               /\ Span(q.tailIndex) + Len(me[t].freed) + i - 1 \in Int
    BY <1>2, <2>1
  <2> QED  BY <1>2, <2>2 DEF WriterOK
<1>9. CASE q.key[s] = INVALID_BLOCK_BASE \/ q.value[s] = None
  <2>1. /\ producers' = [producers EXCEPT ![p].key[s] = BaseOf(j), ![p].tail = s]
        /\ Go(t, "requisition", [me[t] EXCEPT !.back = "attach"])
    BY <1>0, <1>2, <1>9 DEF insert_block_index_entry, MyQueue
  <2> DEFINE m == [me[t] EXCEPT !.back = "attach"]
  <2>2. /\ Go(t, "requisition", m) /\ DOMAIN m = Locals /\ m.back = "attach" /\ m.producer = p
        /\ m.items = me[t].items /\ m.blocks = me[t].blocks /\ m.freed = me[t].freed
    BY <1>0, <1>2, <2>1, IndexLocal DEF Locals, Idle
  <2> HIDE DEF m
  <2>3. /\ Others(t) /\ me'[t].pc = "requisition" /\ me'[t].back = "attach" /\ me'[t].producer = p
        /\ me'[t].items = me[t].items /\ me'[t].blocks = me[t].blocks /\ me'[t].freed = me[t].freed
    BY <1>2, <2>2, GoIndex
  <2>4. Enqueuing(t)' /\ Gets(me'[t]) /\ Extra(me'[t]) = Len(me[t].blocks) + 1
    BY <2>3 DEF Enqueuing, Gets, CallsPool, PoolSteps, Extra
  <2>5. PICK r : r = producers'[p]
    OBVIOUS
  <2>6. \A z \in Names : z # p => producers'[z] = producers[z]
    BY <1>2, <1>7, <2>1
  <2>7. r = [q EXCEPT !.key[s] = BaseOf(j), !.tail = s]
    BY <1>0, <1>2, <1>7, <2>1, <2>5
  <2>8. /\ DOMAIN r = DOMAIN q /\ DOMAIN r.key = DOMAIN q.key /\ r.tail = s
        /\ r.key[s] = BaseOf(j) /\ (\A x \in Slots \ {s} : r.key[x] = q.key[x])
        /\ r.value = q.value /\ r.headIndex = q.headIndex /\ r.tailIndex = q.tailIndex
    <3>1. {"tail", "key", "value", "tailIndex", "headIndex"} \subseteq DOMAIN q
      BY <1>2 DEF KeysOK, ImplicitProducer
    <3> QED  BY <1>2, <1>6, <2>7, <3>1 DEF KeysOK
  <2>9. KeyOf(r, s)
    <3>1. BaseOf(j) \in Nat /\ Blk(BaseOf(j)) = j
      BY <1>3, BaseIs
    <3> QED  BY <1>6, <2>8, <3>1 DEF KeyOf
  <2>10. \A x \in Slots : KeyOf(q, x) => KeyOf(r, x)
    BY <2>8, <2>9 DEF KeyOf
  <2>11. KeysOK(r) /\ KeysSame(q, r)
    <3>1. \A x \in Slots : r.key[x] = INVALID_BLOCK_BASE \/ KeyOf(r, x)
      BY <1>2, <2>8, <2>9, <2>10 DEF KeysOK
    <3> QED  BY <1>2, <1>6, <2>8, <2>10, <3>1 DEF KeysOK, KeysSame
  <2>12. ASSUME NEW k \in Int, NEW b \in PoolBlocks, EntryIs(q, k, b) PROVE EntryIs(r, k, b)
    <3>1. \A x \in Slots \ {s} : r.key[x] = q.key[x] /\ r.value[x] = q.value[x]
      BY <2>8
    <3> QED  BY <1>2, <1>6, <1>9, <2>12, <3>1, EntryFree
  <2>13. EntriesSame(q, r)
    <3>1. \A k \in 0 .. Span(q.tailIndex) - 1 : k \in Int
      BY <1>2
    <3> QED  BY <2>12, <3>1 DEF EntriesSame
  <2>14. WriterOK(r, me'[t], elementsCompletelyDequeued')
    <3>1. TailOK(r, Len(me[t].blocks) + 1)
      <4>1. Span(r.tailIndex) + (Len(me[t].blocks) + 1) - 1 = j
        BY <1>0, <1>2, <2>8
      <4>2. ASSUME NEW k \in 0 .. j PROVE KeyOf(r, Wrap(k))
        <5>1. CASE k = j
          BY <1>6, <2>9, <5>1
        <5>2. CASE k # j
          <6>1. k \in 0 .. j - 1 /\ k \in Int
            BY <1>3, <5>2
          <6>2. Wrap(k) \in Slots
            BY <6>1, WrapIs
          <6> QED  BY <1>5, <2>10, <6>1, <6>2
        <5> QED  BY <5>1, <5>2
      <4> QED  BY <1>6, <2>8, <4>1, <4>2 DEF TailOK
    <3>2. EntryIs(r, j, None)
      <4>1. q.value[s] = None
        <5>1. q.key[s] = INVALID_BLOCK_BASE => ~KeyOf(q, s)
          <6> SUFFICES ASSUME q.key[s] = INVALID_BLOCK_BASE, KeyOf(q, s) PROVE FALSE
            OBVIOUS
          <6>1. q.key[s] \in Nat /\ q.key[s] = BaseOf(Blk(q.key[s]))
            BY DEF KeyOf
          <6>2. Blk(q.key[s]) \in Int
            BY <6>1, BlkIs
          <6> QED  BY <6>1, <6>2, BaseIs
        <5> QED  BY <1>2, <1>6, <1>9, <5>1 DEF KeysOK
      <4> QED  BY <1>6, <2>8, <4>1 DEF EntryIs
    <3>3. \A i \in DOMAIN me[t].blocks :
            /\ EntryIs(r, Span(r.tailIndex) + Len(me[t].freed) + i - 1, me[t].blocks[i])
            /\ e[me[t].blocks[i]] = 0
      BY <1>8, <2>8, <2>12
    <3>4. ~CallsPool(me'[t], "unindex") /\ j - 1 \in Int
      BY <1>3, <2>3 DEF CallsPool
    <3>5. me[t].blocks # << >> => BaseOf(j - 1) < q.tailIndex + Len(me[t].items)
      BY <1>0, <1>1, <1>2 DEF WriterOK
    <3> QED  BY <1>0, <1>1, <1>2, <1>3, <2>3, <2>4, <2>8, <3>1, <3>2, <3>3, <3>4, <3>5 DEF WriterOK
  <2>15. /\ p = me[t].producer /\ me'[t].producer = p /\ q = producers[p] /\ r = producers'[p]
         /\ Enqueuing(t) /\ Enqueuing(t)' /\ Others(t)
         /\ r.headIndex = q.headIndex /\ r.tailIndex = q.tailIndex
    BY <1>0, <1>1, <2>3, <2>4, <2>5, <2>8
  <2>16. /\ DOMAIN elementsCompletelyDequeued' = PoolBlocks
         /\ \A b \in PoolBlocks : elementsCompletelyDequeued'[b] \in Int
         /\ \A z \in Names : \A x \in Slots : producers[z].value[x] \in PoolBlocks =>
              elementsCompletelyDequeued'[producers[z].value[x]]
                = elementsCompletelyDequeued[producers[z].value[x]]
    BY <1>0, <1>1, <1>7
  <2> QED  BY <2>6, <2>11, <2>13, <2>14, <2>15, <2>16, WriterStep
<1>10. CASE ~(q.key[s] = INVALID_BLOCK_BASE \/ q.value[s] = None)
  <2>1. Go(t, "unindex", me[t]) /\ UNCHANGED producers
    BY <1>0, <1>10 DEF insert_block_index_entry, MyQueue
  <2>3. /\ Others(t) /\ me'[t].pc = "unindex" /\ me'[t].producer = p
        /\ me'[t].items = me[t].items /\ me'[t].blocks = me[t].blocks /\ me'[t].freed = me[t].freed
    BY <1>0, <1>2, <2>1, GoIndex
  <2>4. /\ Enqueuing(t)' /\ ~Gets(me'[t]) /\ Extra(me'[t]) = Len(me[t].blocks)
        /\ ~CallsPool(me'[t], "unindex")
    BY <1>2, <2>3 DEF Enqueuing, Gets, CallsPool, PoolSteps, Extra
  <2>5. WriterOK(q, me'[t], elementsCompletelyDequeued')
    BY <1>0, <1>1, <1>2, <1>4, <2>3, <2>4 DEF WriterOK
  <2>6. KeysSame(q, q) /\ EntriesSame(q, q)
    BY DEF KeysSame, EntriesSame
  <2>7. q = producers'[p] /\ \A z \in Names : z # p => producers'[z] = producers[z]
    BY <1>0, <2>1
  <2> QED  BY <1>0, <1>1, <1>2, <1>7, <2>3, <2>4, <2>5, <2>6, <2>7, WriterStep
<1> QED  BY <1>9, <1>10

\* An index whose tail went back, with entry s emptied.
LEMMA RewoundIs ==
  ASSUME NEW q, NEW s \in Slots, NEW r, r = Rewound(q, s), KeysOK(q), NEW j \in Int, q.tail = Wrap(j)
  PROVE  /\ KeysOK(r) /\ KeysSame(q, r)
         /\ r.tail = Wrap(j - 1) /\ r.key = q.key /\ r.tailIndex = q.tailIndex
         /\ r.headIndex = q.headIndex /\ r.value[s] = None
         /\ \A x \in Slots \ {s} : r.value[x] = q.value[x]
<1>1. {"tail", "key", "value", "tailIndex", "headIndex"} \subseteq DOMAIN q
  BY DEF KeysOK, ImplicitProducer
<1>2. /\ DOMAIN r = DOMAIN q /\ DOMAIN r.value = DOMAIN q.value
      /\ r.tail = Wrap(q.tail + IMPLICIT_INITIAL_INDEX_SIZE - 1) /\ r.key = q.key
      /\ r.tailIndex = q.tailIndex /\ r.headIndex = q.headIndex
      /\ r.value[s] = None /\ \A x \in Slots \ {s} : r.value[x] = q.value[x]
  BY <1>1 DEF KeysOK, Rewound
<1>3. r.tail = Wrap(j - 1)
  <2>1. PICK n \in Nat : n = IMPLICIT_INITIAL_INDEX_SIZE
    BY Sizes
  <2>2. Wrap(j) \in Int /\ \A b \in Int : Wrap(Wrap(j) + b) = Wrap(j + b)
    BY WrapIs
  <2>3. Wrap(j) + n - 1 = Wrap(j) + (n - 1) /\ n - 1 \in Int
    BY <2>2
  <2>4. Wrap(Wrap(j) + (n - 1)) = Wrap(j + (n - 1))
    BY <2>2, <2>3
  <2>5. j + (n - 1) = (j - 1) + n /\ j - 1 \in Int
    OBVIOUS
  <2>6. Wrap((j - 1) + n) = Wrap(j - 1)
    BY <2>1, <2>5, WrapIs
  <2> QED  BY <1>2, <2>1, <2>3, <2>4, <2>5, <2>6
<1>4. r.tail \in Slots
  <2>1. j - 1 \in Int
    OBVIOUS
  <2> QED  BY <1>3, <2>1, WrapIs
<1>5. KeysOK(r)
  BY <1>2, <1>4 DEF KeysOK, KeyOf
<1> QED  BY <1>2, <1>3, <1>5 DEF KeysSame, KeyOf

\* The entry that was made gets its block, or is taken back when there is none.
LEMMA AttachOK ==
  ASSUME QueueInv, ClaimsPublished, FreeInv, IndexInv, SingleWriter, NEW t \in Threads, Attach(t)
  PROVE  IndexInv'
<1>0. PICK p, q, l, j, s, e, b :
        /\ p = me[t].producer /\ q = producers[me[t].producer] /\ l = Len(me[t].blocks)
        /\ j = Span(producers[me[t].producer].tailIndex) + Len(me[t].blocks)
        /\ s = producers[me[t].producer].tail /\ e = elementsCompletelyDequeued /\ b = me[t].block
  OBVIOUS
<1>1. me[t].pc = "attach" /\ Enqueuing(t)
  BY DEF Attach, At, Enqueuing
<1>2. /\ Shaped /\ DOMAIN me[t] = Locals /\ PoolOK(me[t]) /\ p \in Names
      /\ WriterOK(q, me[t], e) /\ KeysOK(q)
      /\ q.tailIndex \in Nat /\ Span(q.tailIndex) \in Nat /\ Len(me[t].items) \in Nat
      /\ me[t].blocks \in Seq(PoolBlocks) /\ l \in Nat /\ me[t].freed = << >>
  BY <1>0, <1>1, WriterIs
<1>3. /\ Gets(me[t]) /\ Extra(me[t]) = l + 1 /\ ~CallsPool(me[t], "unindex") /\ j \in Nat
      /\ j = Span(q.tailIndex) + l
  BY <1>0, <1>1, <1>2 DEF Gets, Extra, CallsPool, PoolSteps
<1>4. s = Wrap(j) /\ (\A k \in 0 .. j : KeyOf(q, Wrap(k))) /\ s \in Slots
  <2>1. Span(q.tailIndex) + (l + 1) - 1 = j
    BY <1>2, <1>3
  <2>2. TailOK(q, l + 1)
    BY <1>2, <1>3 DEF WriterOK
  <2>3. s = Wrap(j) /\ (\A k \in 0 .. j : KeyOf(q, Wrap(k)))
    BY <1>0, <2>1, <2>2 DEF TailOK
  <2> QED  BY <1>3, <2>3, WrapIs
<1>5. EntryIs(q, j, None) /\ BaseOf(j) < q.tailIndex + Len(me[t].items)
  BY <1>0, <1>2, <1>3 DEF WriterOK
<1>6. q.value[s] = None /\ q.key[s] = BaseOf(j)
  BY <1>4, <1>5 DEF EntryIs
<1>7. DOMAIN producers = Names /\ DOMAIN e = PoolBlocks /\ \A x \in PoolBlocks : e[x] \in Int
  BY <1>0 DEF QueueInv, CounterInv, IndexInv
<1>8. \A i \in DOMAIN me[t].blocks :
        /\ me[t].blocks[i] \in PoolBlocks /\ e[me[t].blocks[i]] = 0
        /\ Span(q.tailIndex) + i - 1 \in Int
        /\ EntryIs(q, Span(q.tailIndex) + i - 1, me[t].blocks[i])
  <2>1. Len(me[t].freed) = 0
    BY <1>2
  <2>2. ASSUME NEW i \in DOMAIN me[t].blocks
        PROVE  /\ me[t].blocks[i] \in PoolBlocks
               /\ Span(q.tailIndex) + i - 1 \in Int
               /\ Span(q.tailIndex) + Len(me[t].freed) + i - 1 = Span(q.tailIndex) + i - 1
    BY <1>2, <2>1
  <2> QED  BY <1>2, <2>2 DEF WriterOK
<1>9. PICK r : r = producers'[p]
  OBVIOUS
<1>10. ASSUME \A x \in Slots \ {s} : r.key[x] = q.key[x] /\ r.value[x] = q.value[x]
       PROVE  /\ \A k \in Int : \A x \in PoolBlocks : EntryIs(q, k, x) => EntryIs(r, k, x)
              /\ EntriesSame(q, r)
  <2>1. \A k \in Int : \A x \in PoolBlocks : EntryIs(q, k, x) => EntryIs(r, k, x)
    BY <1>2, <1>4, <1>6, <1>10, EntryFree
  <2>2. \A k \in 0 .. Span(q.tailIndex) - 1 : k \in Int
    BY <1>2
  <2> QED  BY <2>1, <2>2 DEF EntriesSame
<1>11. CASE b = None
  <2>1. /\ producers' = [producers EXCEPT ![p] = Rewound(q, s)] /\ Go(t, "unindex", me[t])
        /\ UNCHANGED elementsCompletelyDequeued
    BY <1>0, <1>2, <1>7, <1>11 DEF Attach
  <2>2. /\ Others(t) /\ me'[t].pc = "unindex" /\ me'[t].producer = p
        /\ me'[t].items = me[t].items /\ me'[t].blocks = me[t].blocks /\ me'[t].freed = me[t].freed
    BY <1>0, <1>2, <2>1, GoIndex
  <2>3. /\ Enqueuing(t)' /\ ~Gets(me'[t]) /\ Extra(me'[t]) = l /\ ~CallsPool(me'[t], "unindex")
    BY <1>0, <1>2, <2>2 DEF Enqueuing, Gets, CallsPool, PoolSteps, Extra
  <2>4. r = Rewound(q, s) /\ \A z \in Names : z # p => producers'[z] = producers[z]
    BY <1>2, <1>7, <1>9, <2>1
  <2>5. /\ KeysOK(r) /\ KeysSame(q, r)
        /\ r.tail = Wrap(j - 1) /\ r.key = q.key /\ r.tailIndex = q.tailIndex
        /\ r.headIndex = q.headIndex /\ r.value[s] = None
        /\ \A x \in Slots \ {s} : r.value[x] = q.value[x]
    <3>1. j \in Int /\ q.tail = Wrap(j)
      BY <1>0, <1>3, <1>4
    <3> QED  BY <1>2, <1>4, <2>4, <3>1, RewoundIs
  <2>6. EntriesSame(q, r) /\ \A k \in Int : \A x \in PoolBlocks : EntryIs(q, k, x) => EntryIs(r, k, x)
    BY <1>10, <2>5
  <2>7. WriterOK(r, me'[t], elementsCompletelyDequeued')
    <3>1. TailOK(r, l)
      <4>1. Span(r.tailIndex) + l - 1 = j - 1
        BY <1>2, <1>3, <2>5
      <4>2. \A k \in 0 .. j - 1 : KeyOf(r, Wrap(k))
        <5>1. \A k \in 0 .. j - 1 : k \in 0 .. j
          BY <1>3
        <5> QED  BY <1>4, <2>5, <5>1 DEF KeyOf
      <4> QED  BY <2>5, <4>1, <4>2 DEF TailOK
    <3>2. \A i \in DOMAIN me[t].blocks :
            /\ EntryIs(r, Span(r.tailIndex) + Len(me[t].freed) + i - 1, me[t].blocks[i])
            /\ e[me[t].blocks[i]] = 0
      <4>1. Len(me[t].freed) = 0
        BY <1>2
      <4> SUFFICES ASSUME NEW i \in DOMAIN me[t].blocks
                   PROVE  EntryIs(r, Span(r.tailIndex) + Len(me[t].freed) + i - 1, me[t].blocks[i])
        BY <1>8
      <4>2. Span(r.tailIndex) + Len(me[t].freed) + i - 1 = Span(q.tailIndex) + i - 1
        BY <1>2, <2>5, <4>1
      <4>3. EntryIs(r, Span(q.tailIndex) + i - 1, me[t].blocks[i])
        BY <1>8, <2>6
      <4> QED  BY <4>2, <4>3
    <3> QED  BY <1>0, <1>2, <2>1, <2>2, <2>3, <3>1, <3>2 DEF WriterOK
  <2> QED  BY <1>0, <1>1, <1>2, <1>7, <1>9, <2>1, <2>2, <2>3, <2>4, <2>5, <2>6, <2>7, WriterStep
<1>12. CASE b # None
  <2>0. b \in PoolBlocks
    BY <1>0, <1>1, <1>2, <1>12 DEF PoolOK
  <2>1. /\ producers' = [producers EXCEPT ![p].value[s] = b]
        /\ Go(t, "first", [me[t] EXCEPT !.blocks = Append(me[t].blocks, b)])
        /\ elementsCompletelyDequeued' = [e EXCEPT ![b] = 0]
    BY <1>0, <1>12 DEF Attach
  <2> DEFINE m == [me[t] EXCEPT !.blocks = Append(me[t].blocks, b)]
  <2>2. /\ Go(t, "first", m) /\ DOMAIN m = Locals /\ m.producer = p /\ m.items = me[t].items
        /\ m.blocks = Append(me[t].blocks, b) /\ m.freed = me[t].freed
    BY <1>0, <1>2, <2>1, IndexLocal DEF Locals, Idle
  <2> HIDE DEF m
  <2>3. /\ Others(t) /\ me'[t].pc = "first" /\ me'[t].producer = p /\ me'[t].items = me[t].items
        /\ me'[t].blocks = Append(me[t].blocks, b) /\ me'[t].freed = << >>
    BY <1>2, <2>2, GoIndex
  <2>4. /\ me'[t].blocks \in Seq(PoolBlocks) /\ Len(me'[t].blocks) = l + 1
        /\ DOMAIN me'[t].blocks = 1 .. l + 1 /\ me'[t].blocks[l + 1] = b
        /\ \A i \in 1 .. l : i \in DOMAIN me[t].blocks /\ me'[t].blocks[i] = me[t].blocks[i]
    BY <1>0, <1>2, <2>0, <2>3
  <2>5. /\ Enqueuing(t)' /\ ~Gets(me'[t]) /\ Extra(me'[t]) = l + 1 /\ ~CallsPool(me'[t], "unindex")
    BY <1>2, <2>3, <2>4 DEF Enqueuing, Gets, CallsPool, PoolSteps, Extra
  <2>6. \A z \in Names : z # p => producers'[z] = producers[z]
    BY <1>2, <1>7, <2>1
  <2>7. /\ DOMAIN r = DOMAIN q /\ DOMAIN r.value = DOMAIN q.value /\ r.tail = q.tail /\ r.key = q.key
        /\ r.value[s] = b /\ (\A x \in Slots \ {s} : r.value[x] = q.value[x])
        /\ r.headIndex = q.headIndex /\ r.tailIndex = q.tailIndex
    <3>1. {"tail", "key", "value", "tailIndex", "headIndex"} \subseteq DOMAIN q
      BY <1>2 DEF KeysOK, ImplicitProducer
    <3>2. r = [q EXCEPT !.value[s] = b]
      BY <1>0, <1>2, <1>7, <1>9, <2>1
    <3> QED  BY <1>2, <1>4, <3>1, <3>2 DEF KeysOK
  <2>8. KeysOK(r) /\ KeysSame(q, r)
    <3>1. KeyOf(q, s)
      <4>1. j \in 0 .. j
        BY <1>3
      <4> QED  BY <1>4, <4>1
    <3>2. \A x \in Slots : KeyOf(q, x) => KeyOf(r, x)
      BY <2>7 DEF KeyOf
    <3>3. \A x \in Slots : /\ r.key[x] = INVALID_BLOCK_BASE \/ KeyOf(r, x)
                           /\ r.value[x] \in PoolBlocks \cup {None}
                           /\ r.value[x] # None => KeyOf(r, x)
      BY <1>2, <2>0, <2>7, <3>1, <3>2 DEF KeysOK
    <3> QED  BY <1>2, <2>7, <3>2, <3>3 DEF KeysOK, KeysSame
  <2>9. EntriesSame(q, r) /\ \A k \in Int : \A x \in PoolBlocks : EntryIs(q, k, x) => EntryIs(r, k, x)
    BY <1>10, <2>7
  <2>10. \A z \in Names : \A x \in Slots : producers[z].value[x] # b
    <3>1. OnePlace(b)
      BY <2>0 DEF FreeInv, ListIs
    <3>2. InHand(t, b)
      BY <1>0, <1>1 DEF InHand, Hand, Adding, Flagging
    <3> QED  BY <3>1, <3>2 DEF OnePlace, OnlyHand, InEntry
  <2>11. /\ DOMAIN elementsCompletelyDequeued' = PoolBlocks
         /\ elementsCompletelyDequeued'[b] = 0
         /\ \A x \in PoolBlocks : elementsCompletelyDequeued'[x] \in Int
         /\ \A x \in PoolBlocks : x # b => elementsCompletelyDequeued'[x] = e[x]
    BY <1>7, <2>0, <2>1
  <2>12. WriterOK(r, me'[t], elementsCompletelyDequeued')
    <3>1. TailOK(r, l + 1)
      <4>1. Span(r.tailIndex) + (l + 1) - 1 = j
        BY <1>2, <1>3, <2>7
      <4> QED  BY <1>0, <1>4, <2>7, <4>1 DEF TailOK, KeyOf
    <3>2. ASSUME NEW i \in DOMAIN me'[t].blocks
          PROVE  /\ EntryIs(r, Span(r.tailIndex) + Len(me'[t].freed) + i - 1, me'[t].blocks[i])
                 /\ elementsCompletelyDequeued'[me'[t].blocks[i]] = 0
      <4>0. i \in 1 .. l + 1 /\ Len(me'[t].freed) = 0
        BY <2>3, <2>4
      <4>1. Span(r.tailIndex) + Len(me'[t].freed) + i - 1 = Span(q.tailIndex) + i - 1
        BY <1>2, <2>7, <4>0
      <4>2. CASE i = l + 1
        <5>1. Span(q.tailIndex) + i - 1 = j
          BY <1>2, <1>3, <4>2
        <5>2. EntryIs(r, j, b)
          BY <1>4, <1>6, <2>7 DEF EntryIs
        <5> QED  BY <2>4, <2>11, <4>1, <4>2, <5>1, <5>2
      <4>3. CASE i # l + 1
        <5>1. i \in 1 .. l
          BY <1>2, <4>0, <4>3
        <5>2. i \in DOMAIN me[t].blocks /\ me'[t].blocks[i] = me[t].blocks[i]
          BY <2>4, <5>1
        <5>3. EntryIs(q, Span(q.tailIndex) + i - 1, me[t].blocks[i]) /\ e[me[t].blocks[i]] = 0
              /\ Span(q.tailIndex) + i - 1 \in Int /\ me[t].blocks[i] \in PoolBlocks
          BY <1>8, <5>2
        <5>4. me[t].blocks[i] # b
          <6>1. Wrap(Span(q.tailIndex) + i - 1) \in Slots
            BY <5>3, WrapIs
          <6> QED  BY <1>0, <1>2, <2>10, <5>3, <6>1 DEF EntryIs
        <5> QED  BY <2>9, <2>11, <4>1, <5>2, <5>3, <5>4
      <4> QED  BY <4>2, <4>3
    <3>3. BaseOf(Span(r.tailIndex) + Len(me'[t].blocks) - 1) < r.tailIndex + Len(me'[t].items)
      <4>1. Span(r.tailIndex) + Len(me'[t].blocks) - 1 = j
        BY <1>2, <1>3, <2>4, <2>7
      <4> QED  BY <1>5, <2>3, <2>7, <4>1
    <3> QED  BY <2>4, <2>5, <3>1, <3>2, <3>3 DEF WriterOK
  <2>13. \A z \in Names : \A x \in Slots : producers[z].value[x] \in PoolBlocks =>
           elementsCompletelyDequeued'[producers[z].value[x]]
             = elementsCompletelyDequeued[producers[z].value[x]]
    BY <1>0, <2>10, <2>11
  <2>14. /\ p = me[t].producer /\ me'[t].producer = p /\ q = producers[p] /\ r = producers'[p]
         /\ Enqueuing(t) /\ Enqueuing(t)' /\ Others(t)
         /\ r.headIndex = q.headIndex /\ r.tailIndex = q.tailIndex
    BY <1>0, <1>1, <1>9, <2>3, <2>5, <2>7
  <2>15. EntriesSame(q, r) /\ KeysOK(r) /\ KeysSame(q, r)
    BY <2>8, <2>9
  <2>16. /\ DOMAIN elementsCompletelyDequeued' = PoolBlocks
         /\ \A x \in PoolBlocks : elementsCompletelyDequeued'[x] \in Int
    BY <2>11
  <2> QED  BY <2>6, <2>12, <2>13, <2>14, <2>15, <2>16, WriterStep
<1> QED  BY <1>11, <1>12

\* A failed bulk takes its first block off the index: the entry that it finds is that block's.
LEMMA UnindexIs ==
  ASSUME QueueInv, ClaimsPublished, FreeInv, IndexInv, NEW t \in Threads, Unindex(t)
  PROVE  LET p == me[t].producer
             q == producers[p]
             j == Span(q.tailIndex) + Len(me[t].freed)
         IN  /\ producers' = [producers EXCEPT ![p] = Rewound(q, Wrap(j))]
             /\ Wrap(j) \in Slots /\ EntryIs(q, j, Head(me[t].blocks))
             /\ Head(me[t].blocks) \in PoolBlocks
<1>0. PICK p, q, l, f, j, e, h :
        /\ p = me[t].producer /\ q = producers[me[t].producer] /\ l = Len(me[t].blocks)
        /\ f = Len(me[t].freed) /\ j = Span(producers[me[t].producer].tailIndex) + Len(me[t].freed)
        /\ e = elementsCompletelyDequeued /\ h = Head(me[t].blocks)
  OBVIOUS
<1>1. /\ me[t].pc = "unindex" /\ me[t].blocks # << >> /\ Enqueuing(t)
      /\ UNCHANGED elementsCompletelyDequeued
  BY DEF Unindex, At, Enqueuing
<1>2. /\ Shaped /\ DOMAIN me[t] = Locals /\ p \in Names
      /\ WriterOK(q, me[t], e) /\ KeysOK(q)
      /\ q.tailIndex \in Nat /\ Span(q.tailIndex) \in Nat /\ Len(me[t].items) \in Nat
      /\ me[t].blocks \in Seq(PoolBlocks) /\ l \in Nat /\ me[t].freed \in Seq(PoolBlocks) /\ f \in Nat
  BY <1>0, <1>1, WriterIs
<1>3. /\ Extra(me[t]) = l /\ j \in Nat /\ j = Span(q.tailIndex) + f /\ l \in Nat \ {0}
      /\ DOMAIN me[t].blocks = 1 .. l /\ h = me[t].blocks[1] /\ h \in PoolBlocks
  <2>1. Extra(me[t]) = l
    BY <1>0, <1>1, <1>2 DEF Gets, Extra, CallsPool, PoolSteps
  <2>2. l \in Nat \ {0} /\ DOMAIN me[t].blocks = 1 .. l /\ h = me[t].blocks[1] /\ h \in PoolBlocks
    BY <1>0, <1>1, <1>2
  <2> QED  BY <1>0, <1>2, <2>1, <2>2
<1>4. PICK z \in Nat : z = Span(q.tailIndex) + l - 1
  BY <1>2, <1>3
<1>5. q.tail = Wrap(z) /\ \A k \in 0 .. z : KeyOf(q, Wrap(k))
  <2>1. TailOK(q, l)
    BY <1>2, <1>3 DEF WriterOK
  <2> QED  BY <1>4, <2>1 DEF TailOK
<1>6. \A i \in DOMAIN me[t].blocks :
        /\ EntryIs(q, Span(q.tailIndex) + f + i - 1, me[t].blocks[i]) /\ e[me[t].blocks[i]] = 0
  BY <1>0, <1>2 DEF WriterOK
<1> DEFINE s == Wrap(j)
\* The slot of the first block.
<1>7. /\ SlotFor(q, q.tail, BaseOf(j)) = s
      /\ RoundUp(q.tailIndex) + BLOCK_SIZE * f = BaseOf(j)
  <2>1. KeyOf(q, q.tail)
    <3>1. z \in 0 .. z
      BY <1>4
    <3> QED  BY <1>5, <3>1
  <2>2. PICK y \in Int : y = Blk(q.key[q.tail])
    BY <2>1, BlkIs DEF KeyOf
  <2>3. q.key[q.tail] = BaseOf(y) /\ q.tail = Wrap(y)
    BY <2>1, <2>2 DEF KeyOf
  <2>4. BaseOf(j) \in Int /\ Blk(BaseOf(j)) = j
    BY <1>3, BaseIs
  <2>5. SlotFor(q, q.tail, BaseOf(j)) = Wrap(Blk(BaseOf(j)))
    BY <2>2, <2>3, <2>4, SlotForIs
  <2>6. RoundUp(q.tailIndex) + BLOCK_SIZE * f = BaseOf(j)
    <3>1. PICK k \in Nat : k = Span(q.tailIndex)
      BY <1>2
    <3>2. RoundUp(q.tailIndex) = BaseOf(k)
      BY <1>2, <3>1, SpanIs
    <3>3. (k + f) * BLOCK_SIZE = k * BLOCK_SIZE + BLOCK_SIZE * f
      BY <1>2, Sizes
    <3> QED  BY <1>3, <3>1, <3>2, <3>3 DEF BaseOf
  <2> QED  BY <2>4, <2>5, <2>6
<1>8. DOMAIN producers = Names /\ DOMAIN e = PoolBlocks /\ \A x \in PoolBlocks : e[x] \in Int
  BY <1>0 DEF QueueInv, CounterInv, IndexInv
<1>9. s \in Slots /\ EntryIs(q, j, h)
  <2>1. Span(q.tailIndex) + f + 1 - 1 = j /\ 1 \in DOMAIN me[t].blocks
    BY <1>2, <1>3
  <2>2. EntryIs(q, Span(q.tailIndex) + f + 1 - 1, me[t].blocks[1])
    BY <1>6, <2>1
  <2>3. s \in Slots
    BY <1>3, WrapIs
  <2> QED  BY <1>3, <2>1, <2>2, <2>3
<1> HIDE DEF s
<1>10. producers' = [producers EXCEPT ![p] = Rewound(q, s)]
  <2>1. producers' = [producers EXCEPT ![p] =
                        Rewound(@, SlotFor(@, @.tail, RoundUp(q.tailIndex) + BLOCK_SIZE * f))]
    BY <1>0 DEF Unindex, MyQueue
  <2> QED  BY <1>0, <1>2, <1>7, <1>8, <2>1
<1> QED  BY <1>0, <1>3, <1>9, <1>10 DEF s

\* A failed bulk takes its first block off the index again.
LEMMA UnindexOK ==
  ASSUME QueueInv, ClaimsPublished, FreeInv, IndexInv, SingleWriter, NEW t \in Threads, Unindex(t)
  PROVE  IndexInv'
<1>0. PICK p, q, l, f, j, e, h :
        /\ p = me[t].producer /\ q = producers[me[t].producer] /\ l = Len(me[t].blocks)
        /\ f = Len(me[t].freed) /\ j = Span(producers[me[t].producer].tailIndex) + Len(me[t].freed)
        /\ e = elementsCompletelyDequeued /\ h = Head(me[t].blocks)
  OBVIOUS
<1>1. /\ me[t].pc = "unindex" /\ me[t].blocks # << >> /\ Enqueuing(t)
      /\ UNCHANGED elementsCompletelyDequeued
  BY DEF Unindex, At, Enqueuing
<1>2. /\ Shaped /\ DOMAIN me[t] = Locals /\ p \in Names
      /\ WriterOK(q, me[t], e) /\ KeysOK(q)
      /\ q.tailIndex \in Nat /\ Span(q.tailIndex) \in Nat /\ Len(me[t].items) \in Nat
      /\ me[t].blocks \in Seq(PoolBlocks) /\ l \in Nat /\ me[t].freed \in Seq(PoolBlocks) /\ f \in Nat
  BY <1>0, <1>1, WriterIs
<1>3. /\ Extra(me[t]) = l /\ j \in Nat /\ j = Span(q.tailIndex) + f /\ l \in Nat \ {0}
      /\ DOMAIN me[t].blocks = 1 .. l /\ h = me[t].blocks[1] /\ h \in PoolBlocks
  <2>1. Extra(me[t]) = l
    BY <1>0, <1>1, <1>2 DEF Gets, Extra, CallsPool, PoolSteps
  <2>2. l \in Nat \ {0} /\ DOMAIN me[t].blocks = 1 .. l /\ h = me[t].blocks[1] /\ h \in PoolBlocks
    BY <1>0, <1>1, <1>2
  <2> QED  BY <1>0, <1>2, <2>1, <2>2
<1>4. PICK z \in Nat : z = Span(q.tailIndex) + l - 1
  BY <1>2, <1>3
<1>5. q.tail = Wrap(z) /\ \A k \in 0 .. z : KeyOf(q, Wrap(k))
  <2>1. TailOK(q, l)
    BY <1>2, <1>3 DEF WriterOK
  <2> QED  BY <1>4, <2>1 DEF TailOK
<1>6. \A i \in DOMAIN me[t].blocks :
        /\ EntryIs(q, Span(q.tailIndex) + f + i - 1, me[t].blocks[i]) /\ e[me[t].blocks[i]] = 0
  BY <1>0, <1>2 DEF WriterOK
<1> DEFINE s == Wrap(j)
<1>8. DOMAIN producers = Names /\ DOMAIN e = PoolBlocks /\ \A x \in PoolBlocks : e[x] \in Int
  BY <1>0 DEF QueueInv, CounterInv, IndexInv
<1>9. s \in Slots /\ EntryIs(q, j, h)
  BY <1>0, UnindexIs
<1>10. producers' = [producers EXCEPT ![p] = Rewound(q, s)]
  BY <1>0, UnindexIs
<1> HIDE DEF s
<1> DEFINE m == [me[t] EXCEPT !.blocks = Tail(me[t].blocks), !.freed = Append(me[t].freed, h)]
<1>11. /\ Go(t, "unindex", m) /\ DOMAIN m = Locals /\ m.producer = p /\ m.items = me[t].items
       /\ m.blocks = Tail(me[t].blocks) /\ m.freed = Append(me[t].freed, h)
  BY <1>0, <1>2, IndexLocal DEF Unindex, Locals, Idle
<1> HIDE DEF m
<1>12. /\ Others(t) /\ me'[t].pc = "unindex" /\ me'[t].producer = p /\ me'[t].items = me[t].items
       /\ me'[t].blocks = Tail(me[t].blocks) /\ me'[t].freed = Append(me[t].freed, h)
  BY <1>2, <1>11, GoIndex
<1>13. /\ me'[t].blocks \in Seq(PoolBlocks) /\ Len(me'[t].blocks) = l - 1 /\ Len(me'[t].freed) = f + 1
       /\ \A i \in DOMAIN me'[t].blocks : /\ i \in Nat \ {0} /\ i + 1 \in DOMAIN me[t].blocks
                                          /\ me'[t].blocks[i] = me[t].blocks[i + 1]
  BY <1>0, <1>1, <1>2, <1>3, <1>12
<1>14. /\ Enqueuing(t)' /\ ~Gets(me'[t]) /\ Extra(me'[t]) = l - 1 /\ ~CallsPool(me'[t], "unindex")
  <2>1. Enqueuing(t)' /\ ~Gets(me'[t]) /\ ~CallsPool(me'[t], "unindex")
    BY <1>12 DEF Enqueuing, Gets, CallsPool, PoolSteps
  <2> QED  BY <1>3, <1>13, <2>1 DEF Extra
<1>15. PICK r : r = producers'[p]
  OBVIOUS
<1>16. r = Rewound(q, s) /\ \A y \in Names : y # p => producers'[y] = producers[y]
  BY <1>2, <1>8, <1>10, <1>15
<1>17. /\ KeysOK(r) /\ KeysSame(q, r)
       /\ r.tail = Wrap(z - 1) /\ r.key = q.key /\ r.tailIndex = q.tailIndex
       /\ r.headIndex = q.headIndex /\ r.value[s] = None
       /\ \A x \in Slots \ {s} : r.value[x] = q.value[x]
  <2>1. z \in Int
    BY <1>4
  <2> QED  BY <1>2, <1>5, <1>9, <1>16, <2>1, RewoundIs
<1>18. ASSUME NEW k \in Int, NEW b, EntryIs(q, k, b), k # j
       PROVE  EntryIs(r, k, b)
  <2>1. Wrap(k) # s
    BY <1>3, <1>9, <1>18, OneEntry DEF s
  <2>2. Wrap(k) \in Slots
    BY WrapIs
  <2> QED  BY <1>17, <1>18, <2>1, <2>2 DEF EntryIs
<1>19. EntriesSame(q, r)
  <2>1. \A k \in 0 .. Span(q.tailIndex) - 1 : k \in Int /\ k # j
    BY <1>2, <1>3
  <2> QED  BY <1>18, <2>1 DEF EntriesSame
<1>20. WriterOK(r, me'[t], elementsCompletelyDequeued')
  <2>1. TailOK(r, l - 1)
    <3>1. Span(r.tailIndex) + (l - 1) - 1 = z - 1
      BY <1>2, <1>3, <1>4, <1>17
    <3>2. \A k \in 0 .. z - 1 : KeyOf(r, Wrap(k))
      <4>1. \A k \in 0 .. z - 1 : k \in 0 .. z
        BY <1>4
      <4> QED  BY <1>5, <1>17, <4>1 DEF KeyOf
    <3> QED  BY <1>17, <3>1, <3>2 DEF TailOK
  <2>2. ASSUME NEW i \in DOMAIN me'[t].blocks
        PROVE  /\ EntryIs(r, Span(r.tailIndex) + Len(me'[t].freed) + i - 1, me'[t].blocks[i])
               /\ e[me'[t].blocks[i]] = 0
    <3>1. i \in Nat \ {0} /\ i + 1 \in DOMAIN me[t].blocks /\ me'[t].blocks[i] = me[t].blocks[i + 1]
      BY <1>13
    <3>2. PICK k \in Int : k = Span(q.tailIndex) + f + (i + 1) - 1
      BY <1>2, <3>1
    <3>3. EntryIs(q, k, me[t].blocks[i + 1]) /\ e[me[t].blocks[i + 1]] = 0
      BY <1>6, <3>1, <3>2
    <3>4. k # j
      BY <1>2, <1>3, <3>1, <3>2
    <3>5. Span(r.tailIndex) + Len(me'[t].freed) + i - 1 = k
      BY <1>2, <1>13, <1>17, <3>1, <3>2
    <3> QED  BY <1>18, <3>1, <3>3, <3>4, <3>5
  <2> QED  BY <1>0, <1>1, <1>12, <1>13, <1>14, <2>1, <2>2 DEF WriterOK
<1>21. /\ DOMAIN elementsCompletelyDequeued' = PoolBlocks
       /\ \A b \in PoolBlocks : elementsCompletelyDequeued'[b] \in Int
       /\ \A y \in Names : \A x \in Slots : producers[y].value[x] \in PoolBlocks =>
            elementsCompletelyDequeued'[producers[y].value[x]]
              = elementsCompletelyDequeued[producers[y].value[x]]
  BY <1>0, <1>1, <1>8
<1>22. /\ p = me[t].producer /\ me'[t].producer = p /\ q = producers[p] /\ r = producers'[p]
       /\ \A y \in Names : y # p => producers'[y] = producers[y]
       /\ Enqueuing(t) /\ Enqueuing(t)' /\ Others(t)
  BY <1>0, <1>1, <1>12, <1>14, <1>15, <1>16
<1> QED  BY <1>17, <1>19, <1>20, <1>21, <1>22, WriterStep

\* One of its blocks is freed.
LEMMA AddBlocksOK ==
  ASSUME QueueInv, ClaimsPublished, FreeInv, IndexInv, SingleWriter, NEW t \in Threads,
         add_blocks_to_free_list(t)
  PROVE  IndexInv'
<1>0. PICK p, q, e, h, g : /\ p = me[t].producer /\ q = producers[me[t].producer]
                           /\ e = elementsCompletelyDequeued
                           /\ h = Head(me[t].freed) /\ g = Tail(me[t].freed)
  OBVIOUS
<1>1. /\ me[t].pc = "unindex" /\ me[t].blocks = << >> /\ Enqueuing(t)
      /\ UNCHANGED <<producers, elementsCompletelyDequeued>>
  BY DEF add_blocks_to_free_list, At, Enqueuing, queueVars
<1>2. /\ Shaped /\ DOMAIN me[t] = Locals /\ p \in Names
      /\ WriterOK(q, me[t], e) /\ KeysOK(q)
  BY <1>0, <1>1, WriterIs
<1> DEFINE m == [me[t] EXCEPT !.node = h, !.freed = g, !.back = "unindex"]
<1>3. /\ Go(t, "add", m) /\ DOMAIN m = Locals /\ m.producer = p /\ m.items = me[t].items
      /\ m.blocks = << >> /\ m.back = "unindex"
  BY <1>0, <1>1, <1>2, IndexLocal DEF add_blocks_to_free_list, Locals, Idle
<1> HIDE DEF m
<1>4. /\ Others(t) /\ me'[t].pc = "add" /\ me'[t].producer = p /\ me'[t].items = me[t].items
      /\ me'[t].blocks = << >> /\ me'[t].back = "unindex"
  BY <1>2, <1>3, GoIndex
<1>5. /\ Enqueuing(t)' /\ ~Gets(me'[t]) /\ ~Gets(me[t])
  BY <1>1, <1>4 DEF Enqueuing, Gets, CallsPool, PoolSteps
<1>6. Extra(me'[t]) = Extra(me[t])
  BY <1>1, <1>4, <1>5 DEF Extra
<1>7. WriterOK(q, me'[t], e)
  <2>1. << >> \in Seq(PoolBlocks) /\ DOMAIN << >> = {}
    OBVIOUS
  <2> QED  BY <1>2, <1>4, <1>5, <1>6, <2>1 DEF WriterOK
<1>8. DOMAIN e = PoolBlocks /\ \A x \in PoolBlocks : e[x] \in Int
  BY <1>0 DEF IndexInv
<1>9. KeysSame(q, q) /\ EntriesSame(q, q) /\ q = producers'[p]
      /\ \A y \in Names : y # p => producers'[y] = producers[y]
  BY <1>0, <1>1 DEF KeysSame, EntriesSame
<1> QED  BY <1>0, <1>1, <1>2, <1>4, <1>5, <1>7, <1>8, <1>9, WriterStep

\* The items are published: their blocks are in the index, and no item was taken.
LEMMA PublishOK ==
  ASSUME QueueInv, ClaimsPublished, FreeInv, IndexInv, SingleWriter, NEW t \in Threads, Publish(t)
  PROVE  IndexInv'
<1>0. PICK p, q, l, a, n, k, e :
        /\ p = me[t].producer /\ q = producers[me[t].producer] /\ l = Len(me[t].blocks)
        /\ a = producers[me[t].producer].tailIndex /\ n = Len(me[t].items)
        /\ k = Span(producers[me[t].producer].tailIndex) + Len(me[t].blocks)
        /\ e = elementsCompletelyDequeued
  OBVIOUS
<1>1. /\ me[t].pc = "first" /\ Enqueuing(t) /\ UNCHANGED elementsCompletelyDequeued
      /\ ~LacksBlock(t) /\ Finish(t, FALSE)
  BY DEF Publish, At, Enqueuing
<1>2. /\ Shaped /\ DOMAIN me[t] = Locals /\ p \in Names /\ WriterOK(q, me[t], e) /\ KeysOK(q)
      /\ q.tailIndex = a /\ a \in Nat /\ Span(a) \in Nat /\ n \in Nat
      /\ me[t].blocks \in Seq(PoolBlocks) /\ l \in Nat /\ me[t].freed = << >>
      /\ NextBase(t) = BaseOf(k) /\ q.headIndex \in Nat /\ q.headIndex <= a
  BY <1>0, <1>1, WriterIs
<1>3. k \in Nat /\ k = Span(a) + l /\ BaseOf(k) \in Nat /\ a + n <= BaseOf(k)
  <2>1. k \in Nat /\ k = Span(a) + l
    BY <1>0, <1>2
  <2>2. BaseOf(k) \in Nat
    BY <2>1, BaseIs
  <2>3. ~(BaseOf(k) < a + n)
    BY <1>0, <1>1, <1>2 DEF LacksBlock, MyQueue
  <2> QED  BY <1>2, <2>1, <2>2, <2>3
<1>4. ~Gets(me[t]) /\ Extra(me[t]) = l
  BY <1>0, <1>1, <1>2 DEF Gets, Extra, CallsPool, PoolSteps
<1>5. q.tail = Wrap(k - 1) /\ \A i \in 0 .. k - 1 : KeyOf(q, Wrap(i))
  BY <1>2, <1>3, <1>4 DEF WriterOK, TailOK
<1>6. Span(a + n) = k
  <2>1. k > 0 => BaseOf(k - 1) < a + n
    <3>1. CASE l # 0
      <4>1. me[t].blocks # << >>
        BY <1>0, <3>1
      <4> QED  BY <1>0, <1>1, <1>2, <1>3, <4>1 DEF WriterOK
    <3>2. CASE l = 0
      <4> SUFFICES ASSUME k > 0 PROVE BaseOf(k - 1) < a + n
        OBVIOUS
      <4>1. k = Span(a)
        BY <1>2, <1>3, <3>2
      <4>2. BaseOf(k) < a + BLOCK_SIZE
        BY <1>2, <4>1, SpanIs
      <4>3. BaseOf(k - 1) \in Int /\ BaseOf(k - 1 + 1) = BaseOf(k - 1) + BLOCK_SIZE /\ k - 1 + 1 = k
        BY <1>3, BaseIs
      <4> QED  BY <1>2, <4>2, <4>3, Sizes
    <3> QED  BY <3>1, <3>2
  <2>2. a + n \in Nat
    BY <1>2
  <2> QED  BY <1>3, <2>1, <2>2, SpanGrows
<1>7. DOMAIN producers = Names /\ DOMAIN e = PoolBlocks /\ \A x \in PoolBlocks : e[x] \in Int
  BY <1>0 DEF QueueInv, CounterInv, IndexInv
<1>8. PICK c : producers' = [producers EXCEPT ![p].tailIndex = @ + n, ![p].tailBlock = c]
  <2>1. producers' = [producers EXCEPT
          ![p].tailIndex = @ + n,
          ![p].tailBlock = IF me[t].blocks = << >> THEN @ ELSE me[t].blocks[Len(me[t].blocks)]]
    BY <1>0 DEF Publish
  <2>2. producers' = [producers EXCEPT ![p].tailIndex = @ + n,
          ![p].tailBlock = IF me[t].blocks = << >> THEN producers[p].tailBlock
                           ELSE me[t].blocks[Len(me[t].blocks)]]
    BY <1>2, <1>7, <2>1
  <2> QED  BY <2>2
<1>9. PICK r : r = producers'[p]
  OBVIOUS
<1>10. \A z \in Names : z # p => producers'[z] = producers[z]
  BY <1>2, <1>7, <1>8
<1>11. /\ DOMAIN r = DOMAIN q /\ r.tail = q.tail /\ r.key = q.key /\ r.value = q.value
       /\ r.headIndex = q.headIndex /\ r.tailIndex = a + n
  <2>1. {"tail", "key", "value", "tailIndex", "headIndex", "tailBlock"} \subseteq DOMAIN q
    BY <1>2 DEF KeysOK, ImplicitProducer
  <2>2. r = [q EXCEPT !.tailIndex = a + n, !.tailBlock = c]
    BY <1>0, <1>2, <1>7, <1>8, <1>9
  <2> QED  BY <2>1, <2>2
<1>12. Shaped' /\ Others(t) /\ me'[t].pc = "idle" /\ me'[t].back = "idle" /\ me'[t].blocks = << >>
  BY <1>1, <1>2, FinishIndex
<1>13. Debt(me[t]) = {} /\ Debt(me'[t]) = {}
  BY <1>1, <1>12 DEF Debt, Emptied, CallsPool, PoolSteps
<1>14. \A z \in Names : \A u \in Threads : \A i \in Int : Owes(me', z, u, i) <=> Owes(me, z, u, i)
  BY <1>12, <1>13 DEF Owes, Others
<1>15. /\ KeysOK(r) /\ KeysSame(q, r) /\ EntriesSame(q, r) /\ TailOK(r, 0)
  <2>1. KeysOK(r)
    BY <1>2, <1>11 DEF KeysOK, KeyOf
  <2>2. KeysSame(q, r) /\ EntriesSame(q, r)
    BY <1>11 DEF KeysSame, KeyOf, EntriesSame, EntryIs
  <2>3. Span(r.tailIndex) + 0 - 1 = k - 1
    BY <1>3, <1>6, <1>11
  <2>4. TailOK(r, 0)
    BY <1>5, <1>11, <2>3 DEF TailOK, KeyOf
  <2> QED  BY <2>1, <2>2, <2>4
\* The new blocks have all their items.
<1>16. ASSUME NEW j \in Span(a) .. k - 1
       PROVE  /\ r.key[Wrap(j)] = BaseOf(j) /\ r.value[Wrap(j)] \in PoolBlocks
              /\ e[r.value[Wrap(j)]] = BLOCK_SIZE - Cardinality(RestOf(r, me', p, j))
  <2>1. PICK i : i = j - Span(a) + 1
    OBVIOUS
  <2>2. i \in DOMAIN me[t].blocks /\ Span(a) + 0 + i - 1 = j /\ j \in Int /\ j >= 0
    <3>1. PICK w \in Nat : w = Span(a)
      BY <1>2
    <3>2. j \in Int /\ j >= w /\ j < w + l /\ i = j - w + 1
      BY <1>2, <1>3, <2>1, <3>1
    <3>3. i \in 1 .. l /\ w + 0 + i - 1 = j /\ j >= 0
      BY <1>2, <3>1, <3>2
    <3>4. DOMAIN me[t].blocks = 1 .. l
      BY <1>0, <1>2
    <3> QED  BY <3>1, <3>2, <3>3, <3>4
  <2>3. /\ EntryIs(q, Span(a) + Len(me[t].freed) + i - 1, me[t].blocks[i])
        /\ e[me[t].blocks[i]] = 0
    BY <1>2, <2>2 DEF WriterOK
  <2>4. Len(me[t].freed) = 0 /\ me[t].blocks[i] \in PoolBlocks
    BY <1>2, <2>2
  <2>5. EntryIs(q, j, me[t].blocks[i])
    BY <2>2, <2>3, <2>4
  <2>6. /\ r.key[Wrap(j)] = BaseOf(j) /\ r.value[Wrap(j)] \in PoolBlocks
        /\ e[r.value[Wrap(j)]] = 0
    BY <1>11, <2>3, <2>4, <2>5 DEF EntryIs
  <2>7. RestOf(r, me', p, j) = BlockOf(j)
    <3>1. ASSUME NEW x \in BlockOf(j) PROVE x >= r.headIndex
      <4>1. x \in Int /\ BaseOf(j) <= x /\ BaseOf(j) \in Int
        <5>1. x \in Int /\ Blk(x) = j
          BY <2>2, BlockOfIs
        <5> QED  BY <5>1, BlkIs
      <4>2. a <= BaseOf(Span(a)) /\ BaseOf(Span(a)) \in Int
        BY <1>2, SpanIs, BaseIs
      <4>3. BaseOf(Span(a)) <= BaseOf(j)
        <5>1. CASE j = Span(a)
          BY <4>1, <5>1
        <5>2. CASE j # Span(a)
          <6>1. Span(a) < j /\ Span(a) \in Int
            BY <1>2, <1>3, <5>2
          <6>2. BaseOf(Span(a)) + BLOCK_SIZE <= BaseOf(j)
            BY <2>2, <6>1, BaseIs
          <6> QED  BY <4>1, <4>2, <6>2, Sizes
        <5> QED  BY <5>1, <5>2
      <4> QED  BY <1>2, <1>11, <4>1, <4>2, <4>3
    <3> QED  BY <3>1 DEF RestOf, Rest
  <2>8. Cardinality(BlockOf(j)) = BLOCK_SIZE
    BY <2>2, BlockOfIs
  <2>9. BLOCK_SIZE - BLOCK_SIZE = 0
    BY Sizes
  <2> QED  BY <2>6, <2>7, <2>8, <2>9
<1>17. ASSUME NEW z \in Names
       PROVE  /\ KeysOK(producers'[z]) /\ KeysSame(producers[z], producers'[z])
              /\ EntriesSame(producers[z], producers'[z])
              /\ Span(producers'[z].tailIndex) \in Nat
              /\ Span(producers[z].tailIndex) <= Span(producers'[z].tailIndex)
              /\ RestSame(producers[z], producers'[z], me, me', z)
              /\ NewLive(producers[z], producers'[z], me', z, elementsCompletelyDequeued')
              /\ DebtsOK(producers'[z], me', z)
              /\ Unwritten(z)' => TailOK(producers'[z], 0)
  <2>1. Span(producers[z].tailIndex) \in Nat
    BY ProducerIs
  <2>2. producers'[z].headIndex = producers[z].headIndex
    BY <1>0, <1>9, <1>10, <1>11
  <2>3. RestSame(producers[z], producers'[z], me, me', z)
    <3> SUFFICES ASSUME NEW j \in 0 .. Span(producers[z].tailIndex) - 1
                 PROVE  RestOf(producers'[z], me', z, j) = RestOf(producers[z], me, z, j)
      BY DEF RestSame
    <3>1. j \in Int
      BY <2>1
    <3> QED  BY <1>14, <2>2, <3>1, RestKept
  <2>4. DebtsOK(producers'[z], me', z)
    <3>1. DebtsOK(producers[z], me, z)
      BY DEF IndexInv, IndexOK
    <3> QED  BY <1>14, <2>2, <3>1 DEF DebtsOK
  <2>5. CASE z = p
    <3>1. producers[z] = q /\ producers'[z] = r
      BY <1>0, <1>9, <2>5
    <3>2. Span(r.tailIndex) = k /\ Span(q.tailIndex) = Span(a)
      BY <1>2, <1>6, <1>11
    <3>3. NewLive(q, r, me', p, elementsCompletelyDequeued')
      BY <1>0, <1>1, <1>16, <3>2 DEF NewLive
    <3>4. k \in Nat /\ Span(a) <= k
      BY <1>2, <1>3
    <3> QED  BY <1>15, <2>3, <2>4, <2>5, <3>1, <3>2, <3>3, <3>4
  <2>6. CASE z # p
    <3>1. producers'[z] = producers[z]
      BY <1>10, <2>6
    <3>2. KeysOK(producers[z]) /\ (Unwritten(z) => TailOK(producers[z], 0))
      BY DEF IndexInv, IndexOK
    <3>3. Unwritten(z)' => Unwritten(z)
      <4>1. \A u \in Threads \ {t} : (Enqueuing(u)' <=> Enqueuing(u)) /\ me'[u] = me[u]
        BY <1>12 DEF Others, Enqueuing
      <4> QED  BY <1>0, <2>6, <4>1 DEF Unwritten
    <3>4. NewLive(producers[z], producers'[z], me', z, elementsCompletelyDequeued')
      BY <2>1, <3>1 DEF NewLive
    <3> QED  BY <2>1, <2>3, <2>4, <3>1, <3>2, <3>3, <3>4 DEF KeysSame, EntriesSame
  <2> QED  BY <2>5, <2>6
<1>18. ThreadOK(t)'
  <2>1. ~Enqueuing(t)' /\ ~Consuming(t)'
    BY <1>12 DEF Enqueuing, Consuming, Taking, Moving, Claiming, PoolSteps
  <2>2. AskOK(me'[t])
    BY <1>12 DEF AskOK, Claiming
  <2> QED  BY <1>12, <2>1, <2>2 DEF ThreadOK
<1>19. ASSUME NEW u \in Threads \ {t}, Enqueuing(u)
       PROVE  WriterSame(producers[me[u].producer], producers'[me[u].producer])
  <2>1. me[u].producer \in Names /\ me[u].producer # p
    BY <1>0, <1>1, <1>19, TheirProducers DEF SingleWriter
  <2> QED  BY <1>10, <2>1 DEF WriterSame
<1>20. /\ DOMAIN elementsCompletelyDequeued' = PoolBlocks
       /\ \A b \in PoolBlocks : elementsCompletelyDequeued'[b] \in Int
       /\ \A y \in Names : \A x \in Slots : producers[y].value[x] \in PoolBlocks =>
            elementsCompletelyDequeued'[producers[y].value[x]]
              = elementsCompletelyDequeued[producers[y].value[x]]
       /\ me'[t].pc # "detach"
  BY <1>0, <1>1, <1>7, <1>12
<1> QED  BY <1>12, <1>17, <1>18, <1>19, <1>20, IndexFrame

-----------------------------------------------------------------------------
(* The block index: every step.                                            *)

\* The invariant is about these variables only.
LEMMA IndexVars ==
  ASSUME IndexInv, UNCHANGED <<me, producers, elementsCompletelyDequeued>>
  PROVE  IndexInv'
<1>1. \A t \in Threads : /\ Enqueuing(t)' <=> Enqueuing(t)
                         /\ Consuming(t)' <=> Consuming(t)
  BY DEF Enqueuing, Consuming, Taking
<1>2. \A t \in Threads : ThreadOK(t)'
  BY <1>1 DEF IndexInv, ThreadOK
<1>3. \A p \in Names : IndexOK(p)'
  BY <1>1 DEF IndexInv, IndexOK, Unwritten
<1>4. DetachersApart'
  BY DEF IndexInv, DetachersApart
<1> QED  BY <1>2, <1>3, <1>4 DEF IndexInv, PoolBlocks, Names

\* Every step of a thread keeps the invariant.
LEMMA IndexStep ==
  ASSUME QueueInv, QueueInv', ClaimsPublished, SingleWriter, SingleWriter', FreeInv, IndexInv,
         NEW t \in Threads, Step(t)
  PROVE  IndexInv'
<1>1. CASE PoolStep(t) /\ UNCHANGED <<hashVars, todo, queueVars>>
  <2>1. UNCHANGED <<producers, elementsCompletelyDequeued>>
    BY <1>1 DEF queueVars
  <2> QED  BY <1>1, <2>1, PoolIndexOK
<1>2. CASE HashStep(t) /\ UNCHANGED <<poolVars, todo, queueVars>>
  <2>1. UNCHANGED <<producers, elementsCompletelyDequeued>>
    BY <1>2 DEF queueVars
  <2> QED  BY <1>2, <2>1, HashIndexOK
<1>3. CASE PutStep(t)
  BY <1>3, EnqueueOK, InsertOK, AttachOK, UnindexOK, AddBlocksOK, RefusedOK, PublishOK, Zenon
  DEF PutStep
<1>4. CASE TakeStep(t)
  <2>1. Walking(t) \/ FindTail(t) \/ FindKey(t) \/ Move(t) \/ set_many_empty(t) \/ Detach(t) \/ Freed(t)
    BY <1>4 DEF TakeStep, Walking
  <2> QED
    BY <2>1, WalkIndexOK, HeadOK, FindTailOK, FindKeyOK, MoveOK, ManyEmptyOK, DetachIndexOK, FreedOK, Zenon
<1> QED  BY <1>1, <1>2, <1>3, <1>4 DEF Step

\* Every step of the specification keeps the invariant.
LEMMA IndexNext ==
  ASSUME QueueInv, QueueInv', ClaimsPublished, SingleWriter, SingleWriter', FreeInv, IndexInv,
         [Next]_vars
  PROVE  IndexInv'
<1>1. UNCHANGED vars => IndexInv'
  BY IndexVars DEF vars, queueVars
<1>2. ASSUME NEW t \in Threads, Step(t) PROVE IndexInv'
  BY <1>2, IndexStep
<1> QED  BY <1>1, <1>2 DEF Next, Terminated

\* At first no block is indexed, and nobody has claimed an item.
LEMMA IndexInit == Init => IndexInv
<1> SUFFICES ASSUME Init PROVE IndexInv
  OBVIOUS
<1>1. \A t \in Threads : me[t] = [Idle EXCEPT !.failing = workload.failing]
  BY DEF Init
<1>2. ASSUME NEW t \in Threads
      PROVE  me[t].pc = "idle" /\ me[t].blocks = << >>
  BY <1>1 DEF Idle
<1>3. \A t \in Threads : Debt(me[t]) = {} /\ ~Enqueuing(t) /\ ~Consuming(t)
  BY <1>2 DEF Debt, Emptied, CallsPool, Enqueuing, Consuming, Taking, Moving, Claiming, PoolSteps
<1>4. \A t \in Threads : ThreadOK(t)
  BY <1>2, <1>3 DEF ThreadOK, AskOK, Claiming
<1>5. ASSUME NEW p \in Names PROVE IndexOK(p)
  <2> DEFINE q == producers[p]
  <2>1. q = ImplicitProducer
    BY DEF Init
  <2>2. /\ DOMAIN q = DOMAIN ImplicitProducer /\ q.headIndex = 0 /\ q.tailIndex = 0
        /\ q.tail = IMPLICIT_INITIAL_INDEX_SIZE - 1
        /\ q.key = [i \in Slots |-> INVALID_BLOCK_BASE] /\ q.value = [i \in Slots |-> None]
    BY <2>1 DEF ImplicitProducer
  <2> HIDE DEF q
  <2>3. Span(q.tailIndex) = 0
    <3>1. BaseOf(0) = 0
      BY BaseIs
    <3>2. Span(0) = 0
      BY <3>1, SpanGrows
    <3> QED  BY <2>2, <3>2
  <2>4. IMPLICIT_INITIAL_INDEX_SIZE \in Nat \ {0} /\ Wrap(-1) = IMPLICIT_INITIAL_INDEX_SIZE - 1
    BY QueueAssumption DEF Wrap
  <2>5. KeysOK(q)
    BY <2>2, <2>4 DEF KeysOK, Slots, KeyOf
  <2>6. LiveOK(q, me, p, elementsCompletelyDequeued)
    BY <2>3 DEF LiveOK
  <2>7. DebtsOK(q, me, p)
    BY <1>3 DEF DebtsOK, Owes
  <2>8. TailOK(q, 0)
    BY <2>2, <2>3, <2>4 DEF TailOK
  <2> QED  BY <2>5, <2>6, <2>7, <2>8 DEF IndexOK, q
<1>6. DetachersApart
  BY <1>2 DEF DetachersApart
<1>7. /\ DOMAIN elementsCompletelyDequeued = PoolBlocks
      /\ \A b \in PoolBlocks : elementsCompletelyDequeued[b] \in Int
  BY DEF Init, PoolBlocks
<1> QED  BY <1>4, <1>5, <1>6, <1>7 DEF IndexInv

-----------------------------------------------------------------------------
(* The free list: the steps outside the pool.                              *)

\* The blocks in the index stay where they are.
ValuesSame == \A p \in Names : \A s \in Slots : producers'[p].value[s] = producers[p].value[s]

\* A step of a thread with no block in its hand and no reference leaves all blocks alone.
LEMMA FreeIdle ==
  ASSUME FreeInv, NEW t \in Threads, Shaped', Others(t), UNCHANGED poolVars, ValuesSame,
         Hand(me[t]) = None, Hand(me'[t]) = None, me'[t].freed = me[t].freed,
         \A b \in PoolBlocks : ~Refers(me[t], b) /\ ~Refers(me'[t], b),
         PoolOK(me'[t]), me'[t].pc \notin {"swap", "linkrefs", "linkswap"}
  PROVE  FreeInv'
<1>1. UNCHANGED <<freeListHead, freeListRefs, freeListNext, initialBlockPoolSize, initialBlockPoolIndex>>
  BY DEF poolVars, initialPool
<1>2. initialBlockPoolIndex' \in Nat
  BY <1>1 DEF FreeInv, ListTypes
<1>3. \A b \in PoolBlocks : SameFor(t, b)
  <2> SUFFICES ASSUME NEW b \in PoolBlocks PROVE SameFor(t, b)
    OBVIOUS
  <2>1. b # None
    BY NotBlock
  <2>2. ~InHand(t, b)' /\ ~InHand(t, b)
    BY <2>1 DEF InHand
  <2>3. Unused(b)' <=> Unused(b)
    BY <1>1 DEF Unused
  <2>4. InFreed(t, b)' <=> InFreed(t, b)
    BY DEF InFreed
  <2>5. \A p \in Names : \A s \in Slots : InEntry(p, s, b)' <=> InEntry(p, s, b)
    BY DEF InEntry, ValuesSame
  <2> QED  BY <1>1, <2>2, <2>3, <2>4, <2>5 DEF SameFor
<1>4. ReadOK(t)'
  BY DEF ReadOK
<1> QED  BY <1>1, <1>2, <1>3, <1>4, FreeStay

\* The thread is not in the pool, before or after.
Outside(m) == m.pc \notin PoolSteps \cup {"attach"}
\* Such a thread has no block in its hand and refers to none.
LEMMA OutsideIs ==
  ASSUME NEW m, Outside(m)
  PROVE  /\ Hand(m) = None /\ \A b \in PoolBlocks : ~Refers(m, b)
         /\ m.pc \notin {"swap", "linkrefs", "linkswap"}
BY DEF Outside, Hand, Refers, Adding, Flagging, PoolSteps

\* A step of a thread that is not in the pool, and that writes no entry.
LEMMA FreeQuiet ==
  ASSUME FreeInv, NEW t \in Threads, Shaped', Others(t), UNCHANGED poolVars, ValuesSame,
         Outside(me[t]), Outside(me'[t]), me'[t].freed = me[t].freed,
         me[t].freed = << >> \/ me'[t].pc = "unindex",
         me'[t].inGet = me[t].inGet \/ me'[t].inGet = FALSE
  PROVE  FreeInv'
<1>1. PoolOK(me[t])
  BY DEF FreeInv
<1>2. me'[t].inGet \in BOOLEAN /\ ~me'[t].inGet
  <2>1. me[t].pc \notin PoolSteps
    BY DEF Outside
  <2>2. me[t].inGet \in BOOLEAN /\ ~me[t].inGet
    BY <1>1, <2>1, Zenon DEF PoolOK
  <2> QED  BY <2>2, Zenon
<1>3. /\ me'[t].freed \in Seq(PoolBlocks)
      /\ \A i, j \in DOMAIN me'[t].freed : me'[t].freed[i] = me'[t].freed[j] => i = j
  BY <1>1 DEF PoolOK
<1>4. PoolOK(me'[t])
  <2>1. /\ me'[t].pc \notin Getting /\ me'[t].pc # "drop" /\ me'[t].pc \notin {"requisition", "take", "get", "drop"}
        /\ me'[t].pc \notin Adding /\ me'[t].pc # "add" /\ me'[t].pc # "attach" /\ me'[t].pc # "hold"
        /\ me'[t].pc # "swap" /\ me'[t].pc \notin {"linknext", "linkrefs", "linkswap", "unlink"}
    BY DEF Outside, PoolSteps, Getting, Adding, Flagging
  <2>2. me'[t].freed # << >> => me'[t].pc = "unindex"
    OBVIOUS
  <2> QED  BY <1>2, <1>3, <2>1, <2>2, ZenonT(30) DEF PoolOK
<1> QED  BY <1>4, OutsideIs, FreeIdle

\* A call returns.
LEMMA FreeFinish ==
  ASSUME FreeInv, NEW t \in Threads, NEW short, Finish(t, short), UNCHANGED poolVars, ValuesSame,
         Outside(me[t]), me[t].freed = << >>
  PROVE  FreeInv'
<1>1. /\ Shaped' /\ Others(t) /\ me'[t].pc = "idle" /\ me'[t].freed = << >> /\ me'[t].inGet = FALSE
  BY FinishIndex DEF FreeInv
<1>2. Outside(me'[t])
  BY <1>1 DEF Outside, PoolSteps
<1> QED  BY <1>1, <1>2, FreeQuiet

\* A thread that is not freeing the blocks of a failed bulk has none.
LEMMA NoneFreed ==
  ASSUME FreeInv, NEW t \in Threads, Outside(me[t]), me[t].pc # "unindex"
  PROVE  me[t].freed = << >> /\ DOMAIN me[t] = Locals /\ Shaped
<1>1. PoolOK(me[t]) /\ DOMAIN me[t] = Locals /\ Shaped
  BY FreeIs
<1> QED  BY <1>1 DEF PoolOK, CallsPool, Outside

\* Steps that change locals only, none of those that the pool uses.
LEMMA FreeGo ==
  ASSUME FreeInv, NEW t \in Threads, NEW pc, NEW m, DOMAIN m = Locals, Go(t, pc, m),
         m.freed = me[t].freed, m.inGet = me[t].inGet, UNCHANGED poolVars, ValuesSame,
         Outside(me[t]), me[t].pc # "unindex", pc \notin PoolSteps \cup {"attach"}
  PROVE  FreeInv'
<1>1. me[t].freed = << >> /\ Shaped
  BY NoneFreed
<1>2. /\ Shaped' /\ Others(t) /\ me'[t].pc = pc /\ me'[t].freed = m.freed /\ me'[t].inGet = m.inGet
  BY <1>1, GoPool DEF Others
<1>3. Outside(me'[t])
  BY <1>2 DEF Outside
<1> QED  BY <1>1, <1>2, <1>3, FreeQuiet

\* The steps of the hash, of a dequeue before it has items, and the others that leave the
\* blocks where they are.
LEMMA HashFreeOK ==
  ASSUME FreeInv, NEW t \in Threads, HashStep(t), UNCHANGED <<poolVars, producers>>
  PROVE  FreeInv'
<1>1. /\ Shaped' /\ Others(t) /\ me[t].pc \in Registering \cup {"search"}
      /\ me'[t].pc \in Registering \cup {"first", "refused"}
      /\ \A f \in HashFixed : me'[t][f] = me[t][f]
  BY HashIndex DEF FreeInv
<1>2. me'[t].freed = me[t].freed /\ me'[t].inGet = me[t].inGet
  BY <1>1 DEF HashFixed, IndexLocals
<1>3. Outside(me[t]) /\ Outside(me'[t]) /\ me[t].pc # "unindex"
  BY <1>1 DEF Outside, PoolSteps, Registering, Lacking
<1>4. ValuesSame
  BY DEF ValuesSame
<1>5. me[t].freed = << >>
  BY <1>3, NoneFreed
<1> QED  BY <1>1, <1>2, <1>3, <1>4, <1>5, FreeQuiet

\* The walk up to the items it gets.
LEMMA WalkFreeOK ==
  ASSUME QueueInv, FreeInv, IndexInv, NEW t \in Threads, Walking(t), UNCHANGED poolVars
  PROVE  FreeInv'
<1>1. \/ \E short : Finish(t, short)
      \/ Shaped' /\ Others(t) /\ \A f \in WalkFixed : me'[t][f] = me[t][f]
  BY WalkIndex DEF FreeInv
<1>2. AskOK(me[t])
  BY DEF IndexInv, ThreadOK
<1>3. /\ Outside(me[t]) /\ me[t].pc # "unindex"
      /\ (\E short : Finish(t, short)) \/ me'[t].pc \notin PoolSteps \cup {"attach"}
  <2>1. CASE TakeHead(t)
    <3>1. me[t].pc = "head" /\ DOMAIN me[t] = Locals /\ Shaped
      BY <2>1, FreeIs DEF TakeHead, At
    <3>2. PICK x, y, z : Go(t, "find", [me[t] EXCEPT !.index = x, !.end = y, !.given = z])
      BY <2>1 DEF TakeHead
    <3> DEFINE m == [me[t] EXCEPT !.index = x, !.end = y, !.given = z]
    <3>4. DOMAIN m = Locals /\ Go(t, "find", m)
      BY <3>1, <3>2
    <3> HIDE DEF m
    <3>3. me'[t].pc = "find"
      BY <3>1, <3>4, GoMakes
    <3> QED  BY <3>1, <3>3 DEF Outside, PoolSteps
  <2>2. CASE ~TakeHead(t)
    <3>1. /\ me[t].pc \notin AtBlock \cup {"first", "attach", "unindex"}
          /\ \/ \E short : Finish(t, short)
             \/ me'[t].pc \notin AtBlock \cup {"first", "attach", "unindex"} /\ AskOK(me'[t])
      BY <1>2, <2>2, AskKept, Zenon
    <3>2. PoolSteps \subseteq AtBlock
      BY DEF AtBlock
    <3> QED  BY <3>1, <3>2 DEF Outside
  <2> QED  BY <2>1, <2>2
<1>4. me[t].freed = << >>
  BY <1>3, NoneFreed
<1>5. ValuesSame
  <2>1. CASE TakeHead(t)
    <3>1. producers' = [producers EXCEPT ![me[t].ptr].headIndex = @ + me[t].n]
      BY <2>1 DEF TakeHead
    <3>2. \A p \in Names : p \in DOMAIN producers
      BY DEF QueueInv, CounterInv
    <3> QED  BY <3>1, <3>2 DEF ValuesSame
  <2>2. CASE ~TakeHead(t)
    BY <2>2, IndexFields DEF ValuesSame
  <2> QED  BY <2>1, <2>2
<1>6. CASE \E short : Finish(t, short)
  BY <1>3, <1>4, <1>5, <1>6, FreeFinish
<1>7. CASE ~\E short : Finish(t, short)
  <2>1. /\ Shaped' /\ Others(t) /\ me'[t].freed = me[t].freed /\ me'[t].inGet = me[t].inGet
    BY <1>1, <1>7 DEF WalkFixed, PoolLocals
  <2>2. Outside(me'[t])
    BY <1>3, <1>7 DEF Outside
  <2> QED  BY <1>3, <1>4, <1>5, <2>1, <2>2, FreeQuiet
<1> QED  BY <1>6, <1>7

\* A call of enqueue begins.
LEMMA EnqueueFreeOK ==
  ASSUME FreeInv, NEW t \in Threads, Enqueue(t), UNCHANGED poolVars
  PROVE  FreeInv'
<1> DEFINE m == [me[t] EXCEPT !.items = Head(todo[t]).items]
<1>1. /\ me[t].pc = "idle" /\ UNCHANGED producers /\ Go(t, "search", m)
  BY DEF Enqueue, At, queueVars
<1>2. DOMAIN me[t] = Locals
  BY FreeIs
<1>3. DOMAIN m = Locals /\ m.freed = me[t].freed /\ m.inGet = me[t].inGet
  BY <1>2, PoolLocal DEF PoolLocals
<1> HIDE DEF m
<1>4. Outside(me[t]) /\ me[t].pc # "unindex" /\ "search" \notin PoolSteps \cup {"attach"} /\ ValuesSame
  BY <1>1 DEF Outside, PoolSteps, ValuesSame
<1> QED  BY <1>1, <1>3, <1>4, FreeGo

\* An enqueue gives up.
LEMMA RefusedFreeOK ==
  ASSUME FreeInv, NEW t \in Threads, Refused(t), UNCHANGED poolVars
  PROVE  FreeInv'
<1>1. /\ me[t].pc = "refused" \/ (me[t].pc = "unindex" /\ me[t].freed = << >>)
      /\ Finish(t, FALSE) /\ UNCHANGED producers
  BY DEF Refused, At, queueVars
<1>2. Outside(me[t]) /\ ValuesSame
  BY <1>1 DEF Outside, PoolSteps, ValuesSame
<1>3. me[t].freed = << >>
  BY <1>1, <1>2, NoneFreed
<1> QED  BY <1>1, <1>2, <1>3, FreeFinish

\* The items are published.
LEMMA PublishFreeOK ==
  ASSUME QueueInv, FreeInv, NEW t \in Threads, Publish(t), UNCHANGED poolVars
  PROVE  FreeInv'
<1>1. me[t].pc = "first" /\ Finish(t, FALSE)
  BY DEF Publish, At
<1>2. ValuesSame
  <2>1. PICK a, b : producers' = [producers EXCEPT ![me[t].producer].tailIndex = a,
                                                   ![me[t].producer].tailBlock = b]
    BY DEF Publish
  <2>2. \A p \in Names : p \in DOMAIN producers
    BY DEF QueueInv, CounterInv
  <2> QED  BY <2>1, <2>2 DEF ValuesSame
<1>3. Outside(me[t]) /\ me[t].pc # "unindex"
  BY <1>1 DEF Outside, PoolSteps
<1> QED  BY <1>1, <1>2, <1>3, NoneFreed, FreeFinish

\* The items of a dequeue are found and moved.
LEMMA FindFreeOK ==
  ASSUME FreeInv, NEW t \in Threads, FindTail(t) \/ FindKey(t) \/ Move(t), UNCHANGED poolVars
  PROVE  FreeInv'
<1>1. /\ me[t].pc \in {"find", "key", "move"} /\ UNCHANGED producers
  BY DEF FindTail, FindKey, Move, At
<1>2. \E m \in {me[t]} \cup {[me[t] EXCEPT !.slot = s] : s \in {Theirs(t).tail, SlotFor(Theirs(t), me[t].slot, me[t].index)}}
                 \cup {[me[t] EXCEPT !.block = Theirs(t).value[me[t].slot], !.index = EndIndex(t),
                                 !.count = EndIndex(t) - me[t].index]} :
        \E pc \in {"key", "move", "assert", "empty"} : Go(t, pc, m)
  BY DEF FindTail, FindKey, Move
<1>3. PICK m \in {me[t]} \cup {[me[t] EXCEPT !.slot = s] : s \in {Theirs(t).tail, SlotFor(Theirs(t), me[t].slot, me[t].index)}}
                 \cup {[me[t] EXCEPT !.block = Theirs(t).value[me[t].slot], !.index = EndIndex(t),
                                 !.count = EndIndex(t) - me[t].index]} :
        \E pc \in {"key", "move", "assert", "empty"} : Go(t, pc, m)
  BY <1>2
<1>4. DOMAIN me[t] = Locals
  BY FreeIs
<1>5. DOMAIN m = Locals /\ m.freed = me[t].freed /\ m.inGet = me[t].inGet
  BY <1>3, <1>4, PoolLocal DEF PoolLocals
<1>6. PICK pc \in {"key", "move", "assert", "empty"} : Go(t, pc, m)
  BY <1>3
<1>7. /\ Outside(me[t]) /\ me[t].pc # "unindex" /\ pc \notin PoolSteps \cup {"attach"} /\ ValuesSame
  BY <1>1 DEF Outside, PoolSteps, ValuesSame
<1> QED  BY <1>5, <1>6, <1>7, FreeGo

\* The items of a block are counted, or its block is on the free list.
LEMMA EmptiedFreeOK ==
  ASSUME FreeInv, NEW t \in Threads, set_many_empty(t) \/ Freed(t), UNCHANGED poolVars
  PROVE  FreeInv'
<1>1. /\ me[t].pc \in {"empty", "freed"} /\ UNCHANGED producers
      /\ Go(t, "detach", me[t]) \/ NextBlock(t)
  BY DEF set_many_empty, Freed, At
<1>2. DOMAIN me[t] = Locals
  BY FreeIs
<1>3. PICK s : s = Wrap(me[t].slot + 1)
  OBVIOUS
<1> DEFINE m == [me[t] EXCEPT !.slot = s]
<1>4. Go(t, "detach", me[t]) \/ Go(t, "dequeued", me[t]) \/ Go(t, "move", m)
  BY <1>1, <1>3 DEF NextBlock
<1>5. DOMAIN m = Locals /\ m.freed = me[t].freed /\ m.inGet = me[t].inGet
  BY <1>2, PoolLocal DEF PoolLocals
<1> HIDE DEF m
<1>6. /\ Outside(me[t]) /\ me[t].pc # "unindex" /\ ValuesSame
      /\ \A pc \in {"detach", "dequeued", "move"} : pc \notin PoolSteps \cup {"attach"}
  BY <1>1 DEF Outside, PoolSteps, ValuesSame
<1>7. CASE Go(t, "move", m)
  BY <1>5, <1>6, <1>7, FreeGo
<1>8. CASE Go(t, "detach", me[t]) \/ Go(t, "dequeued", me[t])
  BY <1>2, <1>6, <1>8, FreeGo
<1> QED  BY <1>4, <1>7, <1>8

-----------------------------------------------------------------------------
(* The steps that move a block between a thread and an entry of an index.  *)

\* Only thread t and entry x of producer p may know of block b.
Alone(t, p, x, b) ==
  /\ ~Unused(b) /\ \A u \in Threads \ {t} : ~InHand(u, b) /\ ~InFreed(u, b)
  /\ \A r \in Names : \A y \in Slots : InEntry(r, y, b) => r = p /\ y = x

\* It is in the thread's hand, among those it frees, or in the entry.
OneOfThem(t, p, x, b) ==
  \/ InHand(t, b) /\ ~InFreed(t, b) /\ ~InEntry(p, x, b)
  \/ ~InHand(t, b) /\ InFreed(t, b) /\ ~InEntry(p, x, b)
  \/ ~InHand(t, b) /\ ~InFreed(t, b) /\ InEntry(p, x, b)

\* In one of them, it is in no other place.
LEMMA AloneIs ==
  ASSUME NEW t \in Threads, NEW p \in Names, NEW x \in Slots, NEW b, OnePlace(b),
         InHand(t, b) \/ InFreed(t, b) \/ InEntry(p, x, b)
  PROVE  Alone(t, p, x, b)
BY DEF Alone, OnePlace, OnlyUnused, OnlyHand, OnlyFreed, OnlyEntry

\* And in exactly one of them, it is in that place only.
LEMMA OneIsOnly ==
  ASSUME NEW t \in Threads, NEW p \in Names, NEW x \in Slots, NEW b, Alone(t, p, x, b),
         OneOfThem(t, p, x, b)
  PROVE  OnePlace(b) /\ ~Loose(b)
<1>1. CASE InHand(t, b) /\ ~InFreed(t, b) /\ ~InEntry(p, x, b)
  BY <1>1 DEF Alone, OnePlace, OnlyHand, Loose
<1>2. CASE ~InHand(t, b) /\ InFreed(t, b) /\ ~InEntry(p, x, b)
  BY <1>2 DEF Alone, OnePlace, OnlyFreed, Loose
<1>3. CASE ~InHand(t, b) /\ ~InFreed(t, b) /\ InEntry(p, x, b)
  BY <1>3 DEF Alone, OnePlace, OnlyEntry, Loose
<1> QED  BY <1>1, <1>2, <1>3 DEF OneOfThem

\* The count of such a block.
LEMMA CountAlone ==
  ASSUME NEW t \in Threads, NEW p \in Names, NEW x \in Slots, NEW b, NEW s, Alone(t, p, x, b),
         OneOfThem(t, p, x, b), me[t].pc \notin Flagging \cup Listing
  PROVE  CountIs(s, b) <=> ~ElementOf(s, b) /\ freeListRefs[b] = References(b)
<1>1. ~Loose(b)
  BY OneIsOnly
<1>2. HeldCount(t, b) <=> freeListRefs[b] = References(b)
  BY DEF HeldCount, Listing
<1>3. /\ ~Unused(b) /\ \A u \in Threads : (InHand(u, b) => u = t) /\ (InFreed(u, b) => u = t)
      /\ \A r \in Names : \A y \in Slots : InEntry(r, y, b) => r = p /\ y = x
  BY DEF Alone
<1> QED  BY <1>1, <1>2, <1>3 DEF OneOfThem, CountIs

\* What such a step keeps.
Moves(t, p, x, b) ==
  /\ \A r \in Names : \A y \in Slots :
       r # p \/ y # x => producers'[r].value[y] = producers[r].value[y]
  /\ \/ producers'[p].value[x] = producers[p].value[x]
     \/ producers[p].value[x] \in {None, b} /\ producers'[p].value[x] \in {None, b}
  /\ Hand(me[t]) \in {None, b} /\ Hand(me'[t]) \in {None, b}
  /\ \A c \in PoolBlocks \ {b} : InFreed(t, c)' <=> InFreed(t, c)
  /\ \A c \in PoolBlocks : ~Refers(me[t], c) /\ ~Refers(me'[t], c)
  /\ me[t].pc \notin Flagging \cup Listing /\ me'[t].pc \notin Flagging \cup Listing

\* It stays in them while the others stand still.
LEMMA AloneKept ==
  ASSUME NEW t \in Threads, NEW p \in Names, NEW x \in Slots, NEW b, Alone(t, p, x, b), Others(t),
         UNCHANGED poolVars, Moves(t, p, x, b)
  PROVE  Alone(t, p, x, b)'
<1>1. ~Unused(b)'
  BY DEF Alone, Unused, poolVars, initialPool
<1>2. \A u \in Threads \ {t} : ~InHand(u, b)' /\ ~InFreed(u, b)'
  BY DEF Alone, Others, InHand, InFreed
<1>3. \A r \in Names : \A y \in Slots : InEntry(r, y, b)' => r = p /\ y = x
  BY DEF Alone, Moves, InEntry
<1> QED  BY <1>1, <1>2, <1>3 DEF Alone

\* No other block moves.
LEMMA OthersSame ==
  ASSUME NEW t \in Threads, NEW p \in Names, NEW x \in Slots, NEW b, Others(t),
         UNCHANGED poolVars, Moves(t, p, x, b), NEW c \in PoolBlocks \ {b}
  PROVE  SameFor(t, c)
<1>1. c # None /\ c # b
  BY NotBlock
<1>2. ~InHand(t, c)' /\ ~InHand(t, c)
  BY <1>1 DEF InHand, Moves
<1>3. (Unused(c)' <=> Unused(c)) /\ freeListRefs'[c] = freeListRefs[c]
  BY DEF Unused, poolVars, initialPool
<1>4. \A r \in Names : \A y \in Slots : InEntry(r, y, c)' <=> InEntry(r, y, c)
  <2> SUFFICES ASSUME NEW r \in Names, NEW y \in Slots PROVE InEntry(r, y, c)' <=> InEntry(r, y, c)
    OBVIOUS
  <2>1. CASE r = p /\ y = x
    BY <1>1, <2>1 DEF InEntry, Moves
  <2>2. CASE r # p \/ y # x
    BY <2>2 DEF InEntry, Moves
  <2> QED  BY <2>1, <2>2
<1>5. (InFreed(t, c)' <=> InFreed(t, c)) /\ (Refers(me'[t], c) <=> Refers(me[t], c))
  BY DEF Moves
<1> QED  BY <1>2, <1>3, <1>4, <1>5 DEF SameFor

\* A step that moves one block from one of them to another keeps the invariant.
LEMMA FreeMove ==
  ASSUME FreeInv, NEW t \in Threads, Shaped', Others(t), UNCHANGED poolVars,
         NEW p \in Names, NEW x \in Slots, NEW b \in PoolBlocks, Moves(t, p, x, b),
         InHand(t, b) \/ InFreed(t, b) \/ InEntry(p, x, b),
         OneOfThem(t, p, x, b)', PoolOK(me'[t])
  PROVE  FreeInv'
<1>1. PICK s \in Seq(PoolBlocks) : ListIs(s)
  BY DEF FreeInv
<1>2. OnePlace(b) /\ CountIs(s, b)
  BY <1>1 DEF ListIs
<1>3. Alone(t, p, x, b) /\ OneOfThem(t, p, x, b)
  <2>1. Alone(t, p, x, b)
    BY <1>2, AloneIs
  <2> QED  BY <1>2, <2>1 DEF OneOfThem, OnePlace, OnlyHand, OnlyFreed, OnlyEntry
<1>4. ~ElementOf(s, b) /\ freeListRefs[b] = References(b)
  BY <1>2, <1>3, CountAlone DEF Moves
<1>5. Alone(t, p, x, b)'
  BY <1>3, AloneKept
<1>6. References(b)' = References(b) /\ freeListRefs' = freeListRefs
  BY ReferringSame DEF Moves, poolVars
<1>7. OnePlace(b)' /\ ~Loose(b)'
  <2>1. CASE (InHand(t, b) /\ ~InFreed(t, b) /\ ~InEntry(p, x, b))'
    BY <1>5, <2>1 DEF Alone, OnePlace, OnlyHand, Loose
  <2>2. CASE (~InHand(t, b) /\ InFreed(t, b) /\ ~InEntry(p, x, b))'
    BY <1>5, <2>2 DEF Alone, OnePlace, OnlyFreed, Loose
  <2>3. CASE (~InHand(t, b) /\ ~InFreed(t, b) /\ InEntry(p, x, b))'
    BY <1>5, <2>3 DEF Alone, OnePlace, OnlyEntry, Loose
  <2> QED  BY <2>1, <2>2, <2>3 DEF OneOfThem
<1>8. CountIs(s, b)'
  <2>1. HeldCount(t, b)' <=> freeListRefs'[b] = References(b)'
    BY DEF HeldCount, Moves, Listing
  <2>2. /\ ~Unused(b)' /\ \A u \in Threads : (InHand(u, b)' => u = t) /\ (InFreed(u, b)' => u = t)
        /\ \A r \in Names : \A y \in Slots : InEntry(r, y, b)' => r = p /\ y = x
    BY <1>5 DEF Alone
  <2>3. ~ElementOf(s, b)'
    BY <1>4 DEF ElementOf
  <2> QED  BY <1>4, <1>6, <1>7, <2>1, <2>2, <2>3 DEF CountIs
<1>9. \A c \in PoolBlocks : \/ SameFor(t, c) /\ (ElementOf(s, c) <=> ElementOf(s, c))
                            \/ OnePlace(c)' /\ CountIs(s, c)'
  BY <1>7, <1>8, OthersSame
<1>10. /\ UNCHANGED <<freeListHead, freeListRefs, freeListNext, initialBlockPoolSize,
                      initialBlockPoolIndex>>
  BY DEF poolVars, initialPool
<1>11. ListTypes' /\ ChainIs(s)'
  <2>1. ListTypes'
    BY <1>10 DEF FreeInv, ListTypes, PoolBlocks
  <2> QED  BY <1>1, <1>10, <2>1 DEF ListIs, ChainIs, PoolBlocks
<1>12. \A u \in Threads : ReadOK(u)'
  <2>1. ReadOK(t)'
    <3>1. me'[t].pc \notin {"linkrefs", "linkswap"}
      BY DEF Moves, Flagging, Listing
    <3>2. me'[t].pc # "swap"
      <4>1. PoolOK(me'[t]) /\ (me'[t].pc = "swap" => me'[t].head \in PoolBlocks /\ Refers(me'[t], me'[t].head))
        BY DEF PoolOK, Getting, Refers
      <4> QED  BY <4>1 DEF Moves
    <3> QED  BY <3>1, <3>2 DEF ReadOK
  <2> QED  BY <1>10, <2>1, ReadKept DEF FreeInv
<1> QED  BY <1>1, <1>9, <1>11, <1>12, FreeTouch

\* insert_block_index_entry writes a key only; the thread goes to get a block, or gives up.
LEMMA InsertFreeOK ==
  ASSUME QueueInv, FreeInv, NEW t \in Threads, insert_block_index_entry(t), UNCHANGED poolVars
  PROVE  FreeInv'
<1>1. me[t].pc = "first"
  BY DEF insert_block_index_entry, At
<1>2. Outside(me[t]) /\ me[t].pc # "unindex"
  BY <1>1 DEF Outside, PoolSteps
<1>3. me[t].freed = << >> /\ DOMAIN me[t] = Locals /\ Shaped /\ PoolOK(me[t])
  BY <1>2, NoneFreed, FreeIs
<1>4. \/ /\ UNCHANGED producers
         /\ Go(t, "unindex", me[t])
      \/ /\ \E s, v : producers' = [producers EXCEPT ![me[t].producer].key[s] = v, ![me[t].producer].tail = s]
         /\ Go(t, "requisition", [me[t] EXCEPT !.back = "attach"])
  BY DEF insert_block_index_entry
<1>5. ValuesSame
  <2>1. \A p \in Names : p \in DOMAIN producers
    BY DEF QueueInv, CounterInv
  <2>2. CASE UNCHANGED producers
    BY <2>2 DEF ValuesSame
  <2>3. ASSUME NEW s, NEW v,
               producers' = [producers EXCEPT ![me[t].producer].key[s] = v, ![me[t].producer].tail = s]
        PROVE  ValuesSame
    BY <2>1, <2>3 DEF ValuesSame
  <2> QED  BY <1>4, <2>2, <2>3
<1>6. CASE Go(t, "unindex", me[t])
  BY <1>2, <1>3, <1>5, <1>6, FreeGo DEF PoolSteps
<1>7. CASE Go(t, "requisition", [me[t] EXCEPT !.back = "attach"])
  <2> DEFINE m == [me[t] EXCEPT !.back = "attach"]
  <2>1. /\ DOMAIN m = Locals /\ m.freed = me[t].freed /\ m.inGet = me[t].inGet /\ m.back = "attach"
        /\ Go(t, "requisition", m)
    BY <1>3, <1>7, PoolLocal DEF PoolLocals
  <2> HIDE DEF m
  <2>2. /\ Shaped' /\ Others(t) /\ me'[t].pc = "requisition" /\ me'[t].freed = << >>
        /\ me'[t].inGet = me[t].inGet /\ me'[t].back = "attach"
    BY <1>3, <2>1, GoPool DEF Others
  <2>3. me[t].inGet \in BOOLEAN /\ ~me[t].inGet
    <3>1. me[t].pc \notin PoolSteps
      BY <1>1 DEF PoolSteps
    <3> QED  BY <1>3, <3>1, Zenon DEF PoolOK
  <2>4. me'[t].inGet \in BOOLEAN /\ ~me'[t].inGet
    BY <2>2, <2>3, Zenon
  <2>5. PoolOK(me'[t])
    <3>1. /\ me'[t].pc \notin Getting /\ me'[t].pc # "drop" /\ me'[t].pc \notin Adding
          /\ me'[t].pc # "add" /\ me'[t].pc # "attach" /\ me'[t].pc # "hold" /\ me'[t].pc # "swap"
          /\ me'[t].pc \notin {"linknext", "linkrefs", "linkswap", "unlink"}
      BY <2>2 DEF Getting, Adding, Flagging
    <3>2. /\ me'[t].freed \in Seq(PoolBlocks)
          /\ \A i, j \in DOMAIN me'[t].freed : me'[t].freed[i] = me'[t].freed[j] => i = j
      BY <1>3, <2>2 DEF PoolOK
    <3> QED  BY <2>2, <2>4, <3>1, <3>2, ZenonT(30) DEF PoolOK
  <2>6. Hand(me'[t]) = None /\ \A b \in PoolBlocks : ~Refers(me'[t], b)
    BY <2>2 DEF Hand, Refers, Adding, Flagging
  <2>7. me'[t].freed = me[t].freed /\ me'[t].pc \notin {"swap", "linkrefs", "linkswap"}
    BY <1>3, <2>2
  <2> QED  BY <1>2, <1>5, <2>2, <2>5, <2>6, <2>7, OutsideIs, FreeIdle
<1> QED  BY <1>4, <1>6, <1>7

\* The block that an enqueue got goes into the index.
LEMMA AttachFreeOK ==
  ASSUME QueueInv, ClaimsPublished, FreeInv, IndexInv, NEW t \in Threads, Attach(t), UNCHANGED poolVars
  PROVE  FreeInv'
<1>0. PICK p, q, s, b :
        p = me[t].producer /\ q = producers[me[t].producer] /\ s = producers[me[t].producer].tail
        /\ b = me[t].block
  OBVIOUS
<1>1. me[t].pc = "attach" /\ Enqueuing(t)
  BY DEF Attach, At, Enqueuing
<1>2. /\ Shaped /\ DOMAIN me[t] = Locals /\ PoolOK(me[t]) /\ p \in Names
      /\ WriterOK(q, me[t], elementsCompletelyDequeued) /\ KeysOK(q)
      /\ Span(q.tailIndex) \in Nat /\ Len(me[t].blocks) \in Nat /\ me[t].freed = << >>
  BY <1>0, <1>1, WriterIs
<1>3. s \in Slots /\ q.value[s] = None
  <2>1. Gets(me[t]) /\ Extra(me[t]) = Len(me[t].blocks) + 1
    BY <1>1 DEF Gets, Extra
  <2>2. q.tail = Wrap(Span(q.tailIndex) + Len(me[t].blocks))
    <3>1. Span(q.tailIndex) + (Len(me[t].blocks) + 1) - 1 = Span(q.tailIndex) + Len(me[t].blocks)
      BY <1>2
    <3> QED  BY <1>2, <2>1, <3>1 DEF WriterOK, TailOK
  <2>3. EntryIs(q, Span(q.tailIndex) + Len(me[t].blocks), None)
    BY <1>2, <2>1 DEF WriterOK
  <2> QED  BY <1>0, <1>2, <2>2, <2>3 DEF EntryIs, KeysOK
<1>4. DOMAIN producers = Names
  BY DEF QueueInv, CounterInv
<1>5. /\ "value" \in DOMAIN q /\ DOMAIN q.value = Slots
  BY <1>2 DEF KeysOK, ImplicitProducer
<1>6. me[t].inGet \in BOOLEAN /\ ~me[t].inGet
  <2>1. me[t].pc \notin PoolSteps
    BY <1>1 DEF PoolSteps
  <2> QED  BY <1>2, <2>1, Zenon DEF PoolOK
<1>7. ASSUME NEW pc \in {"first", "unindex"}, NEW m, DOMAIN m = Locals, Go(t, pc, m), m.freed = << >>,
             m.inGet = me[t].inGet
      PROVE  /\ Shaped' /\ Others(t) /\ me'[t].pc = pc /\ me'[t].freed = << >> /\ PoolOK(me'[t])
             /\ Outside(me'[t])
  <2>1. /\ Shaped' /\ Others(t) /\ me'[t].pc = pc /\ me'[t].freed = << >> /\ me'[t].inGet = me[t].inGet
    BY <1>2, <1>7, GoPool DEF Others
  <2>2. me'[t].inGet \in BOOLEAN /\ ~me'[t].inGet
    BY <1>6, <2>1, Zenon
  <2>3. /\ me'[t].pc \notin Getting /\ me'[t].pc # "drop" /\ me'[t].pc \notin {"requisition", "take", "get", "drop"}
        /\ me'[t].pc \notin Adding /\ me'[t].pc # "add" /\ me'[t].pc # "attach" /\ me'[t].pc # "hold"
        /\ me'[t].pc # "swap" /\ me'[t].pc \notin {"linknext", "linkrefs", "linkswap", "unlink"}
    BY <1>7, <2>1 DEF Getting, Adding, Flagging
  <2>4. /\ me'[t].freed \in Seq(PoolBlocks)
        /\ \A i, j \in DOMAIN me'[t].freed : me'[t].freed[i] = me'[t].freed[j] => i = j
    BY <2>1
  <2>5. PoolOK(me'[t])
    BY <2>1, <2>2, <2>3, <2>4, ZenonT(30) DEF PoolOK
  <2>6. Outside(me'[t])
    BY <1>7, <2>1 DEF Outside, PoolSteps
  <2> QED  BY <2>1, <2>5, <2>6
<1>8. CASE b = None
  <2>1. producers' = [producers EXCEPT ![p] = Rewound(q, s)] /\ Go(t, "unindex", me[t])
    BY <1>0, <1>2, <1>4, <1>8 DEF Attach
  <2>2. ValuesSame
    <3>1. PICK r : r = Rewound(q, s)
      OBVIOUS
    <3>2. r.value = [q.value EXCEPT ![s] = None]
      BY <1>5, <3>1 DEF Rewound
    <3>3. \A x \in Slots : r.value[x] = q.value[x]
      BY <1>3, <1>5, <3>2
    <3>4. \A z \in Names : producers'[z] = IF z = p THEN r ELSE producers[z]
      BY <1>2, <1>4, <2>1, <3>1
    <3> QED  BY <1>0, <3>3, <3>4 DEF ValuesSame
  <2>3. /\ Shaped' /\ Others(t) /\ me'[t].pc = "unindex" /\ me'[t].freed = << >> /\ PoolOK(me'[t])
        /\ Outside(me'[t])
    BY <1>2, <1>7, <2>1
  <2>4. Hand(me[t]) = None /\ \A x \in PoolBlocks : ~Refers(me[t], x)
    BY <1>0, <1>1, <1>8 DEF Hand, Refers, Adding, Flagging
  <2> QED  BY <1>2, <2>2, <2>3, <2>4, OutsideIs, FreeIdle
<1>9. CASE b # None
  <2>0. b \in PoolBlocks
    BY <1>0, <1>1, <1>2, <1>9 DEF PoolOK
  <2>1. /\ producers' = [producers EXCEPT ![p].value[s] = b]
        /\ Go(t, "first", [me[t] EXCEPT !.blocks = Append(me[t].blocks, b)])
    BY <1>0, <1>9 DEF Attach
  <2> DEFINE m == [me[t] EXCEPT !.blocks = Append(me[t].blocks, b)]
  <2>2. Go(t, "first", m) /\ DOMAIN m = Locals /\ m.freed = << >> /\ m.inGet = me[t].inGet
    BY <1>2, <2>1, PoolLocal DEF PoolLocals
  <2> HIDE DEF m
  <2>3. /\ Shaped' /\ Others(t) /\ me'[t].pc = "first" /\ me'[t].freed = << >> /\ PoolOK(me'[t])
        /\ Outside(me'[t])
    BY <1>7, <2>2
  <2>4. /\ producers'[p].value[s] = b
        /\ \A r \in Names : \A y \in Slots :
             r # p \/ y # s => producers'[r].value[y] = producers[r].value[y]
    BY <1>0, <1>2, <1>3, <1>4, <1>5, <2>1
  <2>5. /\ Hand(me[t]) = b /\ (\A x \in PoolBlocks : ~Refers(me[t], x))
        /\ me[t].pc \notin Flagging \cup Listing
    BY <1>0, <1>1 DEF Hand, Refers, Adding, Flagging, Listing
  <2>6. /\ Hand(me'[t]) = None /\ (\A x \in PoolBlocks : ~Refers(me'[t], x))
        /\ me'[t].pc \notin Flagging \cup Listing
    BY <2>3, OutsideIs DEF Outside, PoolSteps, Flagging, Listing
  <2>7. Moves(t, p, s, b)
    BY <1>0, <1>2, <1>3, <2>3, <2>4, <2>5, <2>6 DEF Moves, InFreed
  <2>8. InHand(t, b)
    BY <2>5 DEF InHand
  <2>9. OneOfThem(t, p, s, b)'
    <3>1. ~InHand(t, b)' /\ ~InFreed(t, b)' /\ InEntry(p, s, b)'
      BY <2>0, <2>3, <2>4, <2>6, NotBlock DEF InHand, InFreed, InEntry
    <3> QED  BY <3>1 DEF OneOfThem
  <2> QED  BY <1>2, <1>3, <2>0, <2>3, <2>7, <2>8, <2>9, FreeMove
<1> QED  BY <1>8, <1>9

\* Sequences of different blocks: one more at the end, or the first taken off.
Distinct(s) == \A i, j \in DOMAIN s : s[i] = s[j] => i = j
\* One more block at the end.
LEMMA AppendNew ==
  ASSUME NEW s \in Seq(PoolBlocks), Distinct(s), NEW b \in PoolBlocks, ~ElementOf(s, b)
  PROVE  /\ Append(s, b) \in Seq(PoolBlocks) /\ Distinct(Append(s, b))
         /\ ElementOf(Append(s, b), b)
         /\ \A c : c # b => (ElementOf(Append(s, b), c) <=> ElementOf(s, c))
<1> DEFINE z == Append(s, b)
<1>0. \A i \in DOMAIN s : s[i] # b
  BY DEF ElementOf
<1>1. /\ z \in Seq(PoolBlocks) /\ DOMAIN s = 1 .. Len(s) /\ Len(s) \in Nat
      /\ DOMAIN z = 1 .. Len(s) + 1 /\ z[Len(s) + 1] = b
      /\ \A i \in 1 .. Len(s) : z[i] = s[i]
  OBVIOUS
<1> HIDE DEF z
<1>2. \A i, j \in DOMAIN z : z[i] = z[j] => i = j
  <2> SUFFICES ASSUME NEW i \in 1 .. Len(s) + 1, NEW j \in 1 .. Len(s) + 1, z[i] = z[j] PROVE i = j
    BY <1>1
  <2>1. CASE i \in 1 .. Len(s) /\ j \in 1 .. Len(s)
    BY <1>1, <2>1 DEF Distinct
  <2>2. CASE i = Len(s) + 1 \/ j = Len(s) + 1
    BY <1>0, <1>1, <2>2
  <2> QED  BY <1>1, <2>1, <2>2
<1>3. Len(s) + 1 \in DOMAIN z
  BY <1>1
<1>4. ASSUME NEW c, c # b PROVE (\E i \in DOMAIN z : z[i] = c) <=> (\E i \in DOMAIN s : s[i] = c)
  <2>1. ASSUME NEW i \in DOMAIN z, z[i] = c PROVE \E k \in DOMAIN s : s[k] = c
    <3>1. i \in DOMAIN s /\ s[i] = c
      BY <1>1, <1>4, <2>1
    <3> QED  BY <3>1
  <2>2. ASSUME NEW i \in DOMAIN s, s[i] = c PROVE \E k \in DOMAIN z : z[k] = c
    <3>1. i \in DOMAIN z /\ z[i] = c
      BY <1>1, <2>2
    <3> QED  BY <3>1
  <2> QED  BY <2>1, <2>2
<1> QED  BY <1>1, <1>2, <1>3, <1>4 DEF z, Distinct, ElementOf

\* The first taken off.
LEMMA TailOthers ==
  ASSUME NEW s \in Seq(PoolBlocks), s # << >>, Distinct(s)
  PROVE  /\ Tail(s) \in Seq(PoolBlocks) /\ Head(s) \in PoolBlocks /\ Distinct(Tail(s))
         /\ ElementOf(s, Head(s)) /\ ~ElementOf(Tail(s), Head(s))
         /\ \A c : c # Head(s) => (ElementOf(Tail(s), c) <=> ElementOf(s, c))
<1> DEFINE z == Tail(s)
           b == Head(s)
<1>1. /\ z \in Seq(PoolBlocks) /\ DOMAIN s = 1 .. Len(s) /\ Len(s) \in Nat \ {0}
      /\ DOMAIN z = 1 .. Len(s) - 1 /\ b = s[1] /\ b \in PoolBlocks
      /\ \A i \in 1 .. Len(s) - 1 : z[i] = s[i + 1] /\ i + 1 \in DOMAIN s
  OBVIOUS
<1> HIDE DEF z, b
<1>2. \A i, j \in DOMAIN z : z[i] = z[j] => i = j
  <2> SUFFICES ASSUME NEW i \in 1 .. Len(s) - 1, NEW j \in 1 .. Len(s) - 1, z[i] = z[j] PROVE i = j
    BY <1>1
  <2>1. i + 1 = j + 1
    BY <1>1 DEF Distinct
  <2> QED  BY <2>1
<1>3. 1 \in DOMAIN s /\ s[1] = b
  BY <1>1
<1>4. ASSUME NEW i \in DOMAIN z PROVE z[i] # b
  <2>1. i + 1 # 1 /\ z[i] = s[i + 1] /\ i + 1 \in DOMAIN s
    BY <1>1
  <2> QED  BY <1>3, <2>1 DEF Distinct
<1>5. ASSUME NEW c, c # b PROVE (\E i \in DOMAIN z : z[i] = c) <=> (\E i \in DOMAIN s : s[i] = c)
  <2>1. ASSUME NEW i \in DOMAIN z, z[i] = c PROVE \E k \in DOMAIN s : s[k] = c
    BY <1>1, <2>1
  <2>2. ASSUME NEW i \in DOMAIN s, s[i] = c PROVE \E k \in DOMAIN z : z[k] = c
    <3>1. i # 1
      BY <1>3, <1>5, <2>2
    <3>2. i - 1 \in DOMAIN z /\ z[i - 1] = s[i]
      BY <1>1, <3>1
    <3> QED  BY <2>2, <3>2
  <2> QED  BY <2>1, <2>2
<1> QED  BY <1>1, <1>2, <1>3, <1>4, <1>5 DEF z, b, Distinct, ElementOf

\* A failed bulk takes a block off the index.
LEMMA UnindexFreeOK ==
  ASSUME QueueInv, ClaimsPublished, FreeInv, IndexInv, NEW t \in Threads, Unindex(t), UNCHANGED poolVars
  PROVE  FreeInv'
<1>0. PICK p, q, s, b, f :
        /\ p = me[t].producer /\ q = producers[me[t].producer] /\ b = Head(me[t].blocks)
        /\ s = Wrap(Span(producers[me[t].producer].tailIndex) + Len(me[t].freed))
        /\ f = Append(me[t].freed, Head(me[t].blocks))
  OBVIOUS
<1>1. me[t].pc = "unindex" /\ Enqueuing(t)
  BY DEF Unindex, At, Enqueuing
<1>2. /\ Shaped /\ DOMAIN me[t] = Locals /\ PoolOK(me[t]) /\ p \in Names /\ KeysOK(q)
  BY <1>0, <1>1, WriterIs
<1>3. /\ producers' = [producers EXCEPT ![p] = Rewound(q, s)] /\ s \in Slots
      /\ q.value[s] = b /\ b \in PoolBlocks
  BY <1>0, UnindexIs DEF EntryIs
<1>4. DOMAIN producers = Names
  BY DEF QueueInv, CounterInv
<1>5. /\ "value" \in DOMAIN q /\ DOMAIN q.value = Slots
  BY <1>2 DEF KeysOK, ImplicitProducer
<1>6. /\ producers'[p].value[s] = None
      /\ \A r \in Names : \A y \in Slots :
           r # p \/ y # s => producers'[r].value[y] = producers[r].value[y]
  <2>1. PICK r : r = Rewound(q, s)
    OBVIOUS
  <2>2. r.value = [q.value EXCEPT ![s] = None]
    BY <1>5, <2>1 DEF Rewound
  <2>3. r.value[s] = None /\ \A x \in Slots \ {s} : r.value[x] = q.value[x]
    BY <1>3, <1>5, <2>2
  <2>4. \A z \in Names : producers'[z] = IF z = p THEN r ELSE producers[z]
    BY <1>2, <1>3, <1>4, <2>1
  <2> QED  BY <1>0, <1>2, <2>3, <2>4
<1>7. InEntry(p, s, b) /\ ~InFreed(t, b)
  <2>1. InEntry(p, s, b)
    BY <1>0, <1>3 DEF InEntry
  <2>2. OnePlace(b)
    BY <1>3 DEF FreeInv, ListIs
  <2> QED  BY <1>2, <1>3, <2>1, <2>2 DEF OnePlace, OnlyEntry
<1>8. /\ f \in Seq(PoolBlocks) /\ Distinct(f) /\ ElementOf(f, b)
      /\ \A c : c # b => (ElementOf(f, c) <=> ElementOf(me[t].freed, c))
  <2>1. me[t].freed \in Seq(PoolBlocks) /\ Distinct(me[t].freed)
    BY <1>2 DEF PoolOK, Distinct
  <2>2. ~ElementOf(me[t].freed, b)
    BY <1>7 DEF InFreed, ElementOf
  <2> QED  BY <1>0, <1>3, <2>1, <2>2, AppendNew
<1> DEFINE m == [me[t] EXCEPT !.blocks = Tail(me[t].blocks), !.freed = f]
<1>9. Go(t, "unindex", m) /\ DOMAIN m = Locals /\ m.freed = f /\ m.inGet = me[t].inGet
  BY <1>0, <1>2, PoolLocal DEF Unindex, PoolLocals
<1> HIDE DEF m
<1>10. /\ Shaped' /\ Others(t) /\ me'[t].pc = "unindex" /\ me'[t].freed = f
       /\ me'[t].inGet = me[t].inGet
  BY <1>2, <1>9, GoPool DEF Others
<1>11. PoolOK(me'[t])
  <2>1. me[t].pc \notin PoolSteps
    BY <1>1 DEF PoolSteps
  <2>2. me'[t].inGet \in BOOLEAN /\ ~me'[t].inGet
    BY <1>2, <1>10, <2>1, Zenon DEF PoolOK
  <2>3. /\ me'[t].pc \notin Getting /\ me'[t].pc # "drop" /\ me'[t].pc \notin {"requisition", "take", "get", "drop"}
        /\ me'[t].pc \notin Adding /\ me'[t].pc # "add" /\ me'[t].pc # "attach" /\ me'[t].pc # "hold"
        /\ me'[t].pc # "swap" /\ me'[t].pc \notin {"linknext", "linkrefs", "linkswap", "unlink"}
    BY <1>10 DEF Getting, Adding, Flagging
  <2>4. /\ me'[t].freed \in Seq(PoolBlocks)
        /\ \A i, j \in DOMAIN me'[t].freed : me'[t].freed[i] = me'[t].freed[j] => i = j
    BY <1>8, <1>10 DEF Distinct
  <2> QED  BY <1>10, <2>2, <2>3, <2>4, ZenonT(30) DEF PoolOK
<1>12. /\ Outside(me[t]) /\ Outside(me'[t])
  BY <1>1, <1>10 DEF Outside, PoolSteps
<1>13. /\ Hand(me[t]) = None /\ Hand(me'[t]) = None
       /\ \A c \in PoolBlocks : ~Refers(me[t], c) /\ ~Refers(me'[t], c)
  BY <1>12, OutsideIs
<1>14. Moves(t, p, s, b)
  <2>1. me[t].pc \notin Flagging \cup Listing /\ me'[t].pc \notin Flagging \cup Listing
    BY <1>1, <1>10 DEF Flagging, Listing
  <2>2. \A c \in PoolBlocks \ {b} : InFreed(t, c)' <=> InFreed(t, c)
    BY <1>8, <1>10 DEF InFreed, ElementOf
  <2> QED  BY <1>0, <1>3, <1>6, <1>13, <2>1, <2>2 DEF Moves
<1>15. OneOfThem(t, p, s, b)'
  <2>1. ~InHand(t, b)' /\ InFreed(t, b)' /\ ~InEntry(p, s, b)'
    BY <1>3, <1>6, <1>8, <1>10, <1>13, NotBlock DEF InHand, InFreed, InEntry, ElementOf
  <2> QED  BY <2>1 DEF OneOfThem
<1> QED  BY <1>2, <1>3, <1>7, <1>10, <1>11, <1>14, <1>15, FreeMove

\* It adds a block that it took off to the free list.
LEMMA AddBlocksFreeOK ==
  ASSUME QueueInv, ClaimsPublished, FreeInv, IndexInv, NEW t \in Threads, add_blocks_to_free_list(t),
         UNCHANGED poolVars
  PROVE  FreeInv'
<1>0. PICK p, s, b, f :
        /\ p = me[t].producer /\ s = producers[me[t].producer].tail /\ b = Head(me[t].freed)
        /\ f = Tail(me[t].freed)
  OBVIOUS
<1>1. /\ me[t].pc = "unindex" /\ me[t].freed # << >> /\ Enqueuing(t) /\ UNCHANGED producers
  BY DEF add_blocks_to_free_list, At, Enqueuing, queueVars
<1>2. /\ Shaped /\ DOMAIN me[t] = Locals /\ PoolOK(me[t]) /\ p \in Names /\ KeysOK(producers[p])
  BY <1>0, <1>1, WriterIs
<1>3. s \in Slots
  BY <1>0, <1>2 DEF KeysOK
<1>4. /\ f \in Seq(PoolBlocks) /\ b \in PoolBlocks /\ Distinct(f)
      /\ ElementOf(me[t].freed, b) /\ ~ElementOf(f, b)
      /\ \A c : c # b => (ElementOf(f, c) <=> ElementOf(me[t].freed, c))
  <2>1. me[t].freed \in Seq(PoolBlocks) /\ Distinct(me[t].freed)
    BY <1>2 DEF PoolOK, Distinct
  <2> QED  BY <1>0, <1>1, <2>1, TailOthers
<1> DEFINE m == [me[t] EXCEPT !.node = b, !.freed = f, !.back = "unindex"]
<1>5. /\ Go(t, "add", m) /\ DOMAIN m = Locals /\ m.freed = f /\ m.inGet = me[t].inGet /\ m.node = b
      /\ m.back = "unindex"
  BY <1>0, <1>2, PoolLocal DEF add_blocks_to_free_list, PoolLocals
<1> HIDE DEF m
<1>6. /\ Shaped' /\ Others(t) /\ me'[t].pc = "add" /\ me'[t].freed = f
      /\ me'[t].inGet = me[t].inGet /\ me'[t].node = b /\ me'[t].back = "unindex"
  BY <1>2, <1>5, GoPool DEF Others
<1>7. PoolOK(me'[t])
  <2>1. me[t].pc \notin PoolSteps
    BY <1>1 DEF PoolSteps
  <2>2. me'[t].inGet \in BOOLEAN /\ ~me'[t].inGet
    BY <1>2, <1>6, <2>1, Zenon DEF PoolOK
  <2>3. /\ me'[t].pc \notin Getting /\ me'[t].pc # "drop" /\ me'[t].pc \notin {"requisition", "take", "get", "drop"}
        /\ me'[t].pc # "attach" /\ me'[t].pc # "hold" /\ me'[t].pc # "swap"
        /\ me'[t].pc \notin {"linknext", "linkrefs", "linkswap", "unlink"}
    BY <1>6 DEF Getting
  <2>4. /\ me'[t].freed \in Seq(PoolBlocks)
        /\ \A i, j \in DOMAIN me'[t].freed : me'[t].freed[i] = me'[t].freed[j] => i = j
    BY <1>4, <1>6 DEF Distinct
  <2>5. me'[t].pc \in PoolSteps /\ CallsPool(me'[t], "unindex")
    BY <1>6 DEF PoolSteps, CallsPool
  <2>6. me'[t].node \in PoolBlocks /\ me'[t].back \in {"unindex", "freed"}
    BY <1>4, <1>6
  <2> QED  BY <2>2, <2>3, <2>4, <2>5, <2>6, ZenonT(30) DEF PoolOK
<1>8. Moves(t, p, s, b)
  <2>1. me[t].pc \notin Flagging \cup Listing /\ me'[t].pc \notin Flagging \cup Listing
    BY <1>1, <1>6 DEF Flagging, Listing
  <2>2. \A c \in PoolBlocks \ {b} : InFreed(t, c)' <=> InFreed(t, c)
    BY <1>4, <1>6 DEF InFreed, ElementOf
  <2>3. /\ Hand(me[t]) = None /\ Hand(me'[t]) = b
        /\ \A c \in PoolBlocks : ~Refers(me[t], c) /\ ~Refers(me'[t], c)
    BY <1>1, <1>6 DEF Hand, Refers, Adding, Flagging
  <2> QED  BY <1>1, <2>1, <2>2, <2>3 DEF Moves
<1>9. InFreed(t, b)
  BY <1>4 DEF InFreed, ElementOf
<1>10. OneOfThem(t, p, s, b)'
  <2>1. ~InEntry(p, s, b)
    <3>1. OnePlace(b)
      BY <1>4 DEF FreeInv, ListIs
    <3> QED  BY <1>2, <1>3, <1>9, <3>1 DEF OnePlace, OnlyFreed
  <2>2. ~InEntry(p, s, b)'
    BY <1>1, <2>1 DEF InEntry
  <2>3. InHand(t, b)' /\ ~InFreed(t, b)'
    BY <1>4, <1>6 DEF InHand, Hand, Adding, InFreed, ElementOf
  <2> QED  BY <2>2, <2>3 DEF OneOfThem
<1> QED  BY <1>2, <1>3, <1>4, <1>6, <1>7, <1>8, <1>9, <1>10, FreeMove

\* A dequeue takes the block it emptied off the index, to add it to the free list.
LEMMA DetachFreeOK ==
  ASSUME QueueInv, ClaimsPublished, FreeInv, IndexInv, NEW t \in Threads, Detach(t), UNCHANGED poolVars
  PROVE  FreeInv'
<1>0. PICK p, q, k, s, b :
        /\ p = me[t].ptr /\ q = producers[me[t].ptr] /\ k = Blk(me[t].index - 1) /\ s = me[t].slot
        /\ b = me[t].block
  OBVIOUS
<1>1. /\ me[t].pc = "detach" /\ producers' = [producers EXCEPT ![p].value[s] = None]
  BY <1>0 DEF Detach, At
<1>2. /\ Shaped /\ DOMAIN me[t] = Locals /\ PoolOK(me[t])
  BY FreeIs
<1>3. /\ p \in Names /\ k \in 0 .. Span(q.tailIndex) - 1 /\ s = Wrap(k)
      /\ EntryIs(q, k, b) /\ b \in PoolBlocks
  BY <1>0, <1>1, TakerBlock
<1>4. s \in Slots /\ q.value[s] = b /\ KeysOK(q) /\ DOMAIN producers = Names
  <2>1. k \in Int
    BY <1>3
  <2>2. KeysOK(q)
    BY <1>0, <1>3 DEF IndexInv, IndexOK
  <2> QED  BY <1>3, <2>1, <2>2, WrapIs DEF EntryIs, QueueInv, CounterInv
<1>5. /\ producers'[p].value[s] = None
      /\ \A r \in Names : \A y \in Slots :
           r # p \/ y # s => producers'[r].value[y] = producers[r].value[y]
  <2>1. "value" \in DOMAIN q /\ DOMAIN q.value = Slots
    BY <1>4 DEF KeysOK, ImplicitProducer
  <2> QED  BY <1>0, <1>1, <1>3, <1>4, <2>1
<1> DEFINE m == [me[t] EXCEPT !.node = b, !.back = "freed"]
<1>6. /\ Go(t, "add", m) /\ DOMAIN m = Locals /\ m.freed = me[t].freed /\ m.inGet = me[t].inGet
      /\ m.node = b /\ m.back = "freed"
  BY <1>0, <1>2, PoolLocal DEF Detach, PoolLocals
<1> HIDE DEF m
<1>7. me[t].freed = << >>
  <2>1. Outside(me[t])
    BY <1>1 DEF Outside, PoolSteps
  <2> QED  BY <1>1, <2>1, NoneFreed
<1>8. /\ Shaped' /\ Others(t) /\ me'[t].pc = "add" /\ me'[t].freed = << >>
      /\ me'[t].inGet = me[t].inGet /\ me'[t].node = b /\ me'[t].back = "freed"
  BY <1>2, <1>6, <1>7, GoPool DEF Others
<1>9. PoolOK(me'[t])
  <2>1. me[t].pc \notin PoolSteps
    BY <1>1 DEF PoolSteps
  <2>2. me'[t].inGet \in BOOLEAN /\ ~me'[t].inGet
    BY <1>2, <1>8, <2>1, Zenon DEF PoolOK
  <2>3. /\ me'[t].pc \notin Getting /\ me'[t].pc # "drop" /\ me'[t].pc \notin {"requisition", "take", "get", "drop"}
        /\ me'[t].pc # "attach" /\ me'[t].pc # "hold" /\ me'[t].pc # "swap"
        /\ me'[t].pc \notin {"linknext", "linkrefs", "linkswap", "unlink"}
    BY <1>8 DEF Getting
  <2>4. /\ me'[t].freed \in Seq(PoolBlocks)
        /\ \A i, j \in DOMAIN me'[t].freed : me'[t].freed[i] = me'[t].freed[j] => i = j
    BY <1>8
  <2>5. me'[t].pc \in PoolSteps /\ me'[t].freed = << >>
    BY <1>8 DEF PoolSteps
  <2>6. me'[t].node \in PoolBlocks /\ me'[t].back \in {"unindex", "freed"}
    BY <1>3, <1>8
  <2> QED  BY <2>2, <2>3, <2>4, <2>5, <2>6, ZenonT(30) DEF PoolOK
<1>10. Moves(t, p, s, b)
  <2>1. me[t].pc \notin Flagging \cup Listing /\ me'[t].pc \notin Flagging \cup Listing
    BY <1>1, <1>8 DEF Flagging, Listing
  <2>2. \A c \in PoolBlocks \ {b} : InFreed(t, c)' <=> InFreed(t, c)
    BY <1>7, <1>8 DEF InFreed
  <2>3. /\ Hand(me[t]) = None /\ Hand(me'[t]) = b
        /\ \A c \in PoolBlocks : ~Refers(me[t], c) /\ ~Refers(me'[t], c)
    BY <1>1, <1>8 DEF Hand, Refers, Adding, Flagging
  <2> QED  BY <1>0, <1>4, <1>5, <2>1, <2>2, <2>3 DEF Moves
<1>11. InEntry(p, s, b)
  BY <1>0, <1>4 DEF InEntry
<1>12. OneOfThem(t, p, s, b)'
  <2>1. ~InEntry(p, s, b)'
    BY <1>3, <1>5, NotBlock DEF InEntry
  <2>2. InHand(t, b)' /\ ~InFreed(t, b)'
    BY <1>8 DEF InHand, Hand, Adding, InFreed
  <2> QED  BY <2>1, <2>2 DEF OneOfThem
<1> QED  BY <1>3, <1>4, <1>8, <1>9, <1>10, <1>11, <1>12, FreeMove

-----------------------------------------------------------------------------
(* The free list: every step.                                              *)

\* A step of a thread keeps the invariant.
LEMMA FreeStep ==
  ASSUME QueueInv, ClaimsPublished, FreeInv, IndexInv, NEW t \in Threads, Step(t)
  PROVE  FreeInv'
<1>1. CASE PoolStep(t) /\ UNCHANGED <<hashVars, todo, queueVars>>
  <2>1. UNCHANGED producers
    BY <1>1 DEF queueVars
  <2> QED  BY <1>1, <2>1, PoolStepOK
<1>2. CASE HashStep(t) /\ UNCHANGED <<poolVars, todo, queueVars>>
  <2>1. UNCHANGED <<poolVars, producers>>
    BY <1>2 DEF queueVars
  <2> QED  BY <1>2, <2>1, HashFreeOK
<1>3. CASE PutStep(t) /\ UNCHANGED <<poolVars, hashVars>>
  BY <1>3, EnqueueFreeOK, InsertFreeOK, AttachFreeOK, UnindexFreeOK, AddBlocksFreeOK, RefusedFreeOK,
     PublishFreeOK, Zenon
  DEF PutStep
<1>4. CASE TakeStep(t) /\ UNCHANGED <<poolVars, hashVars>>
  <2>1. \/ Walking(t)
        \/ FindTail(t) \/ FindKey(t) \/ Move(t)
        \/ set_many_empty(t) \/ Freed(t)
        \/ Detach(t)
    BY <1>4 DEF TakeStep, Walking
  <2> QED  BY <1>4, <2>1, WalkFreeOK, FindFreeOK, EmptiedFreeOK, DetachFreeOK, Zenon
<1> QED  BY <1>1, <1>2, <1>3, <1>4 DEF Step

\* The invariant is about these variables only.
LEMMA FreeVars ==
  ASSUME FreeInv, UNCHANGED <<me, poolVars, producers>>
  PROVE  FreeInv'
<1>1. UNCHANGED <<freeListHead, freeListRefs, freeListNext, initialBlockPoolSize, initialBlockPoolIndex>>
  BY DEF poolVars, initialPool
<1>2. Shaped' /\ ListTypes' /\ \A t \in Threads : PoolOK(me'[t]) /\ ReadOK(t)'
  BY <1>1 DEF FreeInv, Shaped, ListTypes, PoolBlocks, ReadOK
<1>3. PICK s \in Seq(PoolBlocks) : ListIs(s)
  BY DEF FreeInv
<1>4. ChainIs(s)'
  BY <1>1, <1>3 DEF ListIs, ChainIs, PoolBlocks
<1>5. ASSUME NEW b \in PoolBlocks
      PROVE  OnePlace(b)' /\ CountIs(s, b)'
  <2>1. OnePlace(b) /\ CountIs(s, b)
    BY <1>3 DEF ListIs
  <2>2. /\ Unused(b)' <=> Unused(b)
        /\ Referring(b)' = Referring(b) /\ References(b)' = References(b)
        /\ \A t \in Threads : /\ InHand(t, b)' <=> InHand(t, b)
                              /\ InFreed(t, b)' <=> InFreed(t, b)
                              /\ HeldCount(t, b)' <=> HeldCount(t, b)
        /\ \A p \in Names : \A x \in Slots : InEntry(p, x, b)' <=> InEntry(p, x, b)
    <3>1. Referring(b)' = Referring(b)
      BY DEF Referring
    <3>2. References(b)' = References(b)
      BY <3>1 DEF References
    <3>3. \A t \in Threads : HeldCount(t, b)' <=> HeldCount(t, b)
      BY <1>1, <3>1, <3>2 DEF HeldCount
    <3> QED  BY <1>1, <3>1, <3>2, <3>3 DEF Unused, InHand, InFreed, InEntry
  <2>3. Loose(b)' <=> Loose(b)
    BY <2>2 DEF Loose
  <2>4. OnePlace(b)'
    BY <2>1, <2>2 DEF OnePlace, OnlyUnused, OnlyHand, OnlyFreed, OnlyEntry
  <2>5. CountIs(s, b)'
    BY <1>1, <2>1, <2>2, <2>3 DEF CountIs, ElementOf
  <2> QED  BY <2>4, <2>5
<1>6. ListIs(s)'
  BY <1>4, <1>5 DEF ListIs, PoolBlocks
<1>7. (\E x \in Seq(PoolBlocks) : ListIs(x))'
  BY <1>6 DEF PoolBlocks
<1>8. (\A t \in Threads : PoolOK(me[t]) /\ ReadOK(t))'
  BY <1>2 DEF PoolOK
<1> QED  BY <1>2, <1>7, <1>8 DEF FreeInv

\* Every step of the specification keeps the invariant.
LEMMA FreeNext ==
  ASSUME QueueInv, ClaimsPublished, FreeInv, IndexInv, [Next]_vars
  PROVE  FreeInv'
<1>1. UNCHANGED vars => FreeInv'
  BY FreeVars DEF vars, queueVars
<1>2. ASSUME NEW t \in Threads, Step(t) PROVE FreeInv'
  BY <1>2, FreeStep
<1> QED  BY <1>1, <1>2 DEF Next, Terminated

\* At first every block is in the unused part of the pool.
LEMMA FreeInit == Init => FreeInv
<1> SUFFICES ASSUME Init PROVE FreeInv
  OBVIOUS
<1>1. /\ workload.pool \in 0 .. Blocks /\ initialBlockPoolSize = workload.pool /\ initialBlockPoolIndex = 0
      /\ freeListHead = None /\ freeListRefs = [b \in PoolBlocks |-> 0]
      /\ freeListNext = [b \in PoolBlocks |-> None]
  BY QueueAssumption DEF Init, BlockPoolInit, PoolBlocks
<1>2. \A t \in Threads : me[t] = [Idle EXCEPT !.failing = workload.failing]
  BY DEF Init
<1>3. ASSUME NEW t \in Threads
      PROVE  /\ DOMAIN me[t] = Locals /\ me[t].pc = "idle" /\ me[t].freed = << >> /\ me[t].inGet = FALSE
  BY <1>2 DEF Idle, Locals
<1>4. Shaped
  BY <1>3 DEF Shaped, Init
<1>5. ListTypes
  BY <1>1 DEF ListTypes
<1>6. ASSUME NEW t \in Threads
      PROVE  /\ PoolOK(me[t]) /\ ReadOK(t) /\ Hand(me[t]) = None
             /\ \A b \in PoolBlocks : ~Refers(me[t], b)
  <2>1. me[t].inGet \in BOOLEAN /\ ~me[t].inGet
    BY <1>3, Zenon
  <2>2. /\ me[t].pc \notin Getting /\ me[t].pc # "drop" /\ me[t].pc \notin {"requisition", "take", "get", "drop"}
        /\ me[t].pc \notin Adding /\ me[t].pc # "add" /\ me[t].pc # "attach" /\ me[t].pc # "hold"
        /\ me[t].pc # "swap" /\ me[t].pc \notin {"linknext", "linkrefs", "linkswap", "unlink"}
    BY <1>3 DEF Getting, Adding, Flagging
  <2>3. /\ me[t].freed \in Seq(PoolBlocks)
        /\ \A i, j \in DOMAIN me[t].freed : me[t].freed[i] = me[t].freed[j] => i = j
    <3>1. PICK f : f = me[t].freed
      OBVIOUS
    <3>2. f = << >>
      BY <1>3, <3>1
    <3>3. f \in Seq(PoolBlocks) /\ \A i, j \in DOMAIN f : f[i] = f[j] => i = j
      BY ONLY <3>2
    <3> QED  BY <3>1, <3>3
  <2>4. PoolOK(me[t])
    BY <1>3, <2>1, <2>2, <2>3, ZenonT(30) DEF PoolOK
  <2> QED  BY <1>3, <2>4 DEF ReadOK, Hand, Refers, Adding, Flagging
<1>7. ChainIs(<< >>) /\ << >> \in Seq(PoolBlocks)
  BY <1>1 DEF ChainIs
<1>8. ASSUME NEW b \in PoolBlocks
      PROVE  OnePlace(b) /\ CountIs(<< >>, b)
  <2>1. Unused(b)
    BY <1>1 DEF Unused, PoolBlocks
  <2>2. \A t \in Threads : ~InHand(t, b) /\ ~InFreed(t, b)
    <3> SUFFICES ASSUME NEW t \in Threads PROVE ~InHand(t, b) /\ ~InFreed(t, b)
      OBVIOUS
    <3>1. ~InHand(t, b)
      BY <1>6, NotBlock DEF InHand
    <3>2. PICK f : f = me[t].freed
      OBVIOUS
    <3>3. f = << >>
      BY <1>3, <3>2
    <3>4. ~ \E i \in DOMAIN f : f[i] = b
      BY ONLY <3>3
    <3> QED  BY <3>1, <3>2, <3>4 DEF InFreed
  <2>3. \A p \in Names : \A s \in Slots : ~InEntry(p, s, b)
    BY NotBlock DEF Init, ImplicitProducer, InEntry
  <2>4. Referring(b) = {} /\ freeListRefs[b] = 0 /\ ~ElementOf(<< >>, b) /\ ~Loose(b)
    BY <1>1, <1>6, <2>1 DEF Referring, ElementOf, Loose
  <2> QED  BY <2>1, <2>2, <2>3, <2>4 DEF OnePlace, OnlyUnused, CountIs
<1>9. ListIs(<< >>)
  BY <1>7, <1>8 DEF ListIs
<1> QED  BY <1>4, <1>5, <1>6, <1>7, <1>9 DEF FreeInv

-----------------------------------------------------------------------------
(* The places of a block.                                                  *)

\* The pool has the size that the constructor was given.
PoolSizeInv == workload.pool \in 0 .. Blocks /\ initialBlockPoolSize = workload.pool

\* It is set once.
LEMMA PoolSizeNext ==
  ASSUME PoolSizeInv, [Next]_vars
  PROVE  PoolSizeInv'
<1>1. UNCHANGED <<workload, initialBlockPoolSize>>
  <2>1. UNCHANGED vars => UNCHANGED <<workload, initialBlockPoolSize>>
    BY DEF vars, poolVars, initialPool
  <2>2. ASSUME NEW t \in Threads, PoolStep(t) PROVE UNCHANGED initialBlockPoolSize
    BY <2>2 DEF PoolStep, PoolLoad, PoolTake, GetHead, GetRefs, GetHold, GetNext, GetSwap, GetTaken,
                GetDrop, AddFlag, LinkHead, LinkNext, LinkRefs, LinkSwap, Unlink, poolVars, initialPool
  <2>3. UNCHANGED poolVars => UNCHANGED initialBlockPoolSize
    BY DEF poolVars, initialPool
  <2>4. ASSUME NEW t \in Threads, Step(t) PROVE UNCHANGED <<workload, initialBlockPoolSize>>
    BY <2>2, <2>3, <2>4 DEF Step
  <2> QED  BY <2>1, <2>4 DEF Next, Terminated
<1> QED  BY <1>1 DEF PoolSizeInv

\* At first it has it.
LEMMA PoolSizeInit == Init => PoolSizeInv
BY QueueAssumption DEF Init, BlockPoolInit, PoolSizeInv

\* The walk of OnList along the list gives its elements, then None.
LEMMA WalkIs ==
  ASSUME NEW s \in Seq(PoolBlocks), ChainIs(s)
  PROVE  \A n \in 0 .. Blocks : OnList[n] = IF n < Len(s) THEN s[n + 1] ELSE None
<1> DEFINE G(f) == [n \in 0 .. Blocks |->
                      IF n = 0 THEN freeListHead
                      ELSE IF f[n - 1] = None THEN None ELSE freeListNext[f[n - 1]]]
           g == [n \in 0 .. Blocks |-> IF n < Len(s) THEN s[n + 1] ELSE None]
<1>0. Blocks \in Nat /\ Len(s) \in Nat /\ DOMAIN s = 1 .. Len(s)
  BY PoolAssumption
<1>1. g = G(g)
  <2> SUFFICES ASSUME NEW n \in 0 .. Blocks PROVE g[n] = G(g)[n]
    OBVIOUS
  <2>1. CASE n = 0
    BY <1>0, <2>1 DEF ChainIs
  <2>2. CASE n # 0 /\ n - 1 < Len(s)
    <3>1. n \in DOMAIN s /\ g[n - 1] = s[n] /\ s[n] \in PoolBlocks
      BY <1>0, <2>2
    <3>2. g[n - 1] # None
      BY <3>1, NotBlock
    <3>3. freeListNext[s[n]] = IF n = Len(s) THEN None ELSE s[n + 1]
      BY <3>1 DEF ChainIs
    <3>4. G(g)[n] = freeListNext[s[n]]
      BY <2>2, <3>1, <3>2
    <3>5. g[n] = IF n = Len(s) THEN None ELSE s[n + 1]
      <4>1. n \in Nat /\ n # 0 /\ n - 1 < Len(s) /\ Len(s) \in Nat
        BY <1>0, <2>2
      <4>3. n < Len(s) <=> n # Len(s)
        BY ONLY <4>1
      <4>2. g[n] = IF n < Len(s) THEN s[n + 1] ELSE None
        OBVIOUS
      <4> QED  BY <4>2, <4>3
    <3> HIDE DEF g, G
    <3> QED  BY <3>3, <3>4, <3>5
  <2>3. CASE n # 0 /\ ~(n - 1 < Len(s))
    <3>1. n \in Nat /\ n - 1 \in 0 .. Blocks /\ ~(n < Len(s))
      BY <1>0, <2>3
    <3>2. g[n - 1] = None /\ g[n] = None
      BY <2>3, <3>1
    <3> HIDE DEF g
    <3>3. G(g)[n] = None
      BY <2>3, <3>2
    <3> QED  BY <3>2, <3>3
  <2> QED  BY <2>1, <2>2, <2>3
<1>2. OnList = CHOOSE f : f = G(f)
  BY DEF OnList
<1>3. OnList = G(OnList)
  <2>1. \E f : f = G(f)
    BY <1>1
  <2> HIDE DEF G
  <2> QED  BY <1>2, <2>1
<1>4. PICK w : w = OnList
  OBVIOUS
<1> DEFINE D == {n \in 0 .. Blocks : w[n] # g[n]}
<1>5. SUFFICES D = {}
  BY <1>4
<1>6. SUFFICES ASSUME D # {} PROVE FALSE
  OBVIOUS
<1>7. PICK d \in D : \A e \in D : ~ (<<e, d>> \in OpToRel(<, Nat))
  <2>1. D \subseteq Nat
    OBVIOUS
  <2> HIDE DEF D
  <2> QED  BY <1>6, <2>1, NatLessThanWellFounded, WFMin
<1>8. d = 0 \/ d - 1 \notin D
  <2>1. ASSUME d # 0, d - 1 \in D PROVE FALSE
    <3>1. ~ (<<d - 1, d>> \in OpToRel(<, Nat))
      BY <1>7, <2>1
    <3> QED  BY <2>1, <3>1 DEF OpToRel
  <2> QED  BY <2>1
<1>9. d = 0 \/ w[d - 1] = g[d - 1]
  <2>1. d \in 0 .. Blocks /\ (d # 0 => d - 1 \in 0 .. Blocks)
    BY <1>0
  <2> HIDE DEF g
  <2> QED  BY <1>8, <2>1
<1>10. w[d] = G(w)[d] /\ g[d] = G(g)[d]
  BY <1>1, <1>3, <1>4
<1>11. G(w)[d] = G(g)[d]
  BY <1>9
<1> QED  BY <1>10, <1>11

\* A list has no more elements than there are blocks.
LEMMA ListFits ==
  ASSUME NEW s \in Seq(PoolBlocks), ChainIs(s)
  PROVE  Len(s) <= Blocks
<1>1. s \in [1 .. Len(s) -> PoolBlocks] /\ Len(s) \in Nat /\ Blocks \in Nat
  BY PoolAssumption
<1>2. IsFiniteSet(1 .. Len(s)) /\ Cardinality(1 .. Len(s)) = Len(s)
  <2>1. 1 \in Int /\ Len(s) \in Int /\ Len(s) - 1 + 1 = Len(s)
    BY <1>1
  <2>2. IsFiniteSet(1 .. Len(s)) /\ Cardinality(1 .. Len(s)) = IF 1 > Len(s) THEN 0 ELSE Len(s) - 1 + 1
    BY <2>1, FS_Interval
  <2> QED  BY <1>1, <2>2
<1>3. IsFiniteSet(PoolBlocks) /\ Cardinality(PoolBlocks) = Blocks
  BY <1>1, FS_Interval DEF PoolBlocks
<1>4. SUFFICES ASSUME Cardinality(PoolBlocks) < Cardinality(1 .. Len(s)) PROVE FALSE
  BY <1>1, <1>2, <1>3
<1>5. PICK x, y \in 1 .. Len(s) : x # y /\ s[x] = s[y]
  BY <1>1, <1>2, <1>3, <1>4, FS_PigeonHole
<1> QED  BY <1>5 DEF ChainIs

\* A block is found on the list once.
LEMMA FoundOnce ==
  ASSUME NEW s \in Seq(PoolBlocks), ChainIs(s), NEW b \in PoolBlocks
  PROVE  /\ ElementOf(s, b) => \E k \in 0 .. Blocks : \A n \in 0 .. Blocks : OnList[n] = b <=> n = k
         /\ ~ElementOf(s, b) => \A n \in 0 .. Blocks : OnList[n] # b
<1>1. Len(s) \in Nat /\ Blocks \in Nat /\ DOMAIN s = 1 .. Len(s) /\ Len(s) <= Blocks /\ b # None
  BY PoolAssumption, ListFits, NotBlock
<1>2. \A n \in 0 .. Blocks : OnList[n] = b <=> n < Len(s) /\ s[n + 1] = b
  BY <1>1, WalkIs
<1>3. ASSUME ElementOf(s, b)
      PROVE  \E k \in 0 .. Blocks : \A n \in 0 .. Blocks : OnList[n] = b <=> n = k
  <2>1. PICK i \in DOMAIN s : s[i] = b
    BY <1>3 DEF ElementOf
  <2>2. \A j \in DOMAIN s : s[j] = b => j = i
    BY <2>1 DEF ChainIs
  <2>3. i - 1 \in 0 .. Blocks /\ i \in Nat
    BY <1>1
  <2>4. ASSUME NEW n \in 0 .. Blocks PROVE OnList[n] = b <=> n = i - 1
    <3>1. CASE n < Len(s)
      BY <1>1, <1>2, <2>1, <2>2, <3>1
    <3>2. CASE ~(n < Len(s))
      BY <1>1, <1>2, <2>1, <3>2
    <3> QED  BY <3>1, <3>2
  <2> QED  BY <2>3, <2>4
<1>4. ASSUME ~ElementOf(s, b), NEW n \in 0 .. Blocks PROVE OnList[n] # b
  BY <1>1, <1>2, <1>4 DEF ElementOf
<1> QED  BY <1>3, <1>4

\* What BlocksAccounted counts for a block.
PoolPlaces(b) == {<<"pool">> : x \in {y \in {b} : y > initialBlockPoolIndex}}
ListPlaces(b) == {<<"list", n>> : n \in {k \in 0 .. Blocks : OnList[k] = b}}
FlagPlaces(b) == {<<"flag">> : x \in {y \in {b} : Awaited(y)}}
ThreadPlaces(b) == {<<"thread", t>> : t \in {u \in Threads : Holds(u, b)}}
IndexPlaces(b) ==
  {<<"index", s>> : s \in {r \in Names \X Slots : producers[r[1]].value[r[2]] = b}}
PlacesOf(b) == PoolPlaces(b) \cup ListPlaces(b) \cup FlagPlaces(b) \cup ThreadPlaces(b) \cup IndexPlaces(b)

\* A place is one of them.
AtPlace(b, y) ==
  \/ y = <<"pool">> /\ b > initialBlockPoolIndex
  \/ \E n \in 0 .. Blocks : y = <<"list", n>> /\ OnList[n] = b
  \/ y = <<"flag">> /\ Awaited(b)
  \/ \E t \in Threads : y = <<"thread", t>> /\ Holds(t, b)
  \/ \E p \in Names : \E s \in Slots : y = <<"index", <<p, s>> >> /\ InEntry(p, s, b)
\* A place of a block is one of the five kinds.
LEMMA PlacesAre ==
  ASSUME NEW b, NEW y
  PROVE  y \in PlacesOf(b) <=> AtPlace(b, y)
<1>1. y \in PoolPlaces(b) <=> y = <<"pool">> /\ b > initialBlockPoolIndex
  BY DEF PoolPlaces
<1>2. y \in ListPlaces(b) <=> \E n \in 0 .. Blocks : y = <<"list", n>> /\ OnList[n] = b
  BY Zenon DEF ListPlaces
<1>3. y \in FlagPlaces(b) <=> y = <<"flag">> /\ Awaited(b)
  BY Zenon DEF FlagPlaces
<1>4. y \in ThreadPlaces(b) <=> \E t \in Threads : y = <<"thread", t>> /\ Holds(t, b)
  BY Zenon DEF ThreadPlaces
<1>5. y \in IndexPlaces(b)
        <=> \E p \in Names : \E s \in Slots : y = <<"index", <<p, s>> >> /\ InEntry(p, s, b)
  BY DEF IndexPlaces, InEntry
<1> QED  BY <1>1, <1>2, <1>3, <1>4, <1>5, Zenon DEF PlacesOf, AtPlace

\* The places in terms of the invariant.
LEMMA HoldsIs ==
  ASSUME NEW t \in Threads, NEW b \in PoolBlocks
  PROVE  Holds(t, b) <=> InHand(t, b) \/ InFreed(t, b)
BY NotBlock DEF Holds, InHand, InFreed, Hand, Adding, Flagging, At

\* The blocks that are awaited are those that are flagged and in no other place.
LEMMA AwaitedIs ==
  ASSUME NEW s, NEW b \in PoolBlocks, ListIs(s), ListTypes
  PROVE  Awaited(b) <=> Loose(b) /\ ~ElementOf(s, b)
<1>1. OnePlace(b) /\ CountIs(s, b)
  BY DEF ListIs
<1>2. /\ SHOULD_BE_ON_FREELIST \in Nat /\ References(b) \in Nat
      /\ References(b) + 1 < SHOULD_BE_ON_FREELIST /\ (References(b) = 0 <=> Referring(b) = {})
  BY ReferencesAre
<1>3. CASE Unused(b)
  BY <1>1, <1>2, <1>3 DEF CountIs, Awaited, Loose
<1>4. CASE \E t \in Threads : InHand(t, b) \/ InFreed(t, b)
  BY <1>4, HoldsIs DEF Awaited, Loose
<1>5. CASE \E p \in Names : \E x \in Slots : InEntry(p, x, b)
  BY <1>1, <1>2, <1>5 DEF CountIs, Awaited, Loose
<1>6. CASE Loose(b) /\ ElementOf(s, b)
  BY <1>1, <1>2, <1>6 DEF CountIs, Awaited
<1>7. CASE Loose(b) /\ ~ElementOf(s, b)
  <2>1. freeListRefs[b] > SHOULD_BE_ON_FREELIST
    BY <1>1, <1>2, <1>7 DEF CountIs
  <2>2. \A t \in Threads : ~Holds(t, b)
    BY <1>7, HoldsIs DEF Loose
  <2> QED  BY <1>7, <2>1, <2>2 DEF Awaited
<1> QED  BY <1>3, <1>4, <1>5, <1>6, <1>7 DEF Loose

\* Every block is in one place.
LEMMA OnePlaceEach ==
  ASSUME FreeInv, PoolSizeInv, NEW b \in Used
  PROVE  Cardinality(PlacesOf(b)) = 1
<1>1. b \in PoolBlocks /\ b \in Nat /\ ListTypes /\ (b > initialBlockPoolIndex <=> Unused(b))
  BY PoolAssumption DEF FreeInv, PoolSizeInv, Used, PoolBlocks, ListTypes, Unused
<1>2. PICK s \in Seq(PoolBlocks) : ListIs(s)
  BY DEF FreeInv
<1>3. OnePlace(b) /\ CountIs(s, b) /\ ChainIs(s)
  BY <1>1, <1>2 DEF ListIs
<1>4. \A y : y \in PlacesOf(b) <=>
           \/ y = <<"pool">> /\ Unused(b)
           \/ \E n \in 0 .. Blocks : y = <<"list", n>> /\ OnList[n] = b
           \/ y = <<"flag">> /\ Loose(b) /\ ~ElementOf(s, b)
           \/ \E t \in Threads : y = <<"thread", t>> /\ (InHand(t, b) \/ InFreed(t, b))
           \/ \E p \in Names : \E x \in Slots : y = <<"index", <<p, x>> >> /\ InEntry(p, x, b)
  <2> SUFFICES ASSUME NEW y
               PROVE  y \in PlacesOf(b) <=>
           \/ y = <<"pool">> /\ Unused(b)
           \/ \E n \in 0 .. Blocks : y = <<"list", n>> /\ OnList[n] = b
           \/ y = <<"flag">> /\ Loose(b) /\ ~ElementOf(s, b)
           \/ \E t \in Threads : y = <<"thread", t>> /\ (InHand(t, b) \/ InFreed(t, b))
           \/ \E p \in Names : \E x \in Slots : y = <<"index", <<p, x>> >> /\ InEntry(p, x, b)
    OBVIOUS
  <2>1. Awaited(b) <=> Loose(b) /\ ~ElementOf(s, b)
    BY <1>1, <1>2, AwaitedIs
  <2>2. \A t \in Threads : Holds(t, b) <=> InHand(t, b) \/ InFreed(t, b)
    BY <1>1, HoldsIs
  <2> QED  BY <1>1, <2>1, <2>2, PlacesAre, Zenon DEF AtPlace
<1>5. /\ ElementOf(s, b) => \E k \in 0 .. Blocks : \A n \in 0 .. Blocks : OnList[n] = b <=> n = k
      /\ ~ElementOf(s, b) => \A n \in 0 .. Blocks : OnList[n] # b
  BY <1>1, <1>3, FoundOnce
<1>6. ElementOf(s, b) => Loose(b)
  BY <1>3 DEF CountIs
<1>7. CASE Unused(b)
  <2>1. ~Loose(b) /\ OnlyUnused(b)
    BY <1>3, <1>7 DEF Loose, OnePlace
  <2>3. PICK z : z = <<"pool">>
    OBVIOUS
  <2>2. \A y : y \in PlacesOf(b) <=> y = z
    BY <1>4, <1>5, <1>6, <1>7, <2>1, <2>3, Zenon DEF OnlyUnused
  <2> QED
    <3>1. PlacesOf(b) = {z}
      BY <2>2
    <3> QED  BY <3>1, FS_Singleton
<1>8. ASSUME NEW t \in Threads, InHand(t, b) \/ InFreed(t, b)
      PROVE  Cardinality(PlacesOf(b)) = 1
  <2>1. OnlyHand(t, b) \/ OnlyFreed(t, b)
    BY <1>3, <1>8 DEF OnePlace
  <2>2. /\ ~Unused(b) /\ ~Loose(b) /\ (\A u \in Threads : InHand(u, b) \/ InFreed(u, b) <=> u = t)
        /\ \A p \in Names : \A x \in Slots : ~InEntry(p, x, b)
    BY <1>8, <2>1 DEF OnlyHand, OnlyFreed, Loose
  <2>3. PICK z : z = <<"thread", t>>
    OBVIOUS
  <2>4. \A y : y \in PlacesOf(b) <=> y = z
    BY <1>4, <1>5, <1>6, <2>2, <2>3
  <2> QED
    <3>1. PlacesOf(b) = {z}
      BY <2>4
    <3> QED  BY <3>1, FS_Singleton
<1>9. ASSUME NEW p \in Names, NEW x \in Slots, InEntry(p, x, b)
      PROVE  Cardinality(PlacesOf(b)) = 1
  <2>1. OnlyEntry(p, x, b) /\ ~Loose(b)
    BY <1>3, <1>9 DEF OnePlace, Loose
  <2>3. PICK z : z = <<"index", <<p, x>> >>
    OBVIOUS
  <2>2. \A y : y \in PlacesOf(b) <=> y = z
    BY <1>4, <1>5, <1>6, <1>9, <2>1, <2>3 DEF OnlyEntry
  <2> QED
    <3>1. PlacesOf(b) = {z}
      BY <2>2
    <3> QED  BY <3>1, FS_Singleton
<1>10. CASE Loose(b)
  <2>1. /\ ~Unused(b) /\ \A t \in Threads : ~InHand(t, b) /\ ~InFreed(t, b)
        /\ \A p \in Names : \A x \in Slots : ~InEntry(p, x, b)
    BY <1>10 DEF Loose
  <2>2. CASE ElementOf(s, b)
    <3>1. PICK k \in 0 .. Blocks : \A n \in 0 .. Blocks : OnList[n] = b <=> n = k
      BY <1>5, <2>2
    <3>3. PICK z : z = <<"list", k>>
      OBVIOUS
    <3>2. \A y : y \in PlacesOf(b) <=> y = z
      BY <1>4, <2>1, <2>2, <3>1, <3>3
    <3> QED
      <4>1. PlacesOf(b) = {z}
        BY <3>2
      <4> QED  BY <4>1, FS_Singleton
  <2>3. CASE ~ElementOf(s, b)
    <3>2. PICK z : z = <<"flag">>
      OBVIOUS
    <3>1. \A y : y \in PlacesOf(b) <=> y = z
      BY <1>4, <1>5, <1>10, <2>1, <2>3, <3>2, Zenon
    <3> QED
      <4>1. PlacesOf(b) = {z}
        BY <3>1
      <4> QED  BY <4>1, FS_Singleton
  <2> QED  BY <2>2, <2>3
<1> QED  BY <1>7, <1>8, <1>9, <1>10 DEF Loose

\* The inductive invariant of the pool and the block indices: where each block is, what its
\* count and the links of the free list then are, and which block an item is in.
BlocksInv == FreeInv /\ IndexInv /\ PoolSizeInv
\* It holds whatever the interleaving of the threads, the size of the pool and the calls.
THEOREM BlocksInvariant == Spec => []BlocksInv
<1> DEFINE H == QueueInv /\ ClaimsPublished /\ SingleWriter
<1>1. Init => BlocksInv
  BY FreeInit, IndexInit, PoolSizeInit DEF BlocksInv
<1>2. H /\ H' /\ BlocksInv /\ [Next]_vars => BlocksInv'
  BY FreeNext, IndexNext, PoolSizeNext DEF BlocksInv
<1>3. Spec => []H
  BY QueueInvariant, OnlyPublishedItems, OneWriter, PTL
<1> QED  BY <1>1, <1>2, <1>3, PTL DEF Spec

\* try_get_block_from_initial_pool, the free list and the block indices never lose a block
\* and never have one twice, whatever the interleaving of their steps.
THEOREM EveryBlockAccounted == Spec => []BlocksAccounted
<1>1. BlocksInv => BlocksAccounted
  BY OnePlaceEach
  DEF BlocksInv, BlocksAccounted, PlacesOf, PoolPlaces, ListPlaces, FlagPlaces, ThreadPlaces,
      IndexPlaces
<1> QED  BY <1>1, BlocksInvariant, PTL

\* An item that is published, and that no consumer has yet moved and counted.
Left(p, i) == i < producers[p].tailIndex /\ Rest(producers[p], me, p, i)
\* The block that the index of producer p has for index i.
HasBlock(p, i, b) ==
  \E s \in Slots : producers[p].key[s] = Base(i) /\ producers[p].value[s] = b
ItemsHaveBlocks ==
  /\ \A p \in Names : \A i \in Nat : Left(p, i) => \E b \in PoolBlocks : HasBlock(p, i, b)
  /\ \A p, q \in Names : \A i, j \in Nat : \A b \in PoolBlocks :
       HasBlock(p, i, b) /\ HasBlock(q, j, b) => p = q /\ Base(i) = Base(j)

\* The index that dequeue_bulk looks an item up in has a block for it as long as the item
\* is left, although enqueues extend and rewind the index and other consumers empty its
\* entries; and no block serves two stretches of items, or two producers.
THEOREM EveryItemHasItsBlock == Spec => []ItemsHaveBlocks
<1>1. ASSUME QueueInv, ClaimsPublished, BlocksInv PROVE ItemsHaveBlocks
  <2>1. ASSUME NEW p \in Names, NEW i \in Nat, Left(p, i)
        PROVE  \E b \in PoolBlocks : HasBlock(p, i, b)
    <3>1. producers[p].tailIndex \in Nat
      BY <1>1, ProducerIs
    <3>2. /\ Blk(i) \in Nat /\ Base(i) = BaseOf(Blk(i)) /\ BaseOf(Blk(i)) <= i
          /\ i < BaseOf(Blk(i)) + BLOCK_SIZE /\ BaseOf(Blk(i)) \in Int
      BY BlkIs
    <3>3. Span(producers[p].tailIndex) \in Nat /\ Blk(i) < Span(producers[p].tailIndex)
      BY <2>1, <3>1, SpanIs DEF Left
    <3>4. i \in RestOf(producers[p], me, p, Blk(i))
      BY <2>1, <3>2, Sizes DEF Left, RestOf, BlockOf
    <3>5. /\ producers[p].key[Wrap(Blk(i))] = BaseOf(Blk(i))
          /\ producers[p].value[Wrap(Blk(i))] \in PoolBlocks
      BY <1>1, <3>2, <3>3, <3>4, SMTT(30) DEF BlocksInv, IndexInv, IndexOK, LiveOK
    <3>6. Wrap(Blk(i)) \in Slots
      BY <3>2, WrapIs
    <3> QED  BY <3>2, <3>5, <3>6 DEF HasBlock
  <2>2. ASSUME NEW p \in Names, NEW q \in Names, NEW i \in Nat, NEW j \in Nat, NEW b \in PoolBlocks,
               HasBlock(p, i, b), HasBlock(q, j, b)
        PROVE  p = q /\ Base(i) = Base(j)
    <3>1. OnePlace(b)
      BY <1>1 DEF BlocksInv, FreeInv, ListIs
    <3>2. PICK s \in Slots : producers[p].key[s] = Base(i) /\ InEntry(p, s, b)
      BY <2>2 DEF HasBlock, InEntry
    <3>3. PICK r \in Slots : producers[q].key[r] = Base(j) /\ InEntry(q, r, b)
      BY <2>2 DEF HasBlock, InEntry
    <3>4. q = p /\ r = s
      BY <3>1, <3>2, <3>3 DEF OnePlace, OnlyEntry
    <3> QED  BY <3>2, <3>3, <3>4
  <2> QED  BY <2>1, <2>2 DEF ItemsHaveBlocks
<1> QED  BY <1>1, BlocksInvariant, QueueInvariant, OnlyPublishedItems, PTL

=============================================================================
