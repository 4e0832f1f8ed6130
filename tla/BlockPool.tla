----------------------------- MODULE BlockPool -----------------------------
(***************************************************************************)
(* The blocks of moodycamel::ConcurrentQueue                               *)
(* (include/arc/utils/data_structures/concurrentqueue.h), the queue under  *)
(* libarc's CoroutineQueue: the initial pool and the lock-free FreeList.   *)
(* Every atomic access is a step of its own; the steps of the threads are  *)
(* interleaved (sequential consistency: what weaker memory orders allow    *)
(* beyond that is not modelled).  libarc calls only try_enqueue and        *)
(* try_enqueue_bulk, so no block is ever allocated after the constructor.  *)
(***************************************************************************)
EXTENDS Integers, Sequences, FiniteSets, TLC

CONSTANTS
  Threads,       \* the threads that share a queue
  Blocks,        \* the most blocks a pool is built with, named 1, 2, ...
  None           \* nullptr

ASSUME PoolAssumption ==
  Blocks \in Nat /\ IsFiniteSet(Threads) /\ None \notin Nat /\ None \notin Threads

SHOULD_BE_ON_FREELIST == 2 * Cardinality(Threads) + 2   \* above every count
REFS_MASK(refs) == refs % SHOULD_BE_ON_FREELIST

VARIABLES
  me,                       \* each thread's program counter and locals
  initialBlockPoolSize, initialBlockPoolIndex,
  freeListHead, freeListRefs, freeListNext

initialPool == <<initialBlockPoolSize, initialBlockPoolIndex>>
poolVars == <<initialPool, freeListHead, freeListRefs, freeListNext>>

At(t, pc) == me[t].pc = pc

\* Thread t goes on at pc with the given locals.
Go(t, pc, locals) == me' = [me EXCEPT ![t] = [locals EXCEPT !.pc = pc]]

BlockPoolInit(size) ==
  /\ initialBlockPoolSize = size /\ initialBlockPoolIndex = 0
  /\ freeListHead = None
  /\ freeListRefs = [b \in 1 .. Blocks |-> 0] /\ freeListNext = [b \in 1 .. Blocks |-> None]

\* Back to the caller of requisition_block, or of add.
Return(t, block) == Go(t, me[t].back, [me[t] EXCEPT !.block = block])

-----------------------------------------------------------------------------
(* requisition_block: try_get_block_from_initial_pool, then the free list. *)

PoolLoad(t) ==
  /\ At(t, "requisition")
  /\ Go(t, IF initialBlockPoolIndex >= initialBlockPoolSize THEN "get" ELSE "take", me[t])
  /\ UNCHANGED poolVars

PoolTake(t) ==
  /\ At(t, "take")
  /\ initialBlockPoolIndex' = initialBlockPoolIndex + 1
  /\ IF initialBlockPoolIndex < initialBlockPoolSize
     THEN Return(t, initialBlockPoolIndex + 1)
     ELSE Go(t, "get", me[t])
  /\ UNCHANGED <<initialBlockPoolSize, freeListHead, freeListRefs, freeListNext>>

-----------------------------------------------------------------------------
(* FreeList::try_get.  me[t].head is the node it tries to take.            *)

GetHead(t) ==
  /\ At(t, "get")
  /\ IF freeListHead = None THEN Return(t, None)
                            ELSE Go(t, "refs", [me[t] EXCEPT !.head = freeListHead])
  /\ UNCHANGED poolVars

GetRefs(t) ==
  /\ At(t, "refs")
  /\ LET refs == freeListRefs[me[t].head]
     IN  IF REFS_MASK(refs) = 0 THEN Go(t, "get", me[t])
                                ELSE Go(t, "hold", [me[t] EXCEPT !.refs = refs])
  /\ UNCHANGED poolVars

\* compare_exchange_strong(refs, refs + 1): the node is held from here on.
GetHold(t) ==
  /\ At(t, "hold")
  /\ IF freeListRefs[me[t].head] = me[t].refs
     THEN /\ freeListRefs' = [freeListRefs EXCEPT ![me[t].head] = @ + 1]
          /\ Go(t, "next", me[t])
     ELSE Go(t, "get", me[t]) /\ UNCHANGED freeListRefs
  /\ UNCHANGED <<initialPool, freeListHead, freeListNext>>

GetNext(t) ==
  /\ At(t, "next")
  /\ Go(t, "swap", [me[t] EXCEPT !.next = freeListNext[me[t].head]])
  /\ UNCHANGED poolVars

\* The CAS on the head.  When it fails it leaves the present head in "head".
GetSwap(t) ==
  /\ At(t, "swap")
  /\ IF freeListHead = me[t].head
     THEN freeListHead' = me[t].next /\ Go(t, "taken", me[t])
     ELSE /\ Go(t, "drop", [me[t] EXCEPT !.head = freeListHead, !.node = me[t].head])
          /\ UNCHANGED freeListHead
  /\ UNCHANGED <<initialPool, freeListRefs, freeListNext>>

\* One reference was this thread's, the other the list's.
GetTaken(t) ==
  /\ At(t, "taken")
  /\ freeListRefs' = [freeListRefs EXCEPT ![me[t].head] = @ - 2]
  /\ Return(t, me[t].head)
  /\ UNCHANGED <<initialPool, freeListHead, freeListNext>>

\* Where the loop of try_get goes on after a lost CAS.
Loop(t) == IF me[t].head = None THEN Return(t, None) ELSE Go(t, "refs", me[t])

\* Mutant: the last one to let go of a node does not put it back.
GetDropForgets(t) ==
  /\ At(t, "drop")
  /\ freeListRefs' = [freeListRefs EXCEPT ![me[t].node] = @ - 1]
  /\ Loop(t)
  /\ UNCHANGED <<initialPool, freeListHead, freeListNext>>

\* The reference is given back; who gives back the last one of a node that another
\* thread wanted on the list puts it there.
GetDrop(t) ==
  /\ At(t, "drop")
  /\ freeListRefs' = [freeListRefs EXCEPT ![me[t].node] = @ - 1]
  /\ IF freeListRefs[me[t].node] = SHOULD_BE_ON_FREELIST + 1
     THEN Go(t, "link", [me[t] EXCEPT !.inGet = TRUE])
     ELSE Loop(t)
  /\ UNCHANGED <<initialPool, freeListHead, freeListNext>>

-----------------------------------------------------------------------------
(* FreeList::add of me[t].node, and add_knowing_refcount_is_zero.          *)

Added(t) == IF me[t].inGet
            THEN IF me[t].head = None
                 THEN Go(t, me[t].back, [me[t] EXCEPT !.block = None, !.inGet = FALSE])
                 ELSE Go(t, "refs", [me[t] EXCEPT !.inGet = FALSE])
            ELSE Go(t, me[t].back, me[t])

AddFlag(t) ==
  /\ At(t, "add")
  /\ freeListRefs' = [freeListRefs EXCEPT ![me[t].node] = @ + SHOULD_BE_ON_FREELIST]
  /\ IF freeListRefs[me[t].node] = 0 THEN Go(t, "link", me[t]) ELSE Added(t)
  /\ UNCHANGED <<initialPool, freeListHead, freeListNext>>

LinkHead(t) ==
  /\ At(t, "link")
  /\ Go(t, "linknext", [me[t] EXCEPT !.listHead = freeListHead])
  /\ UNCHANGED poolVars

LinkNext(t) ==
  /\ At(t, "linknext")
  /\ freeListNext' = [freeListNext EXCEPT ![me[t].node] = me[t].listHead]
  /\ Go(t, "linkrefs", me[t])
  /\ UNCHANGED <<initialPool, freeListHead, freeListRefs>>

\* The store of 1 also clears the flag.
LinkRefs(t) ==
  /\ At(t, "linkrefs")
  /\ freeListRefs' = [freeListRefs EXCEPT ![me[t].node] = 1]
  /\ Go(t, "linkswap", me[t])
  /\ UNCHANGED <<initialPool, freeListHead, freeListNext>>

LinkSwap(t) ==
  /\ At(t, "linkswap")
  /\ IF freeListHead = me[t].listHead
     THEN freeListHead' = me[t].node /\ Added(t)
     ELSE Go(t, "unlink", [me[t] EXCEPT !.listHead = freeListHead]) /\ UNCHANGED freeListHead
  /\ UNCHANGED <<initialPool, freeListRefs, freeListNext>>

\* fetch_add(SHOULD_BE_ON_FREELIST - 1): the list's reference is taken back.
Unlink(t) ==
  /\ At(t, "unlink")
  /\ freeListRefs' = [freeListRefs EXCEPT ![me[t].node] = @ + SHOULD_BE_ON_FREELIST - 1]
  /\ IF freeListRefs[me[t].node] = 1 THEN Go(t, "linknext", me[t]) ELSE Added(t)
  /\ UNCHANGED <<initialPool, freeListHead, freeListNext>>

PoolStep(t) ==
  \/ PoolLoad(t) \/ PoolTake(t)
  \/ GetHead(t) \/ GetRefs(t) \/ GetHold(t) \/ GetNext(t) \/ GetSwap(t) \/ GetTaken(t)
  \/ GetDrop(t)
  \/ AddFlag(t) \/ LinkHead(t) \/ LinkNext(t) \/ LinkRefs(t) \/ LinkSwap(t) \/ Unlink(t)

-----------------------------------------------------------------------------
(* The nodes on the list, from the head; a list that closes on itself has  *)
(* more nodes than there are blocks.                                       *)

OnList ==
  LET chain[n \in 0 .. Blocks] ==
        IF n = 0 THEN freeListHead
        ELSE IF chain[n - 1] = None THEN None ELSE freeListNext[chain[n - 1]]
  IN  chain
=============================================================================
