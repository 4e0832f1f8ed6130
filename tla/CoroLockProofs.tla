--------------------------- MODULE CoroLockProofs ---------------------------
(***************************************************************************)
(* CoroLock for every set of coroutines and loops: its variables keep      *)
(* their types, the lock is never owned twice, its queue holds exactly the *)
(* coroutines that wait for it, a coroutine that waits on the condition    *)
(* can always be reached, and NotifyOne and NotifyAll wake one and all.    *)
(*                                                                         *)
(* Mutual exclusion is not inductive: that the coroutine at the head of    *)
(* the queue may be handed the lock needs that it is suspended on it and   *)
(* in the queue no second time, and that a free lock may be taken needs    *)
(* that every owner shows in is_locked_.  LockInv adds the two.            *)
(*                                                                         *)
(* Neither is that waiters stay reachable: an id a notification skips must *)
(* not belong to a wait that goes on, which needs that the loop of a       *)
(* waiting coroutine is alive and that an event is there only during its   *)
(* wait.  CondInv adds these.                                              *)
(***************************************************************************)
EXTENDS CoroLock, FiniteSetTheorems, SequenceTheorems, TLAPS

OwnedIsLocked == \A c \in Coros : Owns(c) => is_locked

LockInv == MutualExclusion /\ OwnedIsLocked /\ LockQueueExact

-----------------------------------------------------------------------------
(* Type correctness.                                                       *)

\* Unlock and LockAwait keep the lock's variables in their types.
LEMMA UnlockType ==
  ASSUME TypeOK, Unlock
  PROVE  /\ is_locked' \in BOOLEAN
         /\ pending_event_pairs' \in Seq(Coros)
         /\ lock_event' \in [Coros -> {"none", "pending", "triggered"}]
<1>1. CASE pending_event_pairs = <<>>
  BY <1>1 DEF TypeOK, Unlock
<1>2. CASE pending_event_pairs # <<>>
  <2>1. Head(pending_event_pairs) \in Coros /\ Tail(pending_event_pairs) \in Seq(Coros)
    BY <1>2 DEF TypeOK
  <2> QED  BY <1>2, <2>1 DEF TypeOK, Unlock
<1> QED  BY <1>1, <1>2

\* The same for LockAwait, which moves its coroutine as well.
LEMMA LockAwaitType ==
  ASSUME TypeOK, NEW c \in Coros, LockAwait(c)
  PROVE  /\ pc' \in [Coros -> States]
         /\ is_locked' \in BOOLEAN
         /\ pending_event_pairs' \in Seq(Coros)
         /\ lock_event' \in [Coros -> {"none", "pending", "triggered"}]
<1>1. CASE ~is_locked
  BY <1>1 DEF TypeOK, LockAwait, Goto, States
<1>2. CASE is_locked
  <2>1. Append(pending_event_pairs, c) \in Seq(Coros)
    BY AppendProperties DEF TypeOK
  <2> QED  BY <1>2, <2>1 DEF TypeOK, LockAwait, Goto, States
<1> QED  BY <1>1, <1>2 DEF TypeOK

\* TriggerInternal and TriggerAll keep the condition's variables in their types.
LEMMA TriggerType ==
  ASSUME TypeOK, TriggerInternal \/ TriggerAll
  PROVE  /\ pending_events' \in Seq(Ids)
         /\ pending_events_pairs' \in SUBSET Ids
         /\ cond_event' \in [Coros -> {"none", "pending", "triggered", "interrupted"}]
<1>1. CASE TriggerInternal
  <2>1. CASE \E n \in DOMAIN pending_events :
               /\ cond_event' = [cond_event EXCEPT ![pending_events[n][1]] = "triggered"]
               /\ pending_events' = SubSeq(pending_events, n + 1, Len(pending_events))
               /\ pending_events_pairs' =
                    pending_events_pairs \ {pending_events[m] : m \in 1 .. n}
    <3>1. PICK n \in DOMAIN pending_events :
               /\ cond_event' = [cond_event EXCEPT ![pending_events[n][1]] = "triggered"]
               /\ pending_events' = SubSeq(pending_events, n + 1, Len(pending_events))
               /\ pending_events_pairs' =
                    pending_events_pairs \ {pending_events[m] : m \in 1 .. n}
      BY <2>1
    <3>2. \A m \in n + 1 .. Len(pending_events) : pending_events[m] \in Ids
      BY <3>1 DEF TypeOK
    <3>3. n + 1 \in Int /\ Len(pending_events) \in Int
      BY <3>1 DEF TypeOK
    <3>4. pending_events' \in Seq(Ids)
      BY <3>1, <3>2, <3>3 DEF TypeOK
    <3> QED  BY <3>1, <3>4 DEF TypeOK
  <2>2. CASE pending_events' = <<>> /\ UNCHANGED cond_event
             /\ pending_events_pairs' = pending_events_pairs
                  \ {pending_events[m] : m \in DOMAIN pending_events}
    BY <2>2 DEF TypeOK
  <2> QED  BY <1>1, <2>1, <2>2 DEF TriggerInternal
<1>2. CASE TriggerAll
  BY <1>2 DEF TypeOK, TriggerAll
<1> QED  BY <1>1, <1>2

\* TypeOK is inductive.
LEMMA TypeStep ==
  ASSUME TypeOK, [Next]_vars
  PROVE  TypeOK'
<1> USE DEF TypeOK
<1>1. CASE UNCHANGED vars
  BY <1>1 DEF vars, lockVars, condVars, awaiter
<1>2. ASSUME NEW l \in Loops, DeRegisterEventLoop(l)
      PROVE  TypeOK'
  BY <1>2 DEF DeRegisterEventLoop, lockVars, condVars, awaiter
<1>3. ASSUME NEW c \in Coros, Chosen(c) \/ Owed(c) \/ Release(c)
      PROVE  TypeOK'
  <2> USE DEF lockVars, condVars, awaiter, Goto, States
  <2>1. CASE Acquire(c)
    BY <2>1, LockAwaitType DEF Acquire
  <2>2. CASE WaitForLocked(c)
    BY <2>2, LockAwaitType DEF WaitForLocked
  <2>3. CASE NotifyOne(c)
    BY <2>3, TriggerType DEF NotifyOne
  <2>4. CASE NotifyAll(c)
    BY <2>4, TriggerType DEF NotifyAll
  <2>5. CASE Return(c)
    BY <2>5 DEF Return
  <2>6. ASSUME NEW lock \in BOOLEAN, NEW abort \in Aborts, CondRegister(c, lock, abort)
        PROVE  TypeOK'
    <3>1. <<c, waits[c] + 1>> \in Ids
      BY DEF Ids
    <3>2. Append(pending_events, <<c, waits[c] + 1>>) \in Seq(Ids)
      BY <3>1, AppendProperties
    <3>3. pending_events' \in Seq(Ids) /\ pending_events_pairs' \in SUBSET Ids
      BY <2>6, <3>1, <3>2 DEF CondRegister
    <3> QED  BY <2>6, <3>3 DEF CondRegister
  <2>7. CASE Interrupt(c)
    BY <2>7 DEF Interrupt
  <2>8. CASE Granted(c)
    BY <2>8 DEF Granted
  <2>9. CASE CondSuspend(c)
    BY <2>9, UnlockType DEF CondSuspend
  <2>10. CASE CondResume(c)
    BY <2>10 DEF CondResume, AfterWait
  <2>11. CASE DeRegister(c)
    BY <2>11 DEF DeRegister, AfterWait
  <2>12. CASE Reacquire(c)
    BY <2>12, LockAwaitType DEF Reacquire
  <2>13. CASE Release(c)
    BY <2>13, UnlockType DEF Release
  <2> QED
    BY <1>3, <2>1, <2>2, <2>3, <2>4, <2>5, <2>6, <2>7, <2>8, <2>9, <2>10, <2>11,
       <2>12, <2>13 DEF Chosen, Owed
<1>4. CASE Terminated
  BY <1>4, <1>1 DEF Terminated
<1> QED  BY <1>1, <1>2, <1>3, <1>4 DEF Next

\* Every variable of the lock and of the condition keeps its type.
THEOREM TypeCorrect == Spec => []TypeOK
<1>1. Init => TypeOK
  <2> SUFFICES ASSUME Init PROVE TypeOK
    OBVIOUS
  <2>1. pending_event_pairs \in Seq(Coros) /\ pending_events \in Seq(Ids)
    BY DEF Init
  <2> QED  BY <2>1 DEF Init, TypeOK, States
<1> QED  BY <1>1, TypeStep, PTL DEF Spec

-----------------------------------------------------------------------------
(* The lock.                                                               *)

\* What LockInv speaks of: a step that changes none of it keeps LockInv.
LEMMA LockInvFrame ==
  ASSUME LockInv, UNCHANGED lockVars,
         \A c \in Coros : Owns(c)' => Owns(c),
         \A c \in Coros : pc'[c] = "lockwait" <=> pc[c] = "lockwait"
  PROVE  LockInv'
  BY DEF LockInv, MutualExclusion, OwnedIsLocked, LockQueueExact, Queued, lockVars

\* Unlock by the owner, which then owns no longer: either nobody does, or the head
\* of the queue does.
LEMMA UnlockStep ==
  ASSUME TypeOK, LockInv, NEW c \in Coros, Owns(c), pc[c] # "lockwait", Unlock,
         NEW at \in States, Goto(c, at), at \notin {"crit", "suspend", "lockwait"},
         UNCHANGED lock_core
  PROVE  LockInv'
<1> DEFINE q == pending_event_pairs
<1>1. /\ pc' = [pc EXCEPT ![c] = at] /\ pc \in [Coros -> States]
      /\ lock_event \in [Coros -> {"none", "pending", "triggered"}]
      /\ q \in Seq(Coros)
  BY DEF Goto, TypeOK
<1>2. \A d \in Coros : Owns(d) => d = c
  BY DEF LockInv, MutualExclusion
<1>3. CASE q = <<>>
  <2>1. \A d \in Coros : ~Owns(d)'
    BY <1>1, <1>2, <1>3 DEF Unlock, Owns
  <2>2. q' = <<>> /\ lock_event' = lock_event
    BY <1>3 DEF Unlock
  <2>3. \A d \in Coros : pc'[d] = "lockwait" <=> pc[d] = "lockwait"
    BY <1>1
  <2>4. LockQueueExact'
    BY <1>3, <2>2, <2>3 DEF LockInv, LockQueueExact, Queued
  <2> QED  BY <2>1, <2>4 DEF LockInv, MutualExclusion, OwnedIsLocked
<1>4. CASE q # <<>>
  <2> DEFINE h == Head(q)
  <2>1. /\ is_locked' = TRUE /\ q' = Tail(q)
        /\ lock_event' = [lock_event EXCEPT ![h] = "triggered"]
    BY <1>4 DEF Unlock
  <2>2. /\ h \in Coros /\ h = q[1] /\ 1 \in DOMAIN q
        /\ DOMAIN q' = 1 .. Len(q) - 1
        /\ \A n \in DOMAIN q' : n + 1 \in DOMAIN q /\ q'[n] = q[n + 1]
        /\ \A n \in DOMAIN q \ {1} : n - 1 \in DOMAIN q' /\ q'[n - 1] = q[n]
    BY <1>1, <1>4, <2>1
  <2>3. pc[h] = "lockwait" /\ h # c
    BY <2>2 DEF LockInv, LockQueueExact, Queued
  <2>4. \A d \in Coros : Owns(d)' <=> d = h
    BY <1>1, <1>2, <2>1, <2>2, <2>3 DEF Owns
  <2>5. \A m, n \in DOMAIN q : q[m] = q[n] => m = n
    BY DEF LockInv, LockQueueExact
  <2>6. \A m, n \in DOMAIN q' : q'[m] = q'[n] => m = n
    BY <1>1, <2>2, <2>5
  <2>7. \A d \in Coros : Queued(d)' <=> Queued(d) /\ d # h
    <3> SUFFICES ASSUME NEW d \in Coros
                 PROVE  Queued(d)' <=> Queued(d) /\ d # h
      OBVIOUS
    <3>1. ASSUME NEW n \in DOMAIN q', q'[n] = d
          PROVE  Queued(d) /\ d # h
      BY <1>1, <2>2, <2>5, <3>1 DEF Queued
    <3>2. ASSUME NEW n \in DOMAIN q, q[n] = d, d # h
          PROVE  Queued(d)'
      <4>1. n # 1
        BY <2>2, <3>2
      <4> QED  BY <2>2, <3>2, <4>1 DEF Queued
    <3> QED  BY <3>1, <3>2 DEF Queued
  <2>8. \A d \in Coros : (pc'[d] = "lockwait" /\ lock_event'[d] # "triggered")
                           <=> (pc[d] = "lockwait" /\ lock_event[d] # "triggered" /\ d # h)
    BY <1>1, <2>1, <2>2
  <2>9. LockQueueExact'
    BY <2>1, <2>6, <2>7, <2>8 DEF LockInv, LockQueueExact
  <2> QED  BY <2>1, <2>4, <2>9 DEF LockInv, MutualExclusion, OwnedIsLocked
<1> QED  BY <1>3, <1>4

\* Acquire by a coroutine that is not suspended on the lock: it takes a lock nobody
\* owns, or goes to the end of the queue.
LEMMA LockAwaitStep ==
  ASSUME TypeOK, LockInv, NEW c \in Coros, pc[c] # "lockwait", LockAwait(c),
         UNCHANGED lock_core
  PROVE  LockInv'
<1> DEFINE q == pending_event_pairs
<1>1. /\ pc \in [Coros -> States] /\ q \in Seq(Coros)
      /\ lock_event \in [Coros -> {"none", "pending", "triggered"}]
  BY DEF TypeOK
<1>2. CASE ~is_locked
  <2>1. /\ is_locked' = TRUE /\ UNCHANGED <<q, lock_event>>
        /\ pc' = [pc EXCEPT ![c] = "crit"]
    BY <1>2 DEF LockAwait, Goto
  <2>2. \A d \in Coros : ~Owns(d)
    BY <1>2 DEF LockInv, OwnedIsLocked
  <2>3. \A d \in Coros : Owns(d)' => d = c
    BY <1>1, <2>1, <2>2 DEF Owns
  <2>4. \A d \in Coros : pc'[d] = "lockwait" <=> pc[d] = "lockwait"
    BY <1>1, <2>1
  <2>5. LockQueueExact'
    BY <2>1, <2>4 DEF LockInv, LockQueueExact, Queued
  <2> QED  BY <2>1, <2>3, <2>5 DEF LockInv, MutualExclusion, OwnedIsLocked
<1>3. CASE is_locked
  <2>1. /\ is_locked' = is_locked /\ q' = Append(q, c)
        /\ lock_event' = [lock_event EXCEPT ![c] = "pending"]
        /\ pc' = [pc EXCEPT ![c] = "lockwait"]
    BY <1>3 DEF LockAwait, Goto
  <2>2. \A d \in Coros : Owns(d)' => Owns(d)
    BY <1>1, <2>1 DEF Owns
  <2>3. ~Queued(c)
    BY DEF LockInv, LockQueueExact
  <2>4. /\ DOMAIN q' = 1 .. Len(q) + 1 /\ DOMAIN q = 1 .. Len(q) /\ Len(q) \in Nat
        /\ q'[Len(q) + 1] = c
        /\ \A n \in DOMAIN q : q'[n] = q[n]
    BY <1>1, <2>1, AppendProperties
  <2>5. \A d \in Coros : Queued(d)' <=> Queued(d) \/ d = c
    BY <2>4 DEF Queued
  <2>6. \A m, n \in DOMAIN q' : q'[m] = q'[n] => m = n
    BY <2>3, <2>4 DEF LockInv, LockQueueExact, Queued
  <2>7. \A d \in Coros : (pc'[d] = "lockwait" /\ lock_event'[d] # "triggered")
                           <=> (pc[d] = "lockwait" /\ lock_event[d] # "triggered") \/ d = c
    BY <1>1, <2>1
  <2>8. LockQueueExact'
    BY <1>3, <2>1, <2>5, <2>6, <2>7 DEF LockInv, LockQueueExact
  <2> QED  BY <1>3, <2>1, <2>2, <2>8 DEF LockInv, MutualExclusion, OwnedIsLocked
<1> QED  BY <1>2, <1>3

\* LockInv is inductive, given the types.
LEMMA LockStep ==
  ASSUME TypeOK, LockInv, [Next]_vars
  PROVE  LockInv'
<1>1. CASE UNCHANGED vars
  BY <1>1, LockInvFrame DEF vars, lockVars, awaiter, Owns
<1>2. ASSUME NEW l \in Loops, DeRegisterEventLoop(l)
      PROVE  LockInv'
  BY <1>2, LockInvFrame DEF DeRegisterEventLoop, lockVars, awaiter, Owns
<1>3. ASSUME NEW c \in Coros, Chosen(c) \/ Owed(c) \/ Release(c)
      PROVE  LockInv'
  <2>0. pc \in [Coros -> States] /\ lock_core \in [Coros -> BOOLEAN]
        /\ lock_event \in [Coros -> {"none", "pending", "triggered"}]
    BY DEF TypeOK
  <2>1. CASE Acquire(c)
    BY <2>1, LockAwaitStep DEF Acquire, Runs, awaiter
  <2>2. CASE WaitForLocked(c)
    BY <2>2, LockAwaitStep DEF WaitForLocked, Runs
  <2>3. CASE NotifyOne(c) \/ NotifyAll(c)
    BY <2>3, LockInvFrame DEF NotifyOne, NotifyAll, lockVars, awaiter, Owns
  <2>4. CASE Return(c)
    BY <2>0, <2>4, LockInvFrame DEF Return, Runs, Goto, lockVars, awaiter, Owns
  <2>5. ASSUME NEW lock \in BOOLEAN, NEW abort \in Aborts, CondRegister(c, lock, abort)
        PROVE  LockInv'
    BY <2>0, <2>5, LockInvFrame DEF CondRegister, Runs, Goto, lockVars, Owns
  <2>6. CASE Interrupt(c)
    BY <2>6, LockInvFrame DEF Interrupt, lockVars, awaiter, Owns
  <2>7. CASE Granted(c)
    <3>1. /\ pc' = [pc EXCEPT ![c] = "crit"] /\ pc[c] = "lockwait"
          /\ lock_event[c] = "triggered"
          /\ lock_event' = [lock_event EXCEPT ![c] = "none"]
          /\ UNCHANGED <<is_locked, pending_event_pairs, lock_core>>
      BY <2>7 DEF Granted, Runs, Goto, awaiter
    <3>2. \A d \in Coros : Owns(d)' => Owns(d)
      BY <2>0, <3>1 DEF Owns
    <3>3. \A d \in Coros : (pc'[d] = "lockwait" /\ lock_event'[d] # "triggered")
                             <=> (pc[d] = "lockwait" /\ lock_event[d] # "triggered")
      BY <2>0, <3>1
    <3> QED
      BY <3>1, <3>2, <3>3
         DEF LockInv, MutualExclusion, OwnedIsLocked, LockQueueExact, Queued
  <2>8. CASE CondSuspend(c)
    <3>1. CASE lock_core[c]
      BY <2>8, <3>1, UnlockStep DEF CondSuspend, Runs, Owns, awaiter, States
    <3>2. CASE ~lock_core[c]
      BY <2>0, <2>8, <3>2, LockInvFrame
         DEF CondSuspend, Runs, Goto, lockVars, awaiter, Owns
    <3> QED  BY <3>1, <3>2
  <2>9. CASE CondResume(c)
    BY <2>0, <2>9, LockInvFrame
       DEF CondResume, Runs, Goto, AfterWait, lockVars, awaiter, Owns
  <2>10. CASE DeRegister(c)
    BY <2>0, <2>10, LockInvFrame
       DEF DeRegister, Runs, Goto, AfterWait, lockVars, awaiter, Owns
  <2>11. CASE Reacquire(c)
    BY <2>11, LockAwaitStep DEF Reacquire, Runs, awaiter
  <2>12. CASE Release(c)
    BY <2>12, UnlockStep DEF Release, Runs, Owns, awaiter, States
  <2> QED
    BY <1>3, <2>1, <2>2, <2>3, <2>4, <2>5, <2>6, <2>7, <2>8, <2>9, <2>10, <2>11,
       <2>12 DEF Chosen, Owed
<1>4. CASE Terminated
  BY <1>4, <1>1 DEF Terminated
<1> QED  BY <1>1, <1>2, <1>3, <1>4 DEF Next

\* The lock is free at first.
LEMMA LockInvInit == Init => LockInv
  BY DEF Init, LockInv, MutualExclusion, OwnedIsLocked, LockQueueExact, Queued, Owns

\* LockInv holds in every reachable state.
LEMMA LockInvAlways == Spec => []LockInv
<1>1. TypeOK /\ LockInv /\ [Next]_vars => LockInv'
  BY LockStep
<1> QED  BY <1>1, LockInvInit, TypeCorrect, PTL DEF Spec

\* However many coroutines and loops there are, the lock is never owned twice.
THEOREM LockIsExclusive == Spec => []MutualExclusion
<1>1. LockInv => MutualExclusion
  BY DEF LockInv
<1> QED  BY <1>1, LockInvAlways, PTL

\* However many there are, the queue holds exactly the coroutines that wait for the
\* lock, once each, and the lock is not free while it holds any.
THEOREM LockQueueIsExact == Spec => []LockQueueExact
<1>1. LockInv => LockQueueExact
  BY DEF LockInv
<1> QED  BY <1>1, LockInvAlways, PTL

-----------------------------------------------------------------------------
(* The condition.                                                          *)

\* A loop outlives its coroutines, and an event belongs to a coroutine that is in a
\* condition wait.
LoopsAlive   == \A c \in Coros : pc[c] # "done" => LoopOf[c] \in loops
EventsInWait == \A c \in Coros : cond_event[c] # "none" => pc[c] \in {"suspend", "condwait"}

CondInv == WaitersReachable /\ PairsExact /\ LoopsAlive /\ EventsInWait

\* With CondInv, TriggerUserEvent succeeds for every coroutine that waits.
LEMMA WaitersTriggerable ==
  ASSUME TypeOK, CondInv, NEW c \in Coros, cond_event[c] = "pending"
  PROVE  Triggerable(Id(c)) /\ \E n \in DOMAIN pending_events : pending_events[n] = Id(c)
  BY DEF CondInv, WaitersReachable, LoopsAlive, EventsInWait, Triggerable, Id

\* A step that leaves the condition alone, and moves no coroutine out of a wait that
\* has an event, keeps CondInv.
LEMMA CondInvFrame ==
  ASSUME CondInv, UNCHANGED <<condVars, waits, loops>>,
         \A c \in Coros : pc[c] = "done" => pc'[c] = "done",
         \A c \in Coros : pc[c] \in {"suspend", "condwait"} =>
                            pc'[c] \in {"suspend", "condwait"},
         \A c \in Coros : pc[c] = "dereg" => pc'[c] = "dereg",
         TypeOK
  PROVE  CondInv'
<1>1. \A id \in pending_events_pairs : id[1] \in Coros
  BY DEF TypeOK, Ids
<1> QED
  BY <1>1 DEF CondInv, WaitersReachable, PairsExact, LoopsAlive, EventsInWait, condVars, Id

\* A notification takes from the queue only what it triggers and what is no longer
\* waiting.
LEMMA TriggerStep ==
  ASSUME TypeOK, CondInv, TriggerInternal \/ TriggerAll, UNCHANGED <<pc, waits, loops>>
  PROVE  CondInv'
<1>0. /\ pending_events \in Seq(Ids) /\ pending_events_pairs \in SUBSET Ids
      /\ cond_event \in [Coros -> {"none", "pending", "triggered", "interrupted"}]
  BY DEF TypeOK
<1>1. CASE TriggerAll
  <2>1. \A c \in Coros : cond_event'[c] # "pending"
    BY <1>0, <1>1, WaitersTriggerable DEF TriggerAll
  <2>2. \A c \in Coros : cond_event'[c] # cond_event[c] => cond_event[c] = "pending"
    BY <1>0, <1>1 DEF TriggerAll, Triggerable, Id
  <2>3. \A id \in pending_events_pairs' : id \in pending_events_pairs /\ id[1] \in Coros
    BY <1>0, <1>1 DEF TriggerAll, Ids
  <2>4. \A id \in pending_events_pairs' : cond_event[id[1]] # "pending"
    <3> SUFFICES ASSUME NEW id \in pending_events_pairs', cond_event[id[1]] = "pending"
                 PROVE  FALSE
      OBVIOUS
    <3>1. id = Id(id[1]) /\ id[1] \in Coros
      BY <2>3 DEF CondInv, PairsExact
    <3>2. \E n \in DOMAIN pending_events : pending_events[n] = id
      BY <3>1, WaitersTriggerable
    <3> QED  BY <1>1, <3>2 DEF TriggerAll
  <2>5. PairsExact'
    BY <2>2, <2>3, <2>4 DEF CondInv, PairsExact, Id
  <2> QED
    BY <2>1, <2>2, <2>5 DEF CondInv, WaitersReachable, LoopsAlive, EventsInWait
<1>2. CASE \E n \in DOMAIN pending_events : Triggerable(pending_events[n])
  <2>1. CASE TriggerInternal
    <3> DEFINE q == pending_events
    <3>1. PICK n \in DOMAIN q :
            /\ Triggerable(q[n])
            /\ \A m \in 1 .. n - 1 : ~Triggerable(q[m])
            /\ cond_event' = [cond_event EXCEPT ![q[n][1]] = "triggered"]
            /\ q' = SubSeq(q, n + 1, Len(q))
            /\ pending_events_pairs' = pending_events_pairs \ {q[m] : m \in 1 .. n}
      BY <1>2, <2>1 DEF TriggerInternal
    <3> DEFINE t == q[n][1]
    <3>2. /\ DOMAIN q = 1 .. Len(q) /\ Len(q) \in Nat /\ n \in 1 .. Len(q)
          /\ t \in Coros /\ q[n] = Id(t) /\ cond_event[t] = "pending"
      BY <1>0, <3>1 DEF Triggerable, Ids
    <3>3. \A k \in DOMAIN q : k > n => k - n \in DOMAIN q' /\ q'[k - n] = q[k]
      BY <1>0, <3>1, <3>2
    <3>4. ASSUME NEW c \in Coros, cond_event'[c] = "pending"
          PROVE  /\ Id(c) \in pending_events_pairs'
                 /\ \E k \in DOMAIN q' : q'[k] = Id(c)
      <4>1. c # t /\ cond_event[c] = "pending"
        BY <1>0, <3>1, <3>2, <3>4
      <4>2. PICK k \in DOMAIN q : q[k] = Id(c)
        BY <4>1, WaitersTriggerable
      <4>3. \A m \in 1 .. n : q[m] # Id(c)
        <5>1. Triggerable(Id(c))
          BY <4>1, WaitersTriggerable
        <5>2. q[n] # Id(c)
          BY <3>2, <4>1 DEF Id
        <5>3. ASSUME NEW m \in 1 .. n - 1  PROVE q[m] # Id(c)
          <6>1. ~Triggerable(q[m])
            BY <3>1
          <6> QED  BY <5>1, <6>1 DEF Triggerable, Id
        <5>4. \A m \in 1 .. n : m = n \/ m \in 1 .. n - 1
          BY <3>2
        <5> QED  BY <5>2, <5>3, <5>4
      <4>4. k > n
        BY <3>2, <4>2, <4>3
      <4>5. Id(c) \in pending_events_pairs
        BY <4>1 DEF CondInv, WaitersReachable
      <4> QED  BY <3>1, <3>3, <4>2, <4>3, <4>4, <4>5
    <3>5. \A id \in pending_events_pairs' : id \in pending_events_pairs /\ id[1] \in Coros
      BY <1>0, <3>1 DEF Ids
    <3>6. Id(t) \notin pending_events_pairs'
      BY <3>1, <3>2
    <3>7. PairsExact'
      <4> SUFFICES ASSUME NEW id \in pending_events_pairs'
                   PROVE  /\ id = Id(id[1])
                          /\ \/ cond_event'[id[1]] \in {"pending", "interrupted"}
                             \/ pc[id[1]] = "dereg"
        BY DEF PairsExact, Id
      <4>1. id = Id(id[1]) /\ (\/ cond_event[id[1]] \in {"pending", "interrupted"}
                               \/ pc[id[1]] = "dereg")
        BY <3>5 DEF CondInv, PairsExact
      <4>2. id[1] # t
        BY <3>6, <4>1
      <4> QED  BY <1>0, <3>1, <3>5, <4>1, <4>2
    <3>8. EventsInWait'
      BY <1>0, <3>1, <3>2 DEF CondInv, EventsInWait
    <3>9. WaitersReachable'
      BY <3>4 DEF WaitersReachable, Id
    <3> QED  BY <3>7, <3>8, <3>9 DEF CondInv, LoopsAlive
  <2> QED  BY <1>1, <2>1
<1>3. CASE TriggerInternal /\ \A n \in DOMAIN pending_events : ~Triggerable(pending_events[n])
  <2>1. \A c \in Coros : cond_event[c] # "pending"
    BY <1>3, WaitersTriggerable
  <2>2. cond_event' = cond_event /\ pending_events_pairs' \subseteq pending_events_pairs
    BY <1>3 DEF TriggerInternal
  <2> QED
    BY <2>1, <2>2 DEF CondInv, WaitersReachable, PairsExact, LoopsAlive, EventsInWait, Id
<1> QED  BY <1>1, <1>2, <1>3

\* CondInv is inductive.
LEMMA CondStep ==
  ASSUME TypeOK, CondInv, [Next]_vars
  PROVE  CondInv'
<1>0. /\ pending_events \in Seq(Ids) /\ pending_events_pairs \in SUBSET Ids
      /\ cond_event \in [Coros -> {"none", "pending", "triggered", "interrupted"}]
      /\ pc \in [Coros -> States] /\ waits \in [Coros -> Nat]
      /\ \A id \in pending_events_pairs : id[1] \in Coros
  BY DEF TypeOK, Ids
<1>1. CASE UNCHANGED vars
  BY <1>1, CondInvFrame DEF vars, lockVars, condVars, awaiter
<1>2. ASSUME NEW l \in Loops, DeRegisterEventLoop(l)
      PROVE  CondInv'
  BY <1>2 DEF DeRegisterEventLoop, condVars, awaiter, CondInv, WaitersReachable,
     PairsExact, LoopsAlive, EventsInWait, Id
<1>3. ASSUME NEW c \in Coros, Chosen(c) \/ Owed(c) \/ Release(c)
      PROVE  CondInv'
  <2> USE DEF condVars, awaiter, Goto, Runs
  <2>1. CASE Acquire(c) \/ Reacquire(c)
    BY <1>0, <2>1, CondInvFrame DEF Acquire, Reacquire, LockAwait
  <2>2. CASE WaitForLocked(c)
    <3>1. /\ pc[c] = "crit" /\ UNCHANGED <<condVars, loops>>
          /\ waits' = [waits EXCEPT ![c] = @ + 1]
          /\ \E at \in {"crit", "lockwait"} : pc' = [pc EXCEPT ![c] = at]
      BY <2>2 DEF WaitForLocked, LockAwait
    <3>2. \A id \in pending_events_pairs : id[1] # c
      BY <1>0, <3>1 DEF CondInv, PairsExact, EventsInWait
    <3>3. cond_event[c] = "none"
      BY <1>0, <3>1 DEF CondInv, EventsInWait
    <3> QED
      BY <1>0, <3>1, <3>2, <3>3 DEF CondInv, WaitersReachable, PairsExact, LoopsAlive,
         EventsInWait, Id
  <2>3. CASE NotifyOne(c) \/ NotifyAll(c)
    BY <2>3, TriggerStep DEF NotifyOne, NotifyAll
  <2>4. CASE Return(c) \/ Granted(c) \/ CondSuspend(c) \/ Release(c)
    BY <1>0, <2>4, CondInvFrame DEF Return, Granted, CondSuspend, Release
  <2>5. ASSUME NEW lock \in BOOLEAN, NEW abort \in Aborts, CondRegister(c, lock, abort)
        PROVE  CondInv'
    <3> DEFINE id == <<c, waits[c] + 1>>
    <3>1. /\ pc[c] \in {"crit", "ready"}
          /\ waits' = [waits EXCEPT ![c] = @ + 1]
          /\ cond_event' = [cond_event EXCEPT ![c] = "pending"]
          /\ pending_events' = Append(pending_events, id)
          /\ pending_events_pairs' = pending_events_pairs \cup {id}
          /\ pc' = [pc EXCEPT ![c] = "suspend"] /\ loops' = loops
      BY <2>5 DEF CondRegister
    <3>2. \A i \in pending_events_pairs : i[1] # c
      BY <1>0, <3>1 DEF CondInv, PairsExact, EventsInWait
    <3>3. id \in Ids
      BY <1>0 DEF Ids
    <3>4. /\ pending_events'[Len(pending_events) + 1] = id
          /\ Len(pending_events) + 1 \in DOMAIN pending_events'
          /\ \A n \in DOMAIN pending_events :
               n \in DOMAIN pending_events' /\ pending_events'[n] = pending_events[n]
      BY <1>0, <3>1, <3>3, AppendProperties
    <3>5. WaitersReachable'
      <4>1. ASSUME NEW d \in Coros, cond_event'[d] = "pending", d # c
            PROVE  /\ Id(d) \in pending_events_pairs'
                   /\ \E n \in DOMAIN pending_events' : pending_events'[n] = Id(d)
        <5>1. cond_event[d] = "pending"
          BY <1>0, <3>1, <4>1
        <5>2. PICK n \in DOMAIN pending_events : pending_events[n] = Id(d)
          BY <5>1, WaitersTriggerable
        <5>3. Id(d) \in pending_events_pairs
          BY <5>1 DEF CondInv, WaitersReachable
        <5> HIDE DEF id
        <5> QED  BY <3>1, <3>4, <5>2, <5>3
      <4>2. \A d \in Coros : d # c => waits'[d] = waits[d]
        BY <1>0, <3>1
      <4>3. waits'[c] = waits[c] + 1
        BY <1>0, <3>1
      <4>4. id \in pending_events_pairs' /\ \E n \in DOMAIN pending_events' : pending_events'[n] = id
        BY <3>1, <3>4
      <4>5. ASSUME NEW d \in Coros, cond_event'[d] = "pending"
            PROVE  /\ <<d, waits'[d]>> \in pending_events_pairs'
                   /\ \E n \in DOMAIN pending_events' : pending_events'[n] = <<d, waits'[d]>>
        <5>1. CASE d = c
          BY <5>1, <4>3, <4>4
        <5>2. CASE d # c
          BY <5>2, <4>1, <4>2, <4>5 DEF Id
        <5> QED  BY <5>1, <5>2
      <4> QED  BY <4>5 DEF WaitersReachable, Id
    <3>6. PairsExact'
      BY <1>0, <3>1, <3>2 DEF CondInv, PairsExact, Id
    <3>7. LoopsAlive' /\ EventsInWait'
      BY <1>0, <3>1 DEF CondInv, LoopsAlive, EventsInWait
    <3> QED  BY <3>5, <3>6, <3>7 DEF CondInv
  <2>6. CASE Interrupt(c)
    BY <1>0, <2>6 DEF Interrupt, CondInv, WaitersReachable, PairsExact, LoopsAlive,
       EventsInWait, Id
  <2>7. CASE CondResume(c)
    <3>1. /\ pc[c] = "condwait" /\ cond_event[c] \in {"triggered", "interrupted"}
          /\ cond_event' = [cond_event EXCEPT ![c] = "none"]
          /\ UNCHANGED <<pending_events, pending_events_pairs, waits, loops>>
          /\ \E at \in {"dereg", "reacquire", "ready"} :
               /\ pc' = [pc EXCEPT ![c] = at]
               /\ cond_event[c] = "interrupted" => at = "dereg"
      BY <2>7 DEF CondResume, AfterWait
    <3>2. PairsExact'
      BY <1>0, <3>1 DEF CondInv, PairsExact, Id
    <3> QED
      BY <1>0, <3>1, <3>2 DEF CondInv, WaitersReachable, LoopsAlive, EventsInWait, Id
  <2>8. CASE DeRegister(c)
    <3>1. /\ pc[c] = "dereg" /\ UNCHANGED <<pending_events, cond_event, waits, loops>>
          /\ pending_events_pairs' = pending_events_pairs \ {Id(c)}
          /\ \E at \in {"reacquire", "ready"} : pc' = [pc EXCEPT ![c] = at]
      BY <2>8 DEF DeRegister, AfterWait
    <3>2. cond_event[c] = "none"
      BY <1>0, <3>1 DEF CondInv, EventsInWait
    <3>3. PairsExact'
      BY <1>0, <3>1 DEF CondInv, PairsExact, Id
    <3>4. WaitersReachable'
      BY <1>0, <3>1, <3>2 DEF CondInv, WaitersReachable, Id
    <3> QED  BY <1>0, <3>1, <3>2, <3>3, <3>4 DEF CondInv, LoopsAlive, EventsInWait
  <2> QED
    BY <1>3, <2>1, <2>2, <2>3, <2>4, <2>5, <2>6, <2>7, <2>8 DEF Chosen, Owed
<1>4. CASE Terminated
  BY <1>1, <1>4 DEF Terminated
<1> QED  BY <1>1, <1>2, <1>3, <1>4 DEF Next

\* CondInv holds in every reachable state.
LEMMA CondInvAlways == Spec => [](TypeOK /\ CondInv)
<1>1. Init => CondInv
  BY CoroLockAssumption DEF Init, CondInv, WaitersReachable, PairsExact, LoopsAlive,
     EventsInWait
<1>2. TypeOK /\ CondInv /\ [Next]_vars => CondInv'
  BY CondStep
<1> QED  BY <1>1, <1>2, TypeCorrect, PTL DEF Spec

\* However many coroutines and loops there are, whoever waits on the condition can be
\* reached by a notification: TriggerInternal drops no id of a wait that has not ended.
THEOREM WaitersStayReachable == Spec => []WaitersReachable
<1>1. CondInv => WaitersReachable
  BY DEF CondInv
<1> QED  BY <1>1, CondInvAlways, PTL

\* The ids that were not taken back are those of waits that have not ended, so the
\* pairs do not grow with interrupted waits.
THEOREM PairsAreExact == Spec => []PairsExact
<1>1. CondInv => PairsExact
  BY DEF CondInv
<1> QED  BY <1>1, CondInvAlways, PTL

\* NotifyAll wakes every coroutine that waits, however many there are and whatever
\* interrupted waits are left in the queue.
THEOREM NotifyAllWakes == Spec => NotifyAllWakesAll
<1>1. ASSUME TypeOK, CondInv, [Next]_vars
      PROVE  [(\E c \in Coros : NotifyAll(c)) => Waiting' = {}]_vars
  <2> SUFFICES ASSUME TypeOK, CondInv, TriggerAll  PROVE Waiting' = {}
    BY <1>1 DEF NotifyAll
  <2>1. \A c \in Coros : cond_event'[c] # "pending"
    BY WaitersTriggerable DEF TriggerAll, TypeOK
  <2> QED  BY <2>1 DEF Waiting
<1> QED  BY <1>1, CondInvAlways, PTL DEF Spec, NotifyAllWakesAll

\* A NotifyOne that finds coroutines waiting wakes exactly one of them, however many
\* wait and whatever interrupted waits TriggerInternal meets first.
THEOREM NotifyOneWakes == Spec => NotifyOneWakesOne
<1>1. ASSUME TypeOK, CondInv, [Next]_vars
      PROVE  [(\E c \in Coros : NotifyOne(c)) /\ Waiting # {} =>
                Cardinality(Waiting') = Cardinality(Waiting) - 1]_vars
  <2> SUFFICES ASSUME TypeOK, CondInv, TriggerInternal, Waiting # {}
               PROVE  Cardinality(Waiting') = Cardinality(Waiting) - 1
    BY <1>1 DEF NotifyOne
  <2>1. PICK c \in Coros : cond_event[c] = "pending"
    BY DEF Waiting
  <2>2. \E n \in DOMAIN pending_events : Triggerable(pending_events[n])
    BY <2>1, WaitersTriggerable
  <2>3. PICK n \in DOMAIN pending_events :
          /\ Triggerable(pending_events[n])
          /\ cond_event' = [cond_event EXCEPT ![pending_events[n][1]] = "triggered"]
    BY <2>2 DEF TriggerInternal
  <2>4. PICK d : d = pending_events[n][1]
    OBVIOUS
  <2>5. d \in Coros /\ cond_event[d] = "pending"
    BY <2>3, <2>4 DEF TypeOK, Ids, Triggerable
  <2>6. \A e \in Coros : cond_event'[e] = IF e = d THEN "triggered" ELSE cond_event[e]
    BY <2>3, <2>4, <2>5 DEF TypeOK
  <2>7. Waiting' = Waiting \ {d} /\ d \in Waiting
    BY <2>5, <2>6 DEF Waiting
  <2>8. IsFiniteSet(Waiting)
    BY CoroLockAssumption, FS_Subset DEF Waiting
  <2> QED  BY <2>7, <2>8, FS_RemoveElement
<1> QED  BY <1>1, CondInvAlways, PTL DEF Spec, NotifyOneWakesOne

-----------------------------------------------------------------------------
(* The hand-over.                                                          *)

\* A coroutine that is suspended on the lock has its LockEvent.
LockEvents == \A c \in Coros : pc[c] = "lockwait" => lock_event[c] # "none"

\* LockEvents is inductive: an event is added with the suspension, and goes when
\* its coroutine is resumed.
LEMMA LockEventsStep ==
  ASSUME TypeOK, LockEvents, [Next]_vars
  PROVE  LockEvents'
<1>0. pc \in [Coros -> States]
      /\ lock_event \in [Coros -> {"none", "pending", "triggered"}]
  BY DEF TypeOK
<1>1. CASE UNCHANGED vars
  BY <1>1 DEF LockEvents, vars, lockVars
<1>2. ASSUME NEW l \in Loops, DeRegisterEventLoop(l)
      PROVE  LockEvents'
  BY <1>2 DEF LockEvents, DeRegisterEventLoop, lockVars
<1>3. ASSUME NEW c \in Coros, Chosen(c) \/ Owed(c) \/ Release(c)
      PROVE  LockEvents'
  <2>1. CASE Acquire(c) \/ WaitForLocked(c) \/ Reacquire(c)
    BY <1>0, <2>1 DEF Acquire, WaitForLocked, Reacquire, LockAwait, Goto, LockEvents
  <2>2. CASE Release(c) \/ CondSuspend(c)
    BY <1>0, <2>2 DEF Release, CondSuspend, Unlock, lockVars, Goto, LockEvents
  <2>3. CASE Granted(c)
    BY <1>0, <2>3 DEF Granted, Goto, LockEvents
  <2>4. ASSUME NEW lock \in BOOLEAN, NEW abort \in Aborts, CondRegister(c, lock, abort)
        PROVE  LockEvents'
    BY <1>0, <2>4 DEF CondRegister, lockVars, Goto, LockEvents
  <2>5. CASE NotifyOne(c) \/ NotifyAll(c) \/ Interrupt(c)
    BY <2>5 DEF NotifyOne, NotifyAll, Interrupt, lockVars, LockEvents
  <2>6. CASE Return(c) \/ CondResume(c) \/ DeRegister(c)
    BY <1>0, <2>6 DEF Return, CondResume, DeRegister, AfterWait, lockVars, Goto, LockEvents
  <2> QED
    BY <1>3, <2>1, <2>2, <2>3, <2>4, <2>5, <2>6 DEF Chosen, Owed
<1>4. CASE Terminated
  BY <1>1, <1>4 DEF Terminated
<1> QED  BY <1>1, <1>2, <1>3, <1>4 DEF Next

\* However many coroutines and loops there are, Unlock hands the lock only to a
\* coroutine whose loop is in the group and still has its event: the assertion on
\* TriggerUserEvent's result in LockCore::Unlock cannot fail.
THEOREM HandOverIsValid == Spec => []HandOverValid
<1>1. Init => LockEvents
  BY DEF Init, LockEvents
<1>2. TypeOK /\ LockEvents /\ [Next]_vars => LockEvents'
  BY LockEventsStep
<1>3. TypeOK /\ LockInv /\ CondInv /\ LockEvents => HandOverValid
  <2> SUFFICES ASSUME TypeOK, LockInv, CondInv, LockEvents, NEW c \in Coros, Queued(c)
               PROVE  LoopOf[c] \in loops /\ lock_event[c] = "pending"
    BY DEF HandOverValid
  <2>1. pc[c] = "lockwait" /\ lock_event[c] # "triggered"
    BY DEF LockInv, LockQueueExact
  <2>2. LoopOf[c] \in loops
    BY <2>1 DEF CondInv, LoopsAlive
  <2> QED  BY <2>1, <2>2 DEF LockEvents, TypeOK
<1> QED  BY <1>1, <1>2, <1>3, LockInvAlways, CondInvAlways, TypeCorrect, PTL DEF Spec

-----------------------------------------------------------------------------
(* Lock and Condition are a monitor.                                       *)

\* Whoever owns the lock is the only one, and gives it up itself.
LEMMA OneOwner ==
  ASSUME LockInv, NEW c \in Coros, Owns(c)
  PROVE  /\ \A d \in Coros : Owns(d) => d = c
         /\ GivingUp <=> pc[c] = "suspend"
         /\ is_locked
<1>1. \A d \in Coros : Owns(d) => d = c
  BY DEF LockInv, MutualExclusion
<1>2. GivingUp <=> pc[c] = "suspend"
  BY <1>1 DEF GivingUp, Owns
<1> QED  BY <1>1, <1>2 DEF LockInv, OwnedIsLocked

\* A step that moves neither the lock nor its owner.
LEMMA LockMaps ==
  ASSUME UNCHANGED lockVars, \A c \in Coros : Owns(c)' <=> Owns(c), GivingUp' <=> GivingUp
  PROVE  UNCHANGED <<Owners, Untaken, Line>>
<1>1. {c \in Coros : Owns(c)}' = {c \in Coros : Owns(c)}
  OBVIOUS
<1> QED  BY <1>1 DEF Owners, Untaken, Line, lockVars

\* What Unlock does for an owner that then goes on without the lock.
LEMMA UnlockMaps ==
  ASSUME TypeOK, LockInv, NEW c \in Coros, pc[c] = "crit", Unlock, Goto(c, "ready"),
         UNCHANGED lock_core
  PROVE  Owners = {c} /\ Monitor!HandOn
<1> DEFINE q == pending_event_pairs
<1>1. /\ Owns(c) /\ ~GivingUp /\ is_locked /\ \A d \in Coros : Owns(d) => d = c
  BY OneOwner DEF Owns
<1>2. Owners = {c} /\ Line = q /\ Untaken = FALSE
  BY <1>1 DEF Owners, Line, Untaken
<1>3. /\ pc' = [pc EXCEPT ![c] = "ready"] /\ pc \in [Coros -> States]
      /\ lock_event \in [Coros -> {"none", "pending", "triggered"}] /\ q \in Seq(Coros)
  BY DEF Goto, TypeOK
<1>4. ~GivingUp'
  BY <1>1, <1>3 DEF GivingUp
<1>5. CASE q = <<>>
  <2>1. q' = <<>> /\ ~is_locked' /\ lock_event' = lock_event
    BY <1>5 DEF Unlock
  <2>2. \A d \in Coros : ~Owns(d)'
    BY <1>1, <1>3, <2>1 DEF Owns
  <2>3. Owners' = {} /\ Untaken' = TRUE /\ Line' = q
    BY <1>4, <1>5, <2>1, <2>2 DEF Owners, Untaken, Line
  <2> QED  BY <1>2, <1>5, <2>3 DEF Monitor!HandOn
<1>6. CASE q # <<>>
  <2>1. /\ q' = Tail(q) /\ is_locked' /\ lock_event' = [lock_event EXCEPT ![Head(q)] = "triggered"]
    BY <1>6 DEF Unlock
  <2>2. Head(q) \in Coros /\ pc[Head(q)] = "lockwait"
    <3>1. Head(q) = q[1] /\ 1 \in DOMAIN q /\ Head(q) \in Coros
      BY <1>3, <1>6
    <3> QED  BY <3>1 DEF LockInv, LockQueueExact, Queued
  <2>3. \A d \in Coros : Owns(d)' <=> d = Head(q)
    BY <1>1, <1>3, <2>1, <2>2 DEF Owns
  <2>4. Owners' = {Head(q)} /\ Untaken' = FALSE /\ Line' = Tail(q)
    BY <1>4, <2>1, <2>2, <2>3 DEF Owners, Untaken, Line
  <2> QED  BY <1>2, <1>6, <2>4 DEF Monitor!HandOn
<1> QED  BY <1>5, <1>6

\* The registration of a wait with the lock hands the lock on, for all that anybody can
\* tell.
LEMMA RegisterMaps ==
  ASSUME TypeOK, LockInv, NEW c \in Coros, pc[c] = "crit", Goto(c, "suspend"),
         lock_core' = [lock_core EXCEPT ![c] = TRUE], UNCHANGED lockVars
  PROVE  Owners = {c} /\ Monitor!HandOn
<1> DEFINE q == pending_event_pairs
<1>1. /\ Owns(c) /\ ~GivingUp /\ is_locked /\ \A d \in Coros : Owns(d) => d = c
  BY OneOwner DEF Owns
<1>2. Owners = {c} /\ Line = q /\ Untaken = FALSE
  BY <1>1 DEF Owners, Line, Untaken
<1>3. GivingUp' /\ q' = q
  BY DEF GivingUp, Goto, TypeOK, lockVars
<1>4. /\ Owners' = (IF q = <<>> THEN {} ELSE {Head(q)}) /\ Untaken' = (q = <<>>)
      /\ Line' = IF q # <<>> THEN Tail(q) ELSE q
  BY <1>3 DEF Owners, Untaken, Line
<1> QED  BY <1>2, <1>4 DEF Monitor!HandOn

\* By the time Unlock runs, the monitor has handed the lock on.
LEMMA SuspendMaps ==
  ASSUME TypeOK, LockInv, NEW c \in Coros, pc[c] = "suspend", lock_core[c], Unlock,
         Goto(c, "condwait"), UNCHANGED lock_core
  PROVE  UNCHANGED <<Owners, Untaken, Line>>
<1> DEFINE q == pending_event_pairs
<1>1. /\ Owns(c) /\ GivingUp /\ is_locked /\ \A d \in Coros : Owns(d) => d = c
  BY OneOwner DEF Owns
<1>2. /\ pc' = [pc EXCEPT ![c] = "condwait"] /\ pc \in [Coros -> States]
      /\ lock_event \in [Coros -> {"none", "pending", "triggered"}] /\ q \in Seq(Coros)
  BY DEF Goto, TypeOK
<1>3. ~GivingUp'
  BY <1>1, <1>2 DEF GivingUp, Owns
<1>4. CASE q = <<>>
  <2>1. q' = <<>> /\ ~is_locked' /\ lock_event' = lock_event
    BY <1>4 DEF Unlock
  <2>2. \A d \in Coros : ~Owns(d)'
    BY <1>1, <1>2, <2>1 DEF Owns
  <2> QED  BY <1>1, <1>3, <1>4, <2>1, <2>2 DEF Owners, Untaken, Line
<1>5. CASE q # <<>>
  <2>1. /\ q' = Tail(q) /\ is_locked' /\ lock_event' = [lock_event EXCEPT ![Head(q)] = "triggered"]
    BY <1>5 DEF Unlock
  <2>2. Head(q) \in Coros /\ pc[Head(q)] = "lockwait"
    <3>1. Head(q) = q[1] /\ 1 \in DOMAIN q /\ Head(q) \in Coros
      BY <1>2, <1>5
    <3> QED  BY <3>1 DEF LockInv, LockQueueExact, Queued
  <2>3. \A d \in Coros : Owns(d)' <=> d = Head(q)
    BY <1>1, <1>2, <2>1, <2>2 DEF Owns
  <2> QED  BY <1>1, <1>3, <1>5, <2>1, <2>2, <2>3 DEF Owners, Untaken, Line
<1> QED  BY <1>4, <1>5

\* A coroutine that is about to ask for the lock is neither its owner nor in line.
LEMMA NotOurs ==
  ASSUME TypeOK, LockInv, NEW c \in Coros, pc[c] \in {"ready", "reacquire"}
  PROVE  c \notin Owners /\ ~Monitor!InLine(c)
<1> DEFINE q == pending_event_pairs
<1>1. q \in Seq(Coros) /\ ~Owns(c)
  BY DEF TypeOK, Owns
<1>2. \A n \in DOMAIN q : q[n] # c
  BY DEF LockInv, LockQueueExact, Queued
<1>3. q # <<>> => /\ Head(q) = q[1] /\ 1 \in DOMAIN q /\ Head(q) \in Coros
                  /\ \A n \in DOMAIN Tail(q) : n + 1 \in DOMAIN q /\ Tail(q)[n] = q[n + 1]
  BY <1>1
<1> QED  BY <1>1, <1>2, <1>3 DEF Owners, Line, Monitor!InLine

\* LockAwait by a coroutine that neither owns the lock nor waits for it.  While the lock
\* is being given up, the first to come will be handed it: it has entered.
LEMMA EnterMaps ==
  ASSUME TypeOK, LockInv, NEW c \in Coros, pc[c] \in {"ready", "reacquire"}, LockAwait(c),
         UNCHANGED lock_core
  PROVE  /\ c \notin Owners /\ ~Monitor!InLine(c)
         /\ \/ Untaken /\ Owners' = {c} /\ ~Untaken' /\ UNCHANGED Line
            \/ ~Untaken /\ Line' = Append(Line, c) /\ UNCHANGED <<Owners, Untaken>>
<1> DEFINE q == pending_event_pairs
<1>1. /\ pc \in [Coros -> States] /\ q \in Seq(Coros) /\ ~Owns(c)
      /\ lock_event \in [Coros -> {"none", "pending", "triggered"}]
  BY DEF TypeOK, Owns
<1>2. c \notin Owners /\ ~Monitor!InLine(c)
  BY NotOurs
<1>3. CASE ~is_locked
  <2>1. /\ is_locked' = TRUE /\ UNCHANGED <<q, lock_event>>
        /\ pc' = [pc EXCEPT ![c] = "crit"]
    BY <1>3 DEF LockAwait, Goto
  <2>2. (\A d \in Coros : ~Owns(d)) /\ ~GivingUp
    BY <1>3 DEF LockInv, OwnedIsLocked, GivingUp, Owns
  <2>3. (\A d \in Coros : Owns(d)' <=> d = c) /\ ~GivingUp'
    BY <1>1, <2>1, <2>2 DEF Owns, GivingUp
  <2> QED  BY <1>2, <1>3, <2>1, <2>2, <2>3 DEF Owners, Untaken, Line
<1>4. CASE is_locked
  <2>1. /\ is_locked' /\ q' = Append(q, c)
        /\ lock_event' = [lock_event EXCEPT ![c] = "pending"]
        /\ pc' = [pc EXCEPT ![c] = "lockwait"]
    BY <1>4 DEF LockAwait, Goto
  <2>2. /\ \A d \in Coros : Owns(d)' <=> Owns(d)
        /\ GivingUp' <=> GivingUp
    BY <1>1, <2>1 DEF Owns, GivingUp
  <2>3. {d \in Coros : Owns(d)}' = {d \in Coros : Owns(d)}
    BY <2>2
  <2>4. q' # <<>>
    BY <1>1, <2>1
  <2>5. CASE ~GivingUp
    <3>1. Owners' = Owners /\ Line' = Append(Line, c) /\ ~Untaken /\ ~Untaken'
      BY <1>4, <2>1, <2>2, <2>3, <2>5 DEF Owners, Line, Untaken
    <3> QED  BY <1>2, <1>4, <2>1, <2>2, <2>5, <3>1 DEF Untaken
  <2>6. CASE GivingUp /\ q = <<>>
    <3>1. Head(q') = c /\ Tail(q') = <<>>
      BY <1>1, <2>1, <2>6
    <3> QED  BY <1>2, <2>2, <2>4, <2>6, <3>1 DEF Owners, Line, Untaken
  <2>7. CASE GivingUp /\ q # <<>>
    <3>1. Head(q') = Head(q) /\ Tail(q') = Append(Tail(q), c)
      BY <1>1, <2>1, <2>7
    <3> QED  BY <1>2, <2>2, <2>4, <2>7, <3>1 DEF Owners, Line, Untaken
  <2> QED  BY <2>5, <2>6, <2>7
<1> QED  BY <1>1, <1>3, <1>4 DEF TypeOK

\* The timed wait with the lock: its caller queues up behind itself.
LEMMA LoseMaps ==
  ASSUME TypeOK, LockInv, NEW c \in Coros, pc[c] = "crit", LockAwait(c), UNCHANGED lock_core
  PROVE  Owners = {c} /\ Owners' = {} /\ Line' = Append(Line, c) /\ UNCHANGED Untaken
<1> DEFINE q == pending_event_pairs
<1>1. /\ Owns(c) /\ ~GivingUp /\ is_locked /\ \A d \in Coros : Owns(d) => d = c
  BY OneOwner DEF Owns
<1>2. /\ is_locked' /\ q' = Append(q, c) /\ lock_event' = [lock_event EXCEPT ![c] = "pending"]
      /\ pc' = [pc EXCEPT ![c] = "lockwait"]
  BY <1>1 DEF LockAwait, Goto
<1>3. (\A d \in Coros : ~Owns(d)') /\ ~GivingUp'
  BY <1>1, <1>2 DEF Owns, GivingUp, TypeOK
<1> QED  BY <1>1, <1>2, <1>3 DEF Owners, Untaken, Line

\* The coroutine that was handed the lock goes on.
LEMMA GrantedMaps ==
  ASSUME TypeOK, NEW c \in Coros, Granted(c)
  PROVE  UNCHANGED <<Owners, Untaken, Line>>
<1>1. /\ pc' = [pc EXCEPT ![c] = "crit"] /\ pc[c] = "lockwait" /\ lock_event[c] = "triggered"
      /\ lock_event' = [lock_event EXCEPT ![c] = "none"]
      /\ UNCHANGED <<is_locked, pending_event_pairs, lock_core>>
  BY DEF Granted, Runs, Goto, awaiter
<1>2. /\ \A d \in Coros : Owns(d)' <=> Owns(d)
      /\ GivingUp' <=> GivingUp
  BY <1>1 DEF Owns, GivingUp, TypeOK
<1>3. {d \in Coros : Owns(d)}' = {d \in Coros : Owns(d)}
  BY <1>2
<1> QED  BY <1>1, <1>2, <1>3 DEF Owners, Untaken, Line

\* A coroutine that is ready, or in the critical section, waits for nothing.
LEMMA AwakeMaps ==
  ASSUME TypeOK, CondInv, NEW c \in Coros, pc[c] \in {"ready", "crit", "reacquire"}
  PROVE  c \notin Waiting /\ (pc[c] # "reacquire" => c \notin Back)
BY DEF Waiting, Back, CondInv, EventsInWait, TypeOK

\* Every step is a step of the monitor, or none.
LEMMA MonitorStep ==
  ASSUME TypeOK, LockInv, CondInv, [Next]_vars
  PROVE  [Monitor!Next]_(Monitor!monitor)
<1> USE DEF Monitor!monitor
<1>0. /\ pc \in [Coros -> States] /\ lock_core \in [Coros -> BOOLEAN]
      /\ cond_event \in [Coros -> {"none", "pending", "triggered", "interrupted"}]
  BY DEF TypeOK
<1>1. CASE UNCHANGED vars
  <2>1. UNCHANGED <<Waiting, Back>> /\ UNCHANGED lockVars /\ GivingUp' = GivingUp
        /\ \A d \in Coros : Owns(d)' <=> Owns(d)
    BY <1>1 DEF vars, lockVars, condVars, awaiter, Waiting, Back, Owns, GivingUp
  <2> QED  BY <2>1, LockMaps
<1>2. ASSUME NEW l \in Loops, DeRegisterEventLoop(l)
      PROVE  [Monitor!Next]_(Monitor!monitor)
  <2>1. UNCHANGED <<Waiting, Back>> /\ UNCHANGED lockVars /\ GivingUp' = GivingUp
        /\ \A d \in Coros : Owns(d)' <=> Owns(d)
    BY <1>2 DEF DeRegisterEventLoop, lockVars, condVars, awaiter, Waiting, Back, Owns, GivingUp
  <2> QED  BY <2>1, LockMaps
<1>3. ASSUME NEW c \in Coros, Chosen(c) \/ Owed(c) \/ Release(c)
      PROVE  [Monitor!Next]_(Monitor!monitor)
  <2>1. CASE Acquire(c) \/ Reacquire(c)
    <3>1. /\ pc[c] \in {"ready", "reacquire"} /\ LockAwait(c)
          /\ UNCHANGED <<cond_event, lock_core>>
      BY <2>1 DEF Acquire, Reacquire, Runs, condVars, awaiter
    <3>2. UNCHANGED Waiting /\ c \notin Waiting
      BY <3>1, AwakeMaps DEF Waiting
    <3>3. PICK at \in {"crit", "lockwait"} : pc' = [pc EXCEPT ![c] = at]
      BY <3>1 DEF LockAwait, Goto
    <3>4. Back' = Back \ {c}
      BY <1>0, <3>1, <3>3 DEF Back
    <3>5. Monitor!Enter(c)
      BY <3>1, <3>2, <3>4, EnterMaps DEF Monitor!Enter
    <3> QED  BY <3>5 DEF Monitor!Next
  <2>2. CASE WaitForLocked(c)
    <3>1. /\ pc[c] = "crit" /\ LockAwait(c) /\ LockedTimeouts
          /\ UNCHANGED <<cond_event, lock_core>>
      BY <2>2 DEF WaitForLocked, Runs, condVars
    <3>2. PICK at \in {"crit", "lockwait"} : pc' = [pc EXCEPT ![c] = at]
      BY <3>1 DEF LockAwait, Goto
    <3>3. UNCHANGED <<Waiting, Back>>
      BY <1>0, <3>1, <3>2 DEF Waiting, Back
    <3>4. Monitor!Lose(c)
      BY <3>1, <3>3, LoseMaps DEF Monitor!Lose
    <3> QED  BY <3>4 DEF Monitor!Next
  <2>3. CASE Release(c)
    <3>1. /\ pc[c] = "crit" /\ Unlock /\ Goto(c, "ready") /\ UNCHANGED <<cond_event, lock_core>>
      BY <2>3 DEF Release, Runs, condVars, awaiter
    <3>2. UNCHANGED <<Waiting, Back>>
      BY <1>0, <3>1 DEF Waiting, Back, Goto
    <3>3. Monitor!Exit(c)
      BY <3>1, <3>2, UnlockMaps DEF Monitor!Exit
    <3> QED  BY <3>3 DEF Monitor!Next
  <2>4. ASSUME NEW lock \in BOOLEAN, NEW abort \in Aborts, CondRegister(c, lock, abort)
        PROVE  [Monitor!Next]_(Monitor!monitor)
    <3>1. /\ pc[c] = (IF lock THEN "crit" ELSE "ready") /\ Goto(c, "suspend")
          /\ cond_event' = [cond_event EXCEPT ![c] = "pending"]
          /\ lock_core' = [lock_core EXCEPT ![c] = lock] /\ UNCHANGED lockVars
      BY <2>4 DEF CondRegister, Runs
    <3>2. Waiting' = Waiting \cup {c} /\ c \notin Waiting /\ c \notin Back
      BY <1>0, <3>1, AwakeMaps DEF Waiting
    <3>3. Back' = IF lock THEN Back \cup {c} ELSE Back
      BY <1>0, <3>1, <3>2 DEF Back, Goto
    <3>4. CASE lock
      <4>1. Monitor!Wait(c)
        BY <3>1, <3>2, <3>3, <3>4, RegisterMaps DEF Monitor!Wait
      <4> QED  BY <4>1 DEF Monitor!Next
    <3>5. CASE ~lock
      <4>1. GivingUp' = GivingUp /\ \A d \in Coros : Owns(d)' <=> Owns(d)
        BY <1>0, <3>1, <3>5 DEF GivingUp, Owns, Goto, lockVars
      <4>2. UNCHANGED <<Owners, Untaken, Line>>
        BY <3>1, <4>1, LockMaps
      <4>3. c \notin Owners /\ ~Monitor!InLine(c)
        BY <3>1, <3>5, NotOurs
      <4>4. Monitor!WaitUnlocked(c)
        BY <3>2, <3>3, <3>5, <4>2, <4>3 DEF Monitor!WaitUnlocked
      <4> QED  BY <4>4 DEF Monitor!Next
    <3> QED  BY <3>4, <3>5
  <2>5. CASE NotifyOne(c)
    <3>1. TriggerInternal /\ UNCHANGED lockVars /\ UNCHANGED <<pc, lock_core>>
      BY <2>5 DEF NotifyOne, awaiter
    <3>2. /\ UNCHANGED Back /\ GivingUp' = GivingUp
          /\ \A d \in Coros : Owns(d)' <=> Owns(d)
      BY <3>1 DEF Back, GivingUp, Owns, lockVars
    <3>3. UNCHANGED <<Owners, Untaken, Line>>
      BY <3>1, <3>2, LockMaps
    <3>4. \/ UNCHANGED cond_event
          \/ \E d \in Coros : cond_event[d] = "pending"
                /\ cond_event' = [cond_event EXCEPT ![d] = "triggered"]
      BY <3>1 DEF TriggerInternal, Triggerable, TypeOK, Ids
    <3>5. CASE UNCHANGED cond_event
      BY <3>2, <3>3, <3>5 DEF Waiting
    <3>6. ASSUME NEW d \in Coros, cond_event[d] = "pending",
                 cond_event' = [cond_event EXCEPT ![d] = "triggered"]
          PROVE  Monitor!Wake(d)
      <4>1. Waiting' = Waiting \ {d} /\ d \in Waiting
        BY <1>0, <3>6 DEF Waiting
      <4> QED  BY <3>2, <3>3, <4>1 DEF Monitor!Wake
    <3> QED  BY <3>4, <3>5, <3>6 DEF Monitor!Next
  <2>6. CASE NotifyAll(c)
    <3>1. TriggerAll /\ UNCHANGED lockVars /\ UNCHANGED <<pc, lock_core>>
      BY <2>6 DEF NotifyAll, awaiter
    <3>2. /\ UNCHANGED Back /\ GivingUp' = GivingUp
          /\ \A d \in Coros : Owns(d)' <=> Owns(d)
      BY <3>1 DEF Back, GivingUp, Owns, lockVars
    <3>3. UNCHANGED <<Owners, Untaken, Line>>
      BY <3>1, <3>2, LockMaps
    <3>4. \A d \in Coros : cond_event'[d] # "pending"
      BY <1>0, <3>1, WaitersTriggerable DEF TriggerAll
    <3>5. Waiting' = {}
      BY <3>4 DEF Waiting
    <3> QED  BY <3>2, <3>3, <3>5 DEF Monitor!Next, Monitor!NotifyAll
  <2>7. CASE Interrupt(c)
    <3>1. /\ cond_event[c] = "pending" /\ cond_event' = [cond_event EXCEPT ![c] = "interrupted"]
          /\ UNCHANGED lockVars /\ UNCHANGED <<pc, lock_core>>
      BY <2>7 DEF Interrupt, awaiter
    <3>2. /\ UNCHANGED Back /\ GivingUp' = GivingUp
          /\ \A d \in Coros : Owns(d)' <=> Owns(d)
      BY <3>1 DEF Back, GivingUp, Owns, lockVars
    <3>3. UNCHANGED <<Owners, Untaken, Line>>
      BY <3>1, <3>2, LockMaps
    <3>4. Waiting' = Waiting \ {c} /\ c \in Waiting
      BY <1>0, <3>1 DEF Waiting
    <3> QED  BY <3>2, <3>3, <3>4 DEF Monitor!Next, Monitor!Wake
  <2>8. CASE Granted(c)
    <3>1. UNCHANGED <<cond_event, lock_core>> /\ pc[c] = "lockwait" /\ pc' = [pc EXCEPT ![c] = "crit"]
      BY <2>8 DEF Granted, Runs, Goto, condVars, awaiter
    <3>2. UNCHANGED <<Waiting, Back>>
      BY <1>0, <3>1 DEF Waiting, Back
    <3> QED  BY <2>8, <3>2, GrantedMaps
  <2>9. CASE CondSuspend(c)
    <3>1. /\ pc[c] = "suspend" /\ Goto(c, "condwait") /\ UNCHANGED <<cond_event, lock_core>>
          /\ IF lock_core[c] THEN Unlock ELSE UNCHANGED lockVars
      BY <2>9 DEF CondSuspend, Runs, condVars, awaiter
    <3>2. UNCHANGED <<Waiting, Back>>
      BY <1>0, <3>1 DEF Waiting, Back, Goto
    <3>3. CASE lock_core[c]
      BY <3>1, <3>2, <3>3, SuspendMaps
    <3>4. CASE ~lock_core[c]
      <4>1. GivingUp' = GivingUp /\ \A d \in Coros : Owns(d)' <=> Owns(d)
        BY <1>0, <3>1, <3>4 DEF GivingUp, Owns, Goto, lockVars
      <4> QED  BY <3>1, <3>2, <3>4, <4>1, LockMaps
    <3> QED  BY <3>3, <3>4
  <2>10. CASE Return(c) \/ CondResume(c) \/ DeRegister(c)
    <3>1. PICK at \in {"done", "dereg", "reacquire", "ready"} :
            /\ pc' = [pc EXCEPT ![c] = at]
            /\ pc[c] \in {"ready", "condwait", "dereg"} /\ (pc[c] = "ready" => at = "done")
            /\ pc[c] # "ready" => at \in {"dereg", AfterWait(c)}
            /\ UNCHANGED lockVars /\ UNCHANGED lock_core
      BY <2>10 DEF Return, CondResume, DeRegister, Runs, Goto, AfterWait, awaiter
    <3>2. \A d \in Coros : cond_event'[d] = "pending" <=> cond_event[d] = "pending"
      BY <1>0, <2>10 DEF Return, CondResume, DeRegister, condVars
    <3>3. UNCHANGED Waiting
      BY <3>2 DEF Waiting
    <3>4. GivingUp' = GivingUp /\ \A d \in Coros : Owns(d)' <=> Owns(d)
      BY <1>0, <3>1 DEF GivingUp, Owns, lockVars
    <3>5. UNCHANGED Back
      BY <1>0, <3>1 DEF Back, AfterWait
    <3> QED  BY <3>1, <3>3, <3>4, <3>5, LockMaps
  <2> QED
    BY <1>3, <2>1, <2>2, <2>3, <2>4, <2>5, <2>6, <2>7, <2>8, <2>9, <2>10 DEF Chosen, Owed
<1>4. CASE Terminated
  BY <1>1, <1>4 DEF Terminated
<1> QED  BY <1>1, <1>2, <1>3, <1>4 DEF Next

\* However many coroutines and loops there are, LockCore and ConditionCore, with a mutex
\* each, behave as one monitor: one owner, who is followed in the order of the requests,
\* and waits that give up the lock and begin in one step.
THEOREM ImplementsMonitor == Spec => IsMonitor
<1>1. Init => Monitor!Init
  <2> SUFFICES ASSUME Init PROVE Monitor!Init
    OBVIOUS
  <2>1. (\A c \in Coros : ~Owns(c)) /\ ~GivingUp
    BY DEF Init, Owns, GivingUp
  <2>2. Owners = {} /\ Untaken = TRUE /\ Line = <<>>
    BY <2>1 DEF Init, Owners, Untaken, Line
  <2>3. Waiting = {} /\ Back = {}
    BY DEF Init, Waiting, Back
  <2> QED  BY <2>2, <2>3 DEF Monitor!Init
<1>2. TypeOK /\ LockInv /\ CondInv /\ [Next]_vars => [Monitor!Next]_(Monitor!monitor)
  BY MonitorStep
<1> QED
  BY <1>1, <1>2, TypeCorrect, LockInvAlways, CondInvAlways, PTL DEF Spec, IsMonitor, Monitor!Spec
=============================================================================
