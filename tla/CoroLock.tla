------------------------------ MODULE CoroLock ------------------------------
(***************************************************************************)
(* coro::Lock and coro::Condition: LockCore, ConditionCore and their       *)
(* awaiters, used by coroutines of several event loops, each its own       *)
(* thread.                                                                 *)
(*                                                                         *)
(* LockCore::lock_ and ConditionCore::lock_ are real mutexes, so what runs *)
(* under one of them is one step.  Between two such steps coroutines of    *)
(* other loops run; coroutines of one loop take turns, and change only     *)
(* where one of them suspends.                                             *)
(*                                                                         *)
(* Of a loop's Poller only what Poller.tla shows it to do is kept: a user  *)
(* event is pending until TriggerUserEvent moves it, or until its bound    *)
(* event (timeout or cancellation) interrupts it, and then its coroutine   *)
(* is resumed.                                                             *)
(***************************************************************************)
EXTENDS Integers, Sequences, FiniteSets

CONSTANTS
  Coros,        \* the coroutines
  Loops,        \* the event loops, one thread each
  LoopOf,       \* the loop each coroutine runs on
  Aborts,       \* abort_handle_ of the condition waits: "none", "token", "timeout"
  LockedTimeouts, \* TRUE: coroutines call WaitFor(lock, timeout)
  MaxWaits      \* how often a coroutine waits on the condition

ASSUME CoroLockAssumption ==
  /\ IsFiniteSet(Coros) /\ LoopOf \in [Coros -> Loops]
  /\ Aborts \subseteq {"none", "token", "timeout"}
  /\ LockedTimeouts \in BOOLEAN /\ MaxWaits \in Nat

VARIABLES
  pc,                    \* where each coroutine is
  is_locked,             \* LockCore
  pending_event_pairs,   \* LockCore: the waiting coroutines, in order
  lock_event,            \* each coroutine's LockEvent, in its loop's poller
  pending_events,        \* ConditionCore: the ids of the waits, in order
  pending_events_pairs,  \* ConditionCore: the ids that were not taken back
  cond_event,            \* each coroutine's ConditionEvent, in its loop's poller
  abort_handle, lock_core, \* the ConditionAwaiter's fields
  waits,                 \* number of condition waits so far; names the events
  loops                  \* EventLoopGroup::loops_

lockVars == <<is_locked, pending_event_pairs, lock_event>>
condVars == <<pending_events, pending_events_pairs, cond_event>>
awaiter  == <<abort_handle, lock_core, waits>>
vars == <<pc, lockVars, condVars, awaiter, loops>>

Init ==
  /\ pc = [c \in Coros |-> "ready"]
  /\ is_locked = FALSE /\ pending_event_pairs = <<>>
  /\ lock_event = [c \in Coros |-> "none"]
  /\ pending_events = <<>> /\ pending_events_pairs = {}
  /\ cond_event = [c \in Coros |-> "none"]
  /\ abort_handle = [c \in Coros |-> "none"] /\ lock_core = [c \in Coros |-> FALSE]
  /\ waits = [c \in Coros |-> 0]
  /\ loops = Loops

\* The loop's thread is not in the middle of another coroutine's await.
Free(c) ==
  \A d \in Coros \ {c} :
    LoopOf[d] = LoopOf[c] => pc[d] \notin {"suspend", "dereg", "reacquire"}

Runs(c, at) == pc[c] = at /\ LoopOf[c] \in loops /\ Free(c)
Goto(c, at) == pc' = [pc EXCEPT ![c] = at]

-----------------------------------------------------------------------------
(* LockCore.                                                               *)

\* Mutants of Unlock: the lock is freed while it is handed on; the event of the
\* coroutine that was served is not triggered.
UnlockFrees ==
  /\ is_locked' = FALSE
  /\ \/ /\ pending_event_pairs = <<>>
        /\ UNCHANGED <<pending_event_pairs, lock_event>>
     \/ /\ pending_event_pairs # <<>>
        /\ lock_event' = [lock_event EXCEPT ![Head(pending_event_pairs)] = "triggered"]
        /\ pending_event_pairs' = Tail(pending_event_pairs)

UnlockSilent ==
  /\ is_locked' = (pending_event_pairs # <<>>)
  /\ pending_event_pairs' = IF pending_event_pairs = <<>> THEN <<>>
                                                         ELSE Tail(pending_event_pairs)
  /\ UNCHANGED lock_event

\* Unlock: is_locked_ stays set when the lock is handed on.
Unlock ==
  \/ /\ pending_event_pairs = <<>>
     /\ is_locked' = FALSE
     /\ UNCHANGED <<pending_event_pairs, lock_event>>
  \/ /\ pending_event_pairs # <<>>
     /\ lock_event' = [lock_event EXCEPT ![Head(pending_event_pairs)] = "triggered"]
     /\ pending_event_pairs' = Tail(pending_event_pairs)
     /\ is_locked' = TRUE

\* LockAwaiter: lock_ is held from await_ready to the end of await_suspend.
LockAwait(c) ==
  \/ /\ ~is_locked
     /\ is_locked' = TRUE
     /\ Goto(c, "crit")
     /\ UNCHANGED <<pending_event_pairs, lock_event>>
  \/ /\ is_locked
     /\ lock_event' = [lock_event EXCEPT ![c] = "pending"]
     /\ pending_event_pairs' = Append(pending_event_pairs, c)
     /\ Goto(c, "lockwait")
     /\ UNCHANGED is_locked

\* co_await lock.Acquire()
Acquire(c) ==
  /\ Runs(c, "ready") /\ LockAwait(c)
  /\ UNCHANGED <<condVars, awaiter, loops>>

\* The loop resumes a coroutine whose LockEvent was triggered.
Granted(c) ==
  /\ Runs(c, "lockwait") /\ lock_event[c] = "triggered"
  /\ lock_event' = [lock_event EXCEPT ![c] = "none"]
  /\ Goto(c, "crit")
  /\ UNCHANGED <<is_locked, pending_event_pairs, condVars, awaiter, loops>>

\* lock.Release(), by the coroutine that holds the lock
Release(c) ==
  /\ Runs(c, "crit") /\ Unlock
  /\ Goto(c, "ready")
  /\ UNCHANGED <<condVars, awaiter, loops>>

-----------------------------------------------------------------------------
(* ConditionCore and ConditionAwaiter.                                     *)

Id(c) == <<c, waits[c]>>

\* await_suspend up to ConditionCore::Register.  With a lock the caller holds it.
CondRegister(c, lock, abort) ==
  /\ Runs(c, IF lock THEN "crit" ELSE "ready") /\ waits[c] < MaxWaits
  /\ waits' = [waits EXCEPT ![c] = @ + 1]
  /\ cond_event' = [cond_event EXCEPT ![c] = "pending"]
  /\ pending_events' = Append(pending_events, <<c, waits[c] + 1>>)
  /\ pending_events_pairs' = pending_events_pairs \cup {<<c, waits[c] + 1>>}
  /\ abort_handle' = [abort_handle EXCEPT ![c] = abort]
  /\ lock_core' = [lock_core EXCEPT ![c] = lock]
  /\ Goto(c, "suspend")
  /\ UNCHANGED <<lockVars, loops>>

\* The rest of await_suspend: the bound event is added and the lock given up.
CondSuspend(c) ==
  /\ Runs(c, "suspend")
  /\ IF lock_core[c] THEN Unlock ELSE UNCHANGED lockVars
  /\ Goto(c, "condwait")
  /\ UNCHANGED <<condVars, awaiter, loops>>

\* The poller's side of a timeout or a cancellation: the event leaves user_events_.
Interrupt(c) ==
  /\ Runs(c, "condwait") /\ abort_handle[c] # "none" /\ cond_event[c] = "pending"
  /\ cond_event' = [cond_event EXCEPT ![c] = "interrupted"]
  /\ UNCHANGED <<pc, lockVars, pending_events, pending_events_pairs, awaiter, loops>>

\* Mutant: the lock is not acquired again.
AfterWaitUnlocked(c) == "ready"

\* Wait(lock) acquires the lock again.
AfterWait(c) == IF lock_core[c] THEN "reacquire" ELSE "ready"

\* ConditionAwaiter::await_resume
CondResume(c) ==
  /\ Runs(c, "condwait") /\ cond_event[c] \in {"triggered", "interrupted"}
  /\ cond_event' = [cond_event EXCEPT ![c] = "none"]
  /\ Goto(c, IF cond_event[c] = "interrupted" THEN "dereg" ELSE AfterWait(c))
  /\ UNCHANGED <<lockVars, pending_events, pending_events_pairs, awaiter, loops>>

\* ConditionCore::DeRegister, one step here although it does not take lock_.
DeRegister(c) ==
  /\ Runs(c, "dereg")
  /\ pending_events_pairs' = pending_events_pairs \ {Id(c)}
  /\ Goto(c, AfterWait(c))
  /\ UNCHANGED <<lockVars, pending_events, cond_event, awaiter, loops>>

Reacquire(c) ==
  /\ Runs(c, "reacquire") /\ LockAwait(c)
  /\ UNCHANGED <<condVars, awaiter, loops>>

\* WaitFor(lock, timeout): the awaiter is built and dropped; only the Acquire of
\* the lock the caller already holds is awaited.
WaitForLocked(c) ==
  /\ LockedTimeouts /\ Runs(c, "crit") /\ waits[c] < MaxWaits
  /\ waits' = [waits EXCEPT ![c] = @ + 1]
  /\ abort_handle' = [abort_handle EXCEPT ![c] = "timeout"]
  /\ LockAwait(c)
  /\ UNCHANGED <<condVars, lock_core, loops>>

\* TriggerUserEvent succeeds for this id: its loop exists and still has the event.
Triggerable(id) ==
  /\ id \in pending_events_pairs
  /\ id = Id(id[1]) /\ cond_event[id[1]] = "pending"
  /\ LoopOf[id[1]] \in loops

\* Mutants of TriggerInternal: it stops at the first id, triggered or not; it
\* clears the queue after the one it triggered.
TriggerInternalOnce ==
  \/ /\ pending_events # <<>>
     /\ cond_event' = [c \in Coros |->
          IF Triggerable(Head(pending_events)) /\ c = Head(pending_events)[1]
          THEN "triggered" ELSE cond_event[c]]
     /\ pending_events' = Tail(pending_events)
     /\ pending_events_pairs' = pending_events_pairs \ {Head(pending_events)}
  \/ pending_events = <<>> /\ UNCHANGED condVars

TriggerInternalDrops ==
  /\ cond_event' = [c \in Coros |->
       IF \E n \in DOMAIN pending_events :
            /\ c = pending_events[n][1] /\ Triggerable(pending_events[n])
            /\ \A m \in 1 .. n - 1 : ~Triggerable(pending_events[m])
       THEN "triggered" ELSE cond_event[c]]
  /\ pending_events' = <<>> /\ pending_events_pairs' = {}

\* TriggerInternal: ids are popped, and taken off the pairs, up to the first one
\* whose event could be triggered.
TriggerInternal ==
  \/ \E n \in DOMAIN pending_events :
       /\ Triggerable(pending_events[n])
       /\ \A m \in 1 .. n - 1 : ~Triggerable(pending_events[m])
       /\ cond_event' = [cond_event EXCEPT ![pending_events[n][1]] = "triggered"]
       /\ pending_events' = SubSeq(pending_events, n + 1, Len(pending_events))
       /\ pending_events_pairs' =
            pending_events_pairs \ {pending_events[m] : m \in 1 .. n}
  \/ /\ \A n \in DOMAIN pending_events : ~Triggerable(pending_events[n])
     /\ pending_events' = <<>>
     /\ pending_events_pairs' =
          pending_events_pairs \ {pending_events[m] : m \in DOMAIN pending_events}
     /\ UNCHANGED cond_event

\* TriggerAll: TriggerInternal until pending_events_ is empty
TriggerAll ==
  LET hit == {c \in Coros : \E n \in DOMAIN pending_events :
                 pending_events[n] = Id(c) /\ Triggerable(pending_events[n])}
  IN  /\ cond_event' = [c \in Coros |-> IF c \in hit THEN "triggered" ELSE cond_event[c]]
      /\ pending_events' = <<>>
      /\ pending_events_pairs' =
           pending_events_pairs \ {pending_events[m] : m \in DOMAIN pending_events}

NotifyOne(c) ==
  /\ Runs(c, "ready") \/ Runs(c, "crit")
  /\ TriggerInternal
  /\ UNCHANGED <<pc, lockVars, awaiter, loops>>

NotifyAll(c) ==
  /\ Runs(c, "ready") \/ Runs(c, "crit")
  /\ TriggerAll
  /\ UNCHANGED <<pc, lockVars, awaiter, loops>>

-----------------------------------------------------------------------------
\* The coroutine returns; with its last coroutine the loop is done and its
\* thread's EventLoop leaves the group.
Return(c) ==
  /\ Runs(c, "ready")
  /\ Goto(c, "done")
  /\ UNCHANGED <<lockVars, condVars, awaiter, loops>>

\* Mutant: a coroutine that is suspended on the lock does not keep its loop.
DeRegisterEventLoopEarly(l) ==
  /\ l \in loops /\ \A c \in Coros : LoopOf[c] = l => pc[c] \in {"done", "lockwait"}
  /\ loops' = loops \ {l}
  /\ UNCHANGED <<pc, lockVars, condVars, awaiter>>

DeRegisterEventLoop(l) ==
  /\ l \in loops /\ \A c \in Coros : LoopOf[c] = l => pc[c] = "done"
  /\ loops' = loops \ {l}
  /\ UNCHANGED <<pc, lockVars, condVars, awaiter>>

Terminated == loops = {} /\ UNCHANGED vars

\* The steps of a coroutine's own choosing, and those its loop owes it.
Chosen(c) ==
  \/ Acquire(c) \/ WaitForLocked(c) \/ NotifyOne(c) \/ NotifyAll(c) \/ Return(c)
  \/ \E lock \in BOOLEAN, abort \in Aborts : CondRegister(c, lock, abort)
  \/ Interrupt(c)

Owed(c) ==
  \/ Granted(c) \/ CondSuspend(c) \/ CondResume(c) \/ DeRegister(c) \/ Reacquire(c)

Next ==
  \/ \E c \in Coros : Chosen(c) \/ Owed(c) \/ Release(c)
  \/ \E l \in Loops : DeRegisterEventLoop(l)
  \/ Terminated

Spec == Init /\ [][Next]_vars

\* Loops run their coroutines, and whoever holds the lock releases it sooner or
\* later or waits on the condition.
Fairness == \A c \in Coros : WF_vars(Owed(c)) /\ SF_vars(Release(c))
FairSpec == Spec /\ Fairness

-----------------------------------------------------------------------------
(* Properties.                                                             *)

States == {"ready", "crit", "lockwait", "suspend", "condwait", "dereg", "reacquire",
           "done"}
Ids    == Coros \X (Nat \ {0})

\* Every variable has its type; an id in ConditionCore names a wait that began.
TypeOK ==
  /\ pc \in [Coros -> States]
  /\ is_locked \in BOOLEAN
  /\ pending_event_pairs \in Seq(Coros)
  /\ lock_event \in [Coros -> {"none", "pending", "triggered"}]
  /\ pending_events \in Seq(Ids)
  /\ pending_events_pairs \in SUBSET Ids
  /\ cond_event \in [Coros -> {"none", "pending", "triggered", "interrupted"}]
  /\ abort_handle \in [Coros -> Aborts \cup {"none", "timeout"}]
  /\ lock_core \in [Coros -> BOOLEAN]
  /\ waits \in [Coros -> Nat]
  /\ loops \in SUBSET Loops

\* A coroutine owns the lock from the moment it took it, or was handed it while
\* still suspended, until its Unlock.
Owns(c) == \/ pc[c] = "crit"
           \/ pc[c] = "suspend" /\ lock_core[c]
           \/ pc[c] = "lockwait" /\ lock_event[c] = "triggered"

\* At most one coroutine owns the lock: Acquire, Release, the hand-over to a
\* suspended coroutine of another loop and the re-acquisition after a condition
\* wait never let a second one in.
MutualExclusion == \A c, d \in Coros : Owns(c) /\ Owns(d) => c = d

Queued(c) == \E n \in DOMAIN pending_event_pairs : pending_event_pairs[n] = c

\* Every coroutine that is suspended on the lock is in the queue, once, or has been
\* handed the lock; and while any is queued the lock is not free to be taken past
\* them.
LockQueueExact ==
  /\ \A c \in Coros : (pc[c] = "lockwait" /\ lock_event[c] # "triggered") <=> Queued(c)
  /\ \A m, n \in DOMAIN pending_event_pairs :
       pending_event_pairs[m] = pending_event_pairs[n] => m = n
  /\ pending_event_pairs # <<>> => is_locked

\* Whoever Unlock may hand the lock to can take it: its loop is in the group and has
\* its event, so TriggerUserEvent succeeds ("this loop must be valid").
HandOverValid ==
  \A c \in Coros : Queued(c) => LoopOf[c] \in loops /\ lock_event[c] = "pending"

\* A coroutine that waits on the condition can be reached by a notification, from
\* before it gave up the lock until it is notified or interrupted.
WaitersReachable ==
  \A c \in Coros : cond_event[c] = "pending" =>
    /\ Id(c) \in pending_events_pairs
    /\ \E n \in DOMAIN pending_events : pending_events[n] = Id(c)

\* An id that is still among the pairs belongs to a wait that has not ended.
PairsExact ==
  \A id \in pending_events_pairs :
    /\ id = Id(id[1])
    /\ cond_event[id[1]] \in {"pending", "interrupted"} \/ pc[id[1]] = "dereg"

Waiting == {c \in Coros : cond_event[c] = "pending"}

\* A NotifyOne that finds coroutines waiting wakes exactly one of them, also when
\* waits that were interrupted stand before it in the queue.
NotifyOneWakesOne ==
  [][(\E c \in Coros : NotifyOne(c)) /\ Waiting # {} =>
       Cardinality(Waiting') = Cardinality(Waiting) - 1]_vars

\* NotifyAll leaves no coroutine waiting.
NotifyAllWakesAll == [][(\E c \in Coros : NotifyAll(c)) => Waiting' = {}]_vars

\* The lock as Unlock will leave it, from the registration of a wait with the lock on:
\* before Unlock runs is_locked_ is set, and whoever asks for the lock queues up.
GivingUp == \E c \in Coros : pc[c] = "suspend" /\ lock_core[c]
Owners   == IF ~GivingUp THEN {c \in Coros : Owns(c)}
            ELSE IF pending_event_pairs = <<>> THEN {} ELSE {Head(pending_event_pairs)}
Untaken  == IF GivingUp THEN pending_event_pairs = <<>> ELSE ~is_locked
Line     == IF GivingUp /\ pending_event_pairs # <<>> THEN Tail(pending_event_pairs)
                                                      ELSE pending_event_pairs

\* Those that waited with the lock and have not asked for it again.
Back == {c \in Coros : lock_core[c] /\ pc[c] \in {"suspend", "condwait", "dereg", "reacquire"}}

Monitor == INSTANCE AbstractMonitor WITH
  Coros <- Coros, MayLose <- LockedTimeouts, owners <- Owners, free <- Untaken,
  line <- Line, waiting <- Waiting, back <- Back

\* Lock and Condition are one monitor: the lock has one owner and is handed on in the
\* order of the requests, and a wait gives it up and begins in one step, although
\* LockCore and ConditionCore have a mutex each and the await_suspend takes them one
\* after the other, with coroutines of other loops in between.
IsMonitor == Monitor!Spec

\* Somebody called WaitFor(lock, timeout), which never returns (TimedWaitReturns).
Timed == \E c \in Coros : abort_handle[c] = "timeout"

\* A coroutine that waits for the lock gets it, as long as nobody calls the timed
\* wait with a lock.
LockGranted ==
  \A c \in Coros : (pc[c] = "lockwait" /\ ~Timed) ~> (pc[c] = "crit" \/ Timed)

\* A coroutine whose condition wait was notified or interrupted goes on, with the
\* lock if it waited with one.
WaitReturns ==
  \A c \in Coros : cond_event[c] \in {"triggered", "interrupted"} ~>
                     (pc[c] = (IF lock_core[c] THEN "crit" ELSE "ready") \/ Timed)

\* WaitFor(lock, timeout) returns to its caller.
TimedWaitReturns ==
  \A c \in Coros : (pc[c] = "lockwait" /\ abort_handle[c] = "timeout") ~> pc[c] = "crit"
=============================================================================
