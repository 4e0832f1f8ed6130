------------------------------- MODULE Tasks --------------------------------
(***************************************************************************)
(* Coroutine frames of one event loop: Task and its promise, the loop's    *)
(* clean-up list, and the thread pool behind Executor.                     *)
(*                                                                         *)
(* Coroutine code is free: the running coroutine may call a coroutine      *)
(* function (which makes a frame and a Task object among its locals), pass *)
(* the Task to EnsureFuture or co_await it, let it go out of scope, wait   *)
(* for an event or for the pool, return or throw.                          *)
(*                                                                         *)
(* stack holds the coroutines on the loop thread's native stack, the       *)
(* running one first: EnsureFuture resumes on top of its caller, whereas   *)
(* co_await and the end of an awaited coroutine replace the running one    *)
(* (symmetric transfer).  An exception that reaches a coroutine may be     *)
(* caught there; Finish lets it go on in either way.                       *)
(***************************************************************************)
EXTENDS Integers, Sequences, FiniteSets, Functions

CONSTANTS
  Frames,    \* the coroutine frames a run may make
  Main,      \* the one StartEventLoop is called with
  Nobody,    \* no continuation (std::noop_coroutine), no owner, no job
  Caller,    \* the code that calls StartEventLoop
  Workers    \* threads of the pool

ASSUME TasksAssumption ==
  /\ Main \in Frames /\ IsFiniteSet(Frames)
  /\ Nobody \notin Frames /\ Caller \notin Frames /\ Nobody # Caller

VARIABLES
  phase,                \* where RunUntilComplete is
  stack,
  status,               \* of each frame
  owner,                \* whose local the Task object of a frame is
  need_clean,           \* Task::need_clean_
  need_manual_clean,    \* PromiseBase::need_manual_clean_
  continuation_coro,
  to_clean_up_handles,
  events,               \* frames that wait in the poller for an event of their own
  triggered,            \* frames whose executor event TriggerUserEvent moved
  todo_events,          \* the rest of the batch that Do resumes
  future,               \* ExecutorAwaiter::future_
  tasks,                \* tasks_ and task_events_, pushed and popped together
  worker, job,          \* where each worker is, and what it works on
  stop,                 \* ~ThreadPool: "no", "set" (stop_), "notified"
  in_group              \* the loop is registered in EventLoopGroup

frameVars == <<status, owner, need_clean, need_manual_clean, continuation_coro,
               to_clean_up_handles>>
waitVars  == <<events, triggered, todo_events, future>>
poolVars  == <<tasks, worker, job, stop, in_group>>
vars == <<phase, stack, frameVars, waitVars, poolVars>>

Status == {"none", "created", "running", "suspended", "done", "destroyed"}

\* StartEventLoop(task) up to task.Start(true): the temporary Task belongs to the
\* caller until StartEventLoop returns.
Init ==
  /\ phase = "start" /\ stack = <<Main>>
  /\ status = [f \in Frames |-> IF f = Main THEN "running" ELSE "none"]
  /\ owner = [f \in Frames |-> IF f = Main THEN Caller ELSE Nobody]
  /\ need_clean = {Main} /\ need_manual_clean = {}
  /\ continuation_coro = [f \in Frames |-> Nobody]
  /\ to_clean_up_handles = <<>>
  /\ events = {} /\ triggered = {} /\ todo_events = {}
  /\ future = [f \in Frames |-> "none"]
  /\ tasks = <<>> /\ worker = [w \in Workers |-> "look"]
  /\ job = [w \in Workers |-> Nobody]
  /\ stop = "no" /\ in_group = TRUE

-----------------------------------------------------------------------------
(* Coroutine code.                                                         *)

Running(f) == stack # <<>> /\ Head(stack) = f

\* A coroutine function is called: its frame starts suspended.
Call(f, g) ==
  /\ Running(f) /\ status[g] = "none"
  /\ status' = [status EXCEPT ![g] = "created"]
  /\ owner' = [owner EXCEPT ![g] = f]
  /\ UNCHANGED <<phase, stack, need_clean, need_manual_clean, continuation_coro,
                 to_clean_up_handles, waitVars, poolVars>>

\* EnsureFuture: Start(true).  Resuming runs the coroutine on top of the caller.
EnsureFuture(f, g) ==
  /\ Running(f) /\ owner[g] = f /\ status[g] = "created"
  /\ need_clean' = need_clean \cup {g}
  /\ status' = [status EXCEPT ![g] = "running"]
  /\ stack' = <<g>> \o stack
  /\ UNCHANGED <<phase, owner, need_manual_clean, continuation_coro,
                 to_clean_up_handles, waitVars, poolVars>>

\* co_await of a Task that has not been started.  (Of one that is done it only
\* reads the result; one that was started and is not done must not be awaited.)
Await(f, g) ==
  /\ Running(f) /\ owner[g] = f /\ status[g] = "created"
  /\ continuation_coro' = [continuation_coro EXCEPT ![g] = f]
  /\ status' = [status EXCEPT ![f] = "suspended", ![g] = "running"]
  /\ stack' = <<g>> \o Tail(stack)
  /\ UNCHANGED <<phase, owner, need_clean, need_manual_clean, to_clean_up_handles,
                 waitVars, poolVars>>

\* Mutants: a coroutine that is done is not destroyed; one that is not done is.
DeleteTaskMarks(g) ==
  /\ owner' = [owner EXCEPT ![g] = Nobody]
  /\ need_manual_clean' = IF g \in need_clean THEN need_manual_clean \cup {g}
                                              ELSE need_manual_clean
  /\ UNCHANGED status

DeleteTaskDestroys(g) ==
  /\ owner' = [owner EXCEPT ![g] = Nobody]
  /\ status' = [status EXCEPT ![g] = "destroyed"]
  /\ UNCHANGED need_manual_clean

\* ~Task: a coroutine that is done is destroyed, any other one is told whether it
\* has to see to that itself.
DeleteTask(g) ==
  /\ owner' = [owner EXCEPT ![g] = Nobody]
  /\ IF status[g] = "done"
       THEN /\ status' = [status EXCEPT ![g] = "destroyed"]
            /\ UNCHANGED need_manual_clean
       ELSE /\ need_manual_clean' = IF g \in need_clean
                                      THEN need_manual_clean \cup {g}
                                      ELSE need_manual_clean \ {g}
            /\ UNCHANGED status

\* A Task among the locals of the running coroutine goes out of scope.
DropTask(f, g) ==
  /\ Running(f) /\ owner[g] = f
  /\ DeleteTask(g)
  /\ UNCHANGED <<phase, stack, need_clean, continuation_coro, to_clean_up_handles,
                 waitVars, poolVars>>

\* co_await of a timer, a socket, a lock or a condition.
Wait(f) ==
  /\ Running(f)
  /\ status' = [status EXCEPT ![f] = "suspended"]
  /\ events' = events \cup {f}
  /\ stack' = Tail(stack)
  /\ UNCHANGED <<phase, owner, need_clean, need_manual_clean, continuation_coro,
                 to_clean_up_handles, triggered, todo_events, future, poolVars>>

Asleep == {w \in Workers : worker[w] = "asleep"}

\* Mutant: no worker is notified.
EnqueueSilent(f) ==
  /\ tasks' = Append(tasks, f)
  /\ UNCHANGED <<worker, job, stop, in_group>>

\* ThreadPool::Enqueue: push, then notify_one.
Enqueue(f) ==
  /\ tasks' = Append(tasks, f)
  /\ IF Asleep = {} THEN UNCHANGED worker
     ELSE \E w \in Asleep : worker' = [worker EXCEPT ![w] = "look"]
  /\ UNCHANGED <<job, stop, in_group>>

\* ExecutorAwaiter::await_suspend.
Execute(f) ==
  /\ Running(f) /\ stop = "no"
  /\ status' = [status EXCEPT ![f] = "suspended"]
  /\ future' = [future EXCEPT ![f] = "pending"]
  /\ stack' = Tail(stack)
  /\ Enqueue(f)
  /\ UNCHANGED <<phase, owner, need_clean, need_manual_clean, continuation_coro,
                 to_clean_up_handles, events, triggered, todo_events>>

\* return_void, return_value or unhandled_exception, then final_suspend.  The
\* locals are gone by then.  Without a continuation unhandled_exception rethrows:
\* into the caller of EnsureFuture, or out of the loop.
Finish(f, type) ==
  /\ Running(f) /\ \A g \in Frames : owner[g] # f
  /\ to_clean_up_handles' = IF f \in need_manual_clean
                              THEN Append(to_clean_up_handles, f)
                              ELSE to_clean_up_handles
  /\ LET next == continuation_coro[f] IN
       IF next = Nobody
         THEN /\ status' = [status EXCEPT ![f] = "done"]
              /\ stack' = Tail(stack)
              /\ phase' = IF type = "EXCEPTION" /\ Tail(stack) = <<>>
                            THEN "failing" ELSE phase
         ELSE /\ status' = [status EXCEPT ![f] = "done", ![next] = "running"]
              /\ stack' = <<next>> \o Tail(stack)
              /\ UNCHANGED phase
  /\ UNCHANGED <<owner, need_clean, need_manual_clean, continuation_coro, waitVars,
                 poolVars>>

-----------------------------------------------------------------------------
(* The loop around it.                                                     *)

\* Trim, of which only CleanUpFinishedCoroutines matters here, and IsDone.
Trim ==
  /\ phase \in {"start", "do"} /\ stack = <<>> /\ todo_events = {}
  /\ status' = [f \in Frames |->
                  IF f \in Range(to_clean_up_handles) THEN "destroyed" ELSE status[f]]
  /\ to_clean_up_handles' = <<>>
  /\ phase' = IF events = {} /\ \A f \in Frames : future[f] = "none"
                THEN "returned" ELSE "wait"
  /\ UNCHANGED <<stack, owner, need_clean, need_manual_clean, continuation_coro,
                 waitVars, poolVars>>

\* WaitEvents returns what the pool has triggered and any other events.
WaitEvents ==
  /\ phase = "wait"
  /\ \E some \in SUBSET events :
       /\ some \cup triggered # {}
       /\ todo_events' = some \cup triggered
       /\ events' = events \ some
  /\ triggered' = {}
  /\ phase' = "do"
  /\ UNCHANGED <<stack, frameVars, future, poolVars>>

\* Do resumes the next coroutine of the batch; one that waited for the pool takes
\* the result out of its future.
Resume(f) ==
  /\ phase = "do" /\ stack = <<>> /\ f \in todo_events
  /\ todo_events' = todo_events \ {f}
  /\ future' = [future EXCEPT ![f] = "none"]
  /\ status' = [status EXCEPT ![f] = "running"]
  /\ stack' = <<f>>
  /\ UNCHANGED <<phase, owner, need_clean, need_manual_clean, continuation_coro,
                 to_clean_up_handles, events, triggered, poolVars>>

\* StartEventLoop returns or is left by an exception: the caller's Task goes.  At
\* the end of the thread the loop leaves the group.
Leave ==
  /\ phase \in {"returned", "failing"}
  /\ DeleteTask(Main)
  /\ phase' = IF phase = "returned" THEN "ended" ELSE "failed"
  /\ in_group' = FALSE
  /\ UNCHANGED <<stack, need_clean, continuation_coro, to_clean_up_handles, waitVars,
                 tasks, worker, job, stop>>

-----------------------------------------------------------------------------
(* The thread pool.  What queue_mutex_ protects is one step.               *)

\* Mutant: the event is triggered before the task has run.
TakeNotifies(w) ==
  /\ worker[w] = "look" /\ tasks # <<>>
  /\ tasks' = Tail(tasks)
  /\ triggered' = triggered \cup {Head(tasks)}
  /\ job' = [job EXCEPT ![w] = Head(tasks)]
  /\ worker' = [worker EXCEPT ![w] = "run"]
  /\ UNCHANGED <<phase, stack, frameVars, events, todo_events, future, stop, in_group>>

Take(w) ==
  /\ worker[w] = "look" /\ tasks # <<>>
  /\ tasks' = Tail(tasks)
  /\ job' = [job EXCEPT ![w] = Head(tasks)]
  /\ worker' = [worker EXCEPT ![w] = "run"]
  /\ UNCHANGED <<phase, stack, frameVars, waitVars, stop, in_group>>

Sleep(w) ==
  /\ worker[w] = "look" /\ tasks = <<>> /\ stop = "no"
  /\ worker' = [worker EXCEPT ![w] = "asleep"]
  /\ UNCHANGED <<phase, stack, frameVars, waitVars, tasks, job, stop, in_group>>

\* Mutant: a worker stops although there are tasks left.
ExitAtOnce(w) ==
  /\ worker[w] = "look" /\ stop # "no"
  /\ worker' = [worker EXCEPT ![w] = "exited"]
  /\ UNCHANGED <<phase, stack, frameVars, waitVars, tasks, job, stop, in_group>>

Exit(w) ==
  /\ worker[w] = "look" /\ tasks = <<>> /\ stop # "no"
  /\ worker' = [worker EXCEPT ![w] = "exited"]
  /\ UNCHANGED <<phase, stack, frameVars, waitVars, tasks, job, stop, in_group>>

RunTask(w) ==
  /\ worker[w] = "run"
  /\ future' = [future EXCEPT ![job[w]] = "ready"]
  /\ worker' = [worker EXCEPT ![w] = "notify"]
  /\ UNCHANGED <<phase, stack, frameVars, events, triggered, todo_events, tasks, job,
                 stop, in_group>>

\* TriggerUserEvent, if the loop is still in the group.
Notify(w) ==
  /\ worker[w] = "notify"
  /\ triggered' = IF in_group THEN triggered \cup {job[w]} ELSE triggered
  /\ worker' = [worker EXCEPT ![w] = "look"]
  /\ job' = [job EXCEPT ![w] = Nobody]
  /\ UNCHANGED <<phase, stack, frameVars, events, todo_events, future, tasks, stop,
                 in_group>>

\* ~ThreadPool at the end of the program: stop_, then notify_all, then join.
SetStop ==
  /\ phase \in {"ended", "failed"} /\ stop = "no"
  /\ stop' = "set"
  /\ UNCHANGED <<phase, stack, frameVars, waitVars, tasks, worker, job, in_group>>

NotifyAll ==
  /\ stop = "set"
  /\ stop' = "notified"
  /\ worker' = [w \in Workers |-> IF w \in Asleep THEN "look" ELSE worker[w]]
  /\ UNCHANGED <<phase, stack, frameVars, waitVars, tasks, job, in_group>>

Joined == \A w \in Workers : worker[w] = "exited"
Terminated == stop = "notified" /\ Joined /\ UNCHANGED vars

-----------------------------------------------------------------------------
Code ==
  \/ \E f, g \in Frames : Call(f, g) \/ EnsureFuture(f, g) \/ Await(f, g) \/ DropTask(f, g)
  \/ \E f \in Frames : Wait(f) \/ Execute(f)
  \/ \E f \in Frames, type \in {"VALUE", "EXCEPTION"} : Finish(f, type)
Loop == Code \/ Trim \/ (\E f \in Frames : Resume(f)) \/ Leave
Worker(w) == Take(w) \/ Sleep(w) \/ Exit(w) \/ RunTask(w) \/ Notify(w)
Destructor == SetStop \/ NotifyAll

Next == Loop \/ WaitEvents \/ (\E w \in Workers : Worker(w)) \/ Destructor \/ Terminated

Spec == Init /\ [][Next]_vars

\* The loop's thread runs, WaitEvents returns once the eventfd is written, the
\* workers run and the program ends in its destructors.  No event of a peer is
\* promised.
FairSpec ==
  /\ Spec
  /\ WF_vars(Loop) /\ WF_vars(triggered # {} /\ WaitEvents)
  /\ \A w \in Workers : WF_vars(Worker(w))
  /\ WF_vars(Destructor)

-----------------------------------------------------------------------------
(* Properties.                                                             *)

Started(f) == status[f] \notin {"none", "created", "destroyed"}

\* A started frame has exactly one party that will destroy it: the Task object that
\* owns it, its promise (need_manual_clean_) while it is not done, or the loop's
\* clean-up list, which holds it once.  So ~Task and CleanUpFinishedCoroutines never
\* destroy a frame twice, and when StartEventLoop has returned none is left.
OneDestroyer ==
  /\ \A f \in Frames : Started(f) =>
       Cardinality({d \in {"task", "promise", "list"} :
         \/ d = "task" /\ owner[f] # Nobody
         \/ d = "promise" /\ f \in need_manual_clean /\ status[f] # "done"
         \/ d = "list" /\ f \in Range(to_clean_up_handles)}) = 1
  /\ \A i, j \in DOMAIN to_clean_up_handles :
       to_clean_up_handles[i] = to_clean_up_handles[j] => i = j
  /\ phase = "ended" => \A f \in Frames : ~Started(f)

\* Who will resume f: an event, the batch, the pool, or the coroutine it awaits.
Resumers(f) ==
  {<<"event">> : e \in events \cap {f}} \cup {<<"todo">> : e \in todo_events \cap {f}}
  \cup {<<"triggered">> : e \in triggered \cap {f}}
  \cup {<<"task", i>> : i \in {j \in DOMAIN tasks : tasks[j] = f}}
  \cup {<<"worker", w>> : w \in {v \in Workers : job[v] = f}}
  \cup {<<"child", g>> : g \in {h \in Frames : Started(h) /\ status[h] # "done"
                                               /\ continuation_coro[h] = f}}

\* A frame is suspended exactly when one party holds its handle to resume it, and
\* only one: no coroutine is resumed twice for one co_await, resumed after its end
\* or after ~Task destroyed it, or left behind with nobody to resume it.  (A loop
\* that an exception has left drops what the pool still has to say.)
ResumedOnce ==
  \A f \in Frames :
    \/ status[f] = "suspended" /\ Cardinality(Resumers(f)) = 1
    \/ status[f] # "suspended" /\ Resumers(f) = {}
    \/ phase = "failed" /\ Cardinality(Resumers(f)) <= 1

\* The assert of ExecutorAwaiter::await_resume: a coroutine whose executor event has
\* been triggered finds its future ready.
FutureReady == \A f \in triggered \cup todo_events : future[f] # "pending"

\* A coroutine that waits for the pool is resumed, unless an exception ends the loop.
ExecutedResumes ==
  \A f \in Frames : future[f] = "pending" ~> (future[f] = "none" \/ phase = "failed")

\* ~ThreadPool joins all workers, and only after every task accepted has been run.
PoolDrains ==
  /\ (stop = "set") ~> Joined
  /\ [](Joined => \A f \in Frames : future[f] # "pending")
=============================================================================
