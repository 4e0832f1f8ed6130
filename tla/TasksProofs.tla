----------------------------- MODULE TasksProofs -----------------------------
(***************************************************************************)
(* Tasks for any number of frames and workers: a frame has one destroyer,  *)
(* a suspended coroutine one resumer, and a future that is taken is ready. *)
(*                                                                         *)
(* Neither OneDestroyer nor ResumedOnce is inductive, and each needs the   *)
(* other.  That ~Task of a coroutine that is awaited never runs before it  *)
(* is done (it would tell the promise not to clean up) is so because the   *)
(* owner of that Task is the coroutine that awaits, which is suspended     *)
(* until then (Frame, Kept).  That the loop returns only when no frame is  *)
(* left needs that the chain of coroutines awaiting each other ends: a     *)
(* rank that grows with every co_await (Chained) excludes a circle, in     *)
(* which nobody would wait for an event.                                   *)
(***************************************************************************)
EXTENDS Tasks, SequenceTheorems, FiniteSetTheorems, WellFoundedInduction, TLAPS

Phases == {"start", "wait", "do", "returned", "failing", "ended", "failed"}

FrameTypes ==
  /\ status \in [Frames -> Status] /\ owner \in [Frames -> Frames \cup {Nobody, Caller}]
  /\ need_clean \subseteq Frames /\ need_manual_clean \subseteq Frames
  /\ continuation_coro \in [Frames -> Frames \cup {Nobody}]
  /\ to_clean_up_handles \in Seq(Frames)
WaitTypes ==
  /\ events \subseteq Frames /\ triggered \subseteq Frames /\ todo_events \subseteq Frames
  /\ future \in [Frames -> {"none", "pending", "ready"}]
PoolTypes ==
  /\ tasks \in Seq(Frames)
  /\ worker \in [Workers -> {"look", "asleep", "run", "notify", "exited"}]
  /\ job \in [Workers -> Frames \cup {Nobody}]
  /\ stop \in {"no", "set", "notified"} /\ in_group \in BOOLEAN
TypeOK == phase \in Phases /\ stack \in Seq(Frames) /\ FrameTypes /\ WaitTypes /\ PoolTypes

\* No element twice.
Distinct(q) == \A i, j \in DOMAIN q : q[i] = q[j] => i = j

\* The native stack holds the running coroutines, and is empty outside Trim and Do.
Stacked ==
  /\ Distinct(stack)
  /\ \A f \in Frames : status[f] = "running" <=> f \in Range(stack)
  /\ stack # <<>> => phase \in {"start", "do"}

\* A started coroutine that is not done.
Live(f) == status[f] \in {"running", "suspended"}

\* What becomes of a frame.
Frame(f) ==
  /\ status[f] \in {"none", "created"} =>
       /\ f \notin need_clean /\ f \notin need_manual_clean
       /\ f \notin Range(to_clean_up_handles) /\ continuation_coro[f] = Nobody
  /\ status[f] = "none" => owner[f] = Nobody
  /\ Started(f) =>
       \/ owner[f] # Nobody /\ f \notin need_manual_clean /\ f \notin Range(to_clean_up_handles)
       \/ /\ owner[f] = Nobody /\ Live(f) /\ f \in need_manual_clean
          /\ f \notin Range(to_clean_up_handles)
       \/ owner[f] = Nobody /\ status[f] = "done" /\ f \in Range(to_clean_up_handles)
  /\ status[f] = "destroyed" => owner[f] = Nobody /\ f \notin Range(to_clean_up_handles)
  /\ Live(f) /\ f \notin need_clean /\ owner[f] # Nobody =>
       owner[f] \in Frames /\ continuation_coro[f] = owner[f]
  /\ owner[f] \in Frames => Live(owner[f])
  /\ owner[f] = Caller <=> f = Main /\ phase \notin {"ended", "failed"}
Kept ==
  /\ \A f \in Frames : Frame(f)
  /\ Distinct(to_clean_up_handles)
  /\ Main \in need_clean /\ (phase \notin {"ended", "failed"} => Started(Main))

\* Who resumes a frame, by kind.
InPool(f) == \E w \in Workers : job[w] = f
Awaits(f) == \E g \in Frames : Live(g) /\ continuation_coro[g] = f
Resumable(f) ==
  \/ f \in events \/ f \in todo_events \/ f \in triggered
  \/ f \in Range(tasks) \/ InPool(f) \/ Awaits(f)

\* At most one resumer, which a suspended coroutine has until the loop is left by an
\* exception.
Waiting(f) ==
  /\ f \in events => /\ f \notin todo_events /\ f \notin triggered /\ f \notin Range(tasks)
                     /\ ~InPool(f) /\ ~Awaits(f)
  /\ f \in todo_events => /\ f \notin triggered /\ f \notin Range(tasks)
                          /\ ~InPool(f) /\ ~Awaits(f)
  /\ f \in triggered => f \notin Range(tasks) /\ ~InPool(f) /\ ~Awaits(f)
  /\ f \in Range(tasks) => ~InPool(f) /\ ~Awaits(f)
  /\ InPool(f) => ~Awaits(f)
  /\ Resumable(f) => status[f] = "suspended"
  /\ status[f] = "suspended" /\ phase # "failed" => Resumable(f)
OneJob == \A v, w \in Workers : job[v] = job[w] /\ job[v] # Nobody => v = w
OneChild == \A g, h \in Frames :
              Live(g) /\ Live(h) /\ continuation_coro[g] = continuation_coro[h]
                => continuation_coro[g] = Nobody \/ g = h
Resumed == (\A f \in Frames : Waiting(f)) /\ Distinct(tasks) /\ OneJob /\ OneChild

\* The future of an ExecutorAwaiter and what the pool does.
Pooled ==
  /\ \A f \in Range(tasks) : future[f] = "pending"
  /\ \A w \in Workers :
       /\ worker[w] \in {"run", "notify"} <=> job[w] # Nobody
       /\ worker[w] = "run" => future[job[w]] = "pending"
       /\ worker[w] = "notify" => future[job[w]] = "ready"
  /\ \A f \in triggered : future[f] = "ready"
  /\ \A f \in todo_events : future[f] # "pending"
  /\ \A f \in Frames : future[f] # "none" /\ phase # "failed" =>
       f \in Range(tasks) \/ InPool(f) \/ f \in triggered \/ f \in todo_events
  /\ in_group <=> phase \notin {"ended", "failed"}

\* co_await goes from a frame to a later one.
Chain(n, rank) == \A g \in Frames : Live(g) /\ continuation_coro[g] # Nobody =>
                    rank[continuation_coro[g]] < rank[g]
Chained == \E n \in Nat : \E rank \in [Frames -> 0 .. n] : Chain(n, rank)

\* Where RunUntilComplete returns, no frame is left but the main one.
Emptied ==
  /\ phase \in {"returned", "ended"} => \A f \in Frames \ {Main} : ~Started(f)
  /\ phase = "returned" => status[Main] = "done"
  /\ phase = "ended" => ~Started(Main)
  /\ phase = "wait" => todo_events = {}

IInv == TypeOK /\ Stacked /\ Kept /\ Resumed /\ Pooled /\ Chained /\ Emptied

-----------------------------------------------------------------------------
(* Sequences without repetition.                                           *)

\* Popping takes the first element out.
LEMMA DistinctTail ==
  ASSUME NEW S, NEW q \in Seq(S), q # <<>>, Distinct(q)
  PROVE  /\ Tail(q) \in Seq(S) /\ Distinct(Tail(q)) /\ Head(q) \in Range(q) /\ Head(q) \in S
         /\ Range(Tail(q)) = Range(q) \ {Head(q)}
<1> DEFINE r == Tail(q)
<1>1. /\ Len(q) \in Nat \ {0} /\ DOMAIN q = 1 .. Len(q) /\ r \in Seq(S)
      /\ DOMAIN r = 1 .. Len(q) - 1 /\ Head(q) = q[1] /\ q[1] \in S
      /\ \A i \in 1 .. Len(q) - 1 : r[i] = q[i + 1]
  OBVIOUS
<1> HIDE DEF r
<1>2. Distinct(r)
  <2> SUFFICES ASSUME NEW i \in DOMAIN r, NEW j \in DOMAIN r, r[i] = r[j]
               PROVE  i = j
    BY DEF Distinct
  <2>1. i + 1 \in DOMAIN q /\ j + 1 \in DOMAIN q /\ q[i + 1] = q[j + 1]
    BY <1>1
  <2>2. i + 1 = j + 1
    BY <2>1 DEF Distinct
  <2> QED  BY <1>1, <2>2
<1>3. Range(r) \subseteq Range(q) \ {Head(q)}
  BY <1>1 DEF Distinct, Range
<1>4. ASSUME NEW x \in Range(q) \ {Head(q)}
      PROVE  x \in Range(r)
  <2>1. PICK i \in DOMAIN q : q[i] = x
    BY DEF Range
  <2>2. i - 1 \in DOMAIN r /\ r[i - 1] = x
    BY <1>1, <2>1
  <2> QED  BY <2>2 DEF Range
<1>5. Head(q) \in Range(q)
  BY <1>1 DEF Range
<1> QED  BY <1>1, <1>2, <1>3, <1>4, <1>5 DEF r

\* Pushing any element.
LEMMA PushType ==
  ASSUME NEW S, NEW q \in Seq(S), NEW e \in S
  PROVE  <<e>> \o q \in Seq(S)
OBVIOUS

\* Pushing a new element.
LEMMA DistinctPush ==
  ASSUME NEW S, NEW q \in Seq(S), Distinct(q), NEW e \in S, e \notin Range(q)
  PROVE  /\ <<e>> \o q \in Seq(S) /\ Distinct(<<e>> \o q) /\ Range(<<e>> \o q) = Range(q) \cup {e}
<1> DEFINE r == <<e>> \o q
<1>1. /\ Len(q) \in Nat /\ DOMAIN q = 1 .. Len(q) /\ r \in Seq(S)
      /\ DOMAIN r = 1 .. Len(q) + 1 /\ r[1] = e
      /\ \A i \in 1 .. Len(q) : r[i + 1] = q[i]
  OBVIOUS
<1> HIDE DEF r
<1>2. \A i \in DOMAIN r : i = 1 \/ (i - 1 \in DOMAIN q /\ r[i] = q[i - 1])
  <2> SUFFICES ASSUME NEW i \in DOMAIN r, i # 1
               PROVE  i - 1 \in DOMAIN q /\ r[i] = q[i - 1]
    OBVIOUS
  <2>1. i - 1 \in 1 .. Len(q) /\ (i - 1) + 1 = i
    BY <1>1
  <2> QED  BY <1>1, <2>1
<1>3. Distinct(r)
  <2> SUFFICES ASSUME NEW i \in DOMAIN r, NEW j \in DOMAIN r, r[i] = r[j]
               PROVE  i = j
    BY DEF Distinct
  <2>1. CASE i = 1 /\ j # 1
    BY <1>1, <1>2, <2>1 DEF Range
  <2>2. CASE i # 1 /\ j = 1
    BY <1>1, <1>2, <2>2 DEF Range
  <2>3. CASE i # 1 /\ j # 1
    <3>1. i - 1 = j - 1
      BY <1>2, <2>3 DEF Distinct
    <3> QED  BY <1>1, <3>1
  <2> QED  BY <2>1, <2>2, <2>3
<1>4. Range(r) \subseteq Range(q) \cup {e}
  BY <1>1, <1>2 DEF Range
<1>5. ASSUME NEW x \in Range(q)
      PROVE  x \in Range(r)
  <2>1. PICK i \in 1 .. Len(q) : q[i] = x
    BY <1>1 DEF Range
  <2>2. i + 1 \in DOMAIN r /\ r[i + 1] = x
    BY <1>1, <2>1
  <2> QED  BY <2>2 DEF Range
<1>6. e \in Range(r)
  BY <1>1 DEF Range
<1> QED  BY <1>1, <1>3, <1>4, <1>5, <1>6 DEF r

\* Appending a new element.
LEMMA DistinctAppend ==
  ASSUME NEW S, NEW q \in Seq(S), Distinct(q), NEW e \in S, e \notin Range(q)
  PROVE  /\ Append(q, e) \in Seq(S) /\ Distinct(Append(q, e))
         /\ Range(Append(q, e)) = Range(q) \cup {e}
<1> DEFINE r == Append(q, e)
<1>1. /\ Len(q) \in Nat /\ DOMAIN q = 1 .. Len(q) /\ r \in Seq(S)
      /\ DOMAIN r = 1 .. Len(q) + 1 /\ r[Len(q) + 1] = e
      /\ \A i \in 1 .. Len(q) : r[i] = q[i]
  OBVIOUS
<1> HIDE DEF r
<1>2. \A i \in DOMAIN r : i = Len(q) + 1 \/ (i \in DOMAIN q /\ r[i] = q[i])
  BY <1>1
<1>3. Distinct(r)
  BY <1>1, <1>2 DEF Distinct, Range
<1>4. Range(r) = Range(q) \cup {e}
  <2>1. Range(r) \subseteq Range(q) \cup {e}
    BY <1>1, <1>2 DEF Range
  <2>2. ASSUME NEW x \in Range(q)
        PROVE  x \in Range(r)
    BY <1>1 DEF Range
  <2>3. e \in Range(r)
    BY <1>1 DEF Range
  <2> QED  BY <2>1, <2>2, <2>3
<1> QED  BY <1>1, <1>3, <1>4 DEF r

\* Nothing is in the empty sequence.
LEMMA EmptyRange ==
  /\ Distinct(<<>>) /\ Range(<<>>) = {}
  /\ \A x : Distinct(<<x>>) /\ Range(<<x>>) = {x}
BY DEF Distinct, Range

\* A set of naturals has a least element.
LEMMA Least ==
  ASSUME NEW T, T \subseteq Nat, T # {}
  PROVE  \E x \in T : \A y \in T : x <= y
<1>1. PICK x \in T : \A y \in T : ~ (<<y, x>> \in OpToRel(<, Nat))
  BY NatLessThanWellFounded, WFMin
<1>2. ASSUME NEW y \in T
      PROVE  x <= y
  <2>1. ~ (<<y, x>> \in OpToRel(<, Nat))
    BY <1>1, Zenon
  <2>2. ~(y < x)
    BY <2>1 DEF OpToRel
  <2> QED  BY <2>2
<1> QED  BY <1>2

-----------------------------------------------------------------------------
(* Types.                                                                  *)

\* The running coroutine is the top of the stack.
LEMMA RunningIs ==
  ASSUME TypeOK, Stacked, NEW f, Running(f)
  PROVE  /\ f \in Frames /\ status[f] = "running" /\ stack # <<>> /\ phase \in {"start", "do"}
         /\ Tail(stack) \in Seq(Frames) /\ Distinct(Tail(stack))
         /\ Range(Tail(stack)) = Range(stack) \ {f}
<1>1. stack \in Seq(Frames) /\ stack # <<>> /\ Distinct(stack) /\ f = Head(stack)
  BY DEF TypeOK, Stacked, Running
<1>2. /\ f \in Frames /\ f \in Range(stack) /\ Tail(stack) \in Seq(Frames) /\ Distinct(Tail(stack))
      /\ Range(Tail(stack)) = Range(stack) \ {f}
  BY <1>1, DistinctTail
<1> QED  BY <1>1, <1>2 DEF Stacked

\* Every variable keeps its type.
LEMMA TypeStep ==
  ASSUME TypeOK, Stacked, Kept, Resumed, Pooled, [Next]_vars
  PROVE  TypeOK'
<1> USE DEF TypeOK
<1>1. ASSUME NEW f \in Frames, NEW g \in Frames,
             Call(f, g) \/ EnsureFuture(f, g) \/ Await(f, g) \/ DropTask(f, g)
      PROVE  TypeOK'
  <2>1. stack' \in Seq(Frames)
    <3>1. CASE Await(f, g)
      BY <3>1, RunningIs, PushType DEF Await
    <3>2. CASE EnsureFuture(f, g)
      BY <3>2, PushType DEF EnsureFuture
    <3> QED  BY <1>1, <3>1, <3>2 DEF Call, DropTask
  <2>2. FrameTypes'
    BY SMTT(60), <1>1 DEF FrameTypes, Status, Call, EnsureFuture, Await, DropTask, DeleteTask
  <2> QED
    BY <1>1, <2>1, <2>2 DEF Call, EnsureFuture, Await, DropTask, WaitTypes, PoolTypes,
                            waitVars, poolVars
<1>2. ASSUME NEW f \in Frames, Wait(f)
      PROVE  TypeOK'
  <2>1. stack' \in Seq(Frames)
    BY <1>2, RunningIs DEF Wait
  <2> QED
    BY <1>2, <2>1 DEF Wait, FrameTypes, Status, WaitTypes, PoolTypes, poolVars
<1>3. ASSUME NEW f \in Frames, Execute(f)
      PROVE  TypeOK'
  <2>1. stack' \in Seq(Frames)
    BY <1>3, RunningIs DEF Execute
  <2>2. PoolTypes'
    <3>1. tasks' \in Seq(Frames)
      BY <1>3 DEF Execute, Enqueue, PoolTypes
    <3>2. worker' \in [Workers -> {"look", "asleep", "run", "notify", "exited"}]
      BY <1>3 DEF Execute, Enqueue, PoolTypes
    <3> QED  BY <1>3, <3>1, <3>2 DEF Execute, Enqueue, PoolTypes
  <2> QED  BY <1>3, <2>1, <2>2 DEF Execute, FrameTypes, Status, WaitTypes
<1>4. ASSUME NEW f \in Frames, NEW type, Finish(f, type)
      PROVE  TypeOK'
  <2>1. Running(f) /\ Tail(stack) \in Seq(Frames) /\ continuation_coro[f] \in Frames \cup {Nobody}
    BY <1>4, RunningIs DEF Finish, FrameTypes
  <2>2. stack' \in Seq(Frames) /\ phase' \in Phases
    BY ZenonT(60), <1>4, <2>1, PushType DEF Finish, Phases
  <2>3. to_clean_up_handles' \in Seq(Frames)
    BY <1>4 DEF Finish, FrameTypes
  <2>4. status' \in [Frames -> Status]
    BY <1>4, <2>1 DEF Finish, FrameTypes, Status
  <2> QED
    BY <1>4, <2>2, <2>3, <2>4 DEF Finish, FrameTypes, WaitTypes, PoolTypes, waitVars, poolVars
<1>5. CASE Trim \/ WaitEvents
  BY <1>5 DEF Trim, WaitEvents, Phases, FrameTypes, Status, WaitTypes, PoolTypes, frameVars,
              waitVars, poolVars
<1>6. ASSUME NEW f \in Frames, Resume(f)
      PROVE  TypeOK'
  BY <1>6 DEF Resume, Phases, FrameTypes, Status, WaitTypes, PoolTypes, poolVars
<1>7. CASE Leave
  <2>1. Main \in Frames
    BY TasksAssumption
  <2> QED
    BY <1>7, <2>1 DEF Leave, DeleteTask, Phases, FrameTypes, Status, WaitTypes, PoolTypes,
                      waitVars
<1>8. ASSUME NEW w \in Workers, Take(w)
      PROVE  TypeOK'
  <2>1. Head(tasks) \in Frames /\ Tail(tasks) \in Seq(Frames)
    BY <1>8 DEF Take, PoolTypes
  <2> QED
    BY <1>8, <2>1 DEF Take, FrameTypes, WaitTypes, PoolTypes, frameVars, waitVars
<1>9. ASSUME NEW w \in Workers, Sleep(w) \/ Exit(w)
      PROVE  TypeOK'
  BY <1>9 DEF Sleep, Exit, FrameTypes, WaitTypes, PoolTypes, frameVars, waitVars
<1>10. ASSUME NEW w \in Workers, RunTask(w) \/ Notify(w)
       PROVE  TypeOK'
  <2>1. job[w] \in Frames
    BY <1>10 DEF RunTask, Notify, Pooled, PoolTypes
  <2> QED
    BY <1>10, <2>1 DEF RunTask, Notify, FrameTypes, WaitTypes, PoolTypes, frameVars
<1>11. CASE Destructor
  BY <1>11 DEF Destructor, SetStop, NotifyAll, FrameTypes, WaitTypes, PoolTypes, frameVars,
               waitVars
<1>12. CASE UNCHANGED vars
  BY <1>12 DEF vars, FrameTypes, WaitTypes, PoolTypes, frameVars, waitVars, poolVars
<1> QED
  BY <1>1, <1>2, <1>3, <1>4, <1>5, <1>6, <1>7, <1>8, <1>9, <1>10, <1>11, <1>12
  DEF Next, Loop, Code, Worker, Terminated

-----------------------------------------------------------------------------
(* The stack.                                                              *)

\* The pool, the wait for events and the destructors leave the frames alone.
LEMMA Quiet ==
  ASSUME [Next]_vars
  PROVE  \/ \E f, g \in Frames : Call(f, g) \/ EnsureFuture(f, g) \/ Await(f, g) \/ DropTask(f, g)
         \/ \E f \in Frames : Wait(f) \/ Execute(f) \/ Resume(f)
         \/ \E f \in Frames, type \in {"VALUE", "EXCEPTION"} : Finish(f, type)
         \/ Trim \/ Leave
         \/ /\ UNCHANGED <<stack, frameVars>>
            /\ phase' = phase \/ (phase = "wait" /\ phase' = "do")
BY DEF Next, Loop, Code, Worker, Destructor, Terminated, vars, WaitEvents, Take, Sleep, Exit,
       RunTask, Notify, SetStop, NotifyAll

\* The coroutine that awaits a live one is suspended.
LEMMA AwaiterIs ==
  ASSUME TypeOK, Resumed, NEW f \in Frames, Live(f), continuation_coro[f] # Nobody
  PROVE  /\ continuation_coro[f] \in Frames /\ Awaits(continuation_coro[f])
         /\ status[continuation_coro[f]] = "suspended"
<1>1. continuation_coro[f] \in Frames
  BY DEF TypeOK, FrameTypes
<1>2. Awaits(continuation_coro[f])
  BY DEF Awaits
<1> QED  BY <1>1, <1>2 DEF Resumed, Waiting, Resumable

\* The stack is the set of running coroutines.
LEMMA StackedStep ==
  ASSUME TypeOK, Stacked, Kept, Resumed, [Next]_vars
  PROVE  Stacked'
<1>1. /\ status \in [Frames -> Status] /\ stack \in Seq(Frames) /\ Distinct(stack)
      /\ \A f \in Frames : status[f] = "running" <=> f \in Range(stack)
      /\ stack # <<>> => phase \in {"start", "do"}
  BY DEF TypeOK, FrameTypes, Stacked
<1>2. ASSUME NEW f \in Frames, NEW g \in Frames, Call(f, g) \/ DropTask(f, g)
      PROVE  Stacked'
  <2>1. /\ stack' = stack /\ phase' = phase
        /\ \A h \in Frames : status'[h] = "running" <=> status[h] = "running"
    BY <1>1, <1>2 DEF Call, DropTask, DeleteTask
  <2> QED  BY <1>1, <2>1 DEF Stacked
<1>3. ASSUME NEW f \in Frames, NEW g \in Frames, EnsureFuture(f, g)
      PROVE  Stacked'
  <2>1. /\ stack' = <<g>> \o stack /\ phase' = phase /\ status[g] = "created" /\ stack # <<>>
        /\ status' = [status EXCEPT ![g] = "running"]
    BY <1>3 DEF EnsureFuture, Running
  <2>2. g \notin Range(stack)
    BY <1>1, <2>1
  <2>3. Distinct(<<g>> \o stack) /\ Range(<<g>> \o stack) = Range(stack) \cup {g}
    BY <1>1, <2>2, DistinctPush
  <2>4. \A h \in Frames : status'[h] = "running" <=> h \in Range(stack) \cup {g}
    BY <1>1, <2>1
  <2> QED  BY <1>1, <2>1, <2>3, <2>4 DEF Stacked
<1>4. ASSUME NEW f \in Frames, NEW g \in Frames, Await(f, g)
      PROVE  Stacked'
  <2>1. /\ stack' = <<g>> \o Tail(stack) /\ phase' = phase /\ status[g] = "created"
        /\ status' = [status EXCEPT ![f] = "suspended", ![g] = "running"] /\ Running(f)
    BY <1>4 DEF Await
  <2>2. /\ Tail(stack) \in Seq(Frames) /\ Distinct(Tail(stack)) /\ status[f] = "running"
        /\ Range(Tail(stack)) = Range(stack) \ {f} /\ phase \in {"start", "do"}
    BY <2>1, RunningIs
  <2>3. g \notin Range(stack)
    BY <1>1, <2>1
  <2>4. Distinct(<<g>> \o Tail(stack)) /\ Range(<<g>> \o Tail(stack)) = (Range(stack) \ {f}) \cup {g}
    <3>1. PICK q : q = Tail(stack)
      OBVIOUS
    <3>2. q \in Seq(Frames) /\ Distinct(q) /\ g \notin Range(q)
      BY <2>2, <2>3, <3>1
    <3>3. Distinct(<<g>> \o q) /\ Range(<<g>> \o q) = Range(q) \cup {g}
      BY <3>2, DistinctPush
    <3> QED  BY <2>2, <3>1, <3>3
  <2>5. \A h \in Frames : status'[h] = "running" <=> h \in (Range(stack) \ {f}) \cup {g}
    BY <1>1, <2>1, <2>2
  <2> QED  BY <2>1, <2>2, <2>4, <2>5 DEF Stacked
<1>5. ASSUME NEW f \in Frames, Wait(f) \/ Execute(f)
      PROVE  Stacked'
  <2>1. /\ stack' = Tail(stack) /\ phase' = phase /\ Running(f)
        /\ status' = [status EXCEPT ![f] = "suspended"]
    BY <1>5 DEF Wait, Execute
  <2>2. /\ Distinct(Tail(stack)) /\ Range(Tail(stack)) = Range(stack) \ {f}
        /\ phase \in {"start", "do"}
    BY <2>1, RunningIs
  <2>3. \A h \in Frames : status'[h] = "running" <=> h \in Range(stack) \ {f}
    BY <1>1, <2>1
  <2> QED  BY <2>1, <2>2, <2>3 DEF Stacked
<1>6. ASSUME NEW f \in Frames, NEW type, Finish(f, type)
      PROVE  Stacked'
  <2>1. /\ Tail(stack) \in Seq(Frames) /\ Distinct(Tail(stack)) /\ status[f] = "running"
        /\ Range(Tail(stack)) = Range(stack) \ {f} /\ phase \in {"start", "do"}
    BY <1>6, RunningIs DEF Finish
  <2>2. CASE continuation_coro[f] = Nobody
    <3>1. /\ stack' = Tail(stack) /\ status' = [status EXCEPT ![f] = "done"]
          /\ stack' # <<>> => phase' = phase
      BY <1>6, <2>2 DEF Finish
    <3>2. \A h \in Frames : status'[h] = "running" <=> h \in Range(stack) \ {f}
      BY <1>1, <3>1
    <3> QED  BY <2>1, <3>1, <3>2 DEF Stacked
  <2>3. CASE continuation_coro[f] # Nobody
    <3>1. PICK g \in Frames : g = continuation_coro[f] /\ status[g] = "suspended"
      BY <2>1, <2>3, AwaiterIs DEF Live
    <3>2. /\ stack' = <<g>> \o Tail(stack) /\ phase' = phase
          /\ status' = [status EXCEPT ![f] = "done", ![g] = "running"]
      BY <1>6, <2>3, <3>1 DEF Finish
    <3>3. g \notin Range(stack)
      BY <1>1, <3>1
    <3>4. /\ Distinct(<<g>> \o Tail(stack))
          /\ Range(<<g>> \o Tail(stack)) = (Range(stack) \ {f}) \cup {g}
      <4>1. PICK q : q = Tail(stack)
        OBVIOUS
      <4>2. q \in Seq(Frames) /\ Distinct(q) /\ g \notin Range(q)
        BY <2>1, <3>3, <4>1
      <4>3. Distinct(<<g>> \o q) /\ Range(<<g>> \o q) = Range(q) \cup {g}
        BY <4>2, DistinctPush
      <4> QED  BY <2>1, <4>1, <4>3
    <3>5. \A h \in Frames : status'[h] = "running" <=> h \in (Range(stack) \ {f}) \cup {g}
      BY <1>1, <2>1, <3>1, <3>2
    <3> QED  BY <2>1, <3>2, <3>4, <3>5 DEF Stacked
  <2> QED  BY <2>2, <2>3
<1>7. CASE Trim
  <2>1. /\ stack = <<>> /\ stack' = <<>>
        /\ status' = [f \in Frames |->
             IF f \in Range(to_clean_up_handles) THEN "destroyed" ELSE status[f]]
    BY <1>7 DEF Trim
  <2>2. \A h \in Frames : status[h] # "running"
    BY <1>1, <2>1, EmptyRange
  <2>3. \A h \in Frames : status'[h] # "running"
    BY <2>1, <2>2
  <2> QED  BY <1>1, <2>1, <2>3, EmptyRange DEF Stacked
<1>8. ASSUME NEW f \in Frames, Resume(f)
      PROVE  Stacked'
  <2>1. /\ stack = <<>> /\ stack' = <<f>> /\ phase = "do" /\ phase' = phase
        /\ status' = [status EXCEPT ![f] = "running"]
    BY <1>8 DEF Resume
  <2>2. \A h \in Frames : status[h] # "running"
    BY <1>1, <2>1, EmptyRange
  <2>3. \A h \in Frames : status'[h] = "running" <=> h \in {f}
    BY <1>1, <2>1, <2>2
  <2> QED  BY <2>1, <2>3, EmptyRange DEF Stacked
<1>9. CASE Leave
  <2>1. /\ stack' = stack /\ stack = <<>>
        /\ \A h \in Frames : status'[h] = "running" <=> status[h] = "running"
    BY <1>1, <1>9 DEF Leave, DeleteTask
  <2> QED  BY <1>1, <2>1 DEF Stacked
<1>10. CASE /\ UNCHANGED <<stack, frameVars>>
            /\ phase' = phase \/ (phase = "wait" /\ phase' = "do")
  BY <1>1, <1>10 DEF Stacked, frameVars
<1> QED  BY <1>2, <1>3, <1>4, <1>5, <1>6, <1>7, <1>8, <1>9, <1>10, Quiet

-----------------------------------------------------------------------------
(* Chains of co_await.                                                     *)

\* Steps that make no coroutine live that awaited something else before.
LEMMA ChainedFrame ==
  ASSUME Chained,
         \A g \in Frames : Live(g)' => /\ Live(g) \/ continuation_coro[g] = Nobody
                                       /\ continuation_coro'[g] = continuation_coro[g]
  PROVE  Chained'
<1>1. PICK n \in Nat : \E rank \in [Frames -> 0 .. n] : Chain(n, rank)
  BY DEF Chained
<1>2. PICK rank \in [Frames -> 0 .. n] : Chain(n, rank)
  BY <1>1
<1>3. Chain(n, rank)'
  BY <1>2 DEF Chain
<1> QED  BY <1>2, <1>3 DEF Chained

\* A co_await puts the awaited coroutine, which nobody awaits yet, at the end.
LEMMA ChainedStep ==
  ASSUME TypeOK, Stacked, Kept, Resumed, Chained, [Next]_vars
  PROVE  Chained'
<1>1. /\ status \in [Frames -> Status] /\ continuation_coro \in [Frames -> Frames \cup {Nobody}]
  BY DEF TypeOK, FrameTypes
<1>2. ASSUME NEW f \in Frames, NEW g \in Frames, Await(f, g)
      PROVE  Chained'
  <2>1. /\ status[g] = "created" /\ status[f] = "running"
        /\ status' = [status EXCEPT ![f] = "suspended", ![g] = "running"]
        /\ continuation_coro' = [continuation_coro EXCEPT ![g] = f]
    BY <1>2, RunningIs DEF Await
  <2>2. PICK n \in Nat : \E rank \in [Frames -> 0 .. n] : Chain(n, rank)
    BY DEF Chained
  <2>3. PICK rank \in [Frames -> 0 .. n] : Chain(n, rank)
    BY <2>2
  <2> DEFINE new == [rank EXCEPT ![g] = rank[f] + 1]
  <2>4. new \in [Frames -> 0 .. n + 1] /\ n + 1 \in Nat
    BY <2>2, <2>3
  <2>5. ~Awaits(g)
    BY <2>1 DEF Resumed, Waiting, Resumable
  <2>6. ASSUME NEW h \in Frames, Live(h)', continuation_coro'[h] # Nobody
        PROVE  new[continuation_coro'[h]] < new[h]
    <3>1. CASE h = g
      <4>1. continuation_coro'[h] = f /\ f # g
        BY <1>1, <2>1, <3>1
      <4>2. new[f] = rank[f] /\ new[g] = rank[f] + 1 /\ rank[f] \in Nat
        BY <2>3, <4>1
      <4> QED  BY <3>1, <4>1, <4>2
    <3>2. CASE h # g
      <4>1. Live(h) /\ continuation_coro'[h] = continuation_coro[h]
        BY <1>1, <2>1, <2>6, <3>2 DEF Live
      <4>2. continuation_coro[h] # g /\ continuation_coro[h] \in Frames
        BY <1>1, <2>5, <2>6, <4>1 DEF Awaits
      <4>3. rank[continuation_coro[h]] < rank[h]
        BY <2>3, <2>6, <4>1 DEF Chain
      <4> QED  BY <2>3, <3>2, <4>1, <4>2, <4>3
    <3> QED  BY <3>1, <3>2
  <2> HIDE DEF new
  <2>7. Chain(n + 1, new)'
    BY <2>6 DEF Chain
  <2> QED  BY <2>4, <2>7 DEF Chained
<1>3. ASSUME NEW f \in Frames, NEW g \in Frames,
             Call(f, g) \/ EnsureFuture(f, g) \/ DropTask(f, g)
      PROVE  Chained'
  <2>1. Frame(g)
    BY DEF Kept
  <2> QED
    BY <1>1, <1>3, <2>1, ChainedFrame DEF Call, EnsureFuture, DropTask, DeleteTask, Live, Frame
<1>4. ASSUME NEW f \in Frames, Wait(f) \/ Execute(f)
      PROVE  Chained'
  <2>1. status[f] = "running"
    BY <1>4, RunningIs DEF Wait, Execute
  <2> QED  BY <1>1, <1>4, <2>1, ChainedFrame DEF Wait, Execute, Live
<1>5. ASSUME NEW f \in Frames, Resume(f)
      PROVE  Chained'
  <2>1. status[f] = "suspended"
    BY <1>5 DEF Resume, Resumed, Waiting, Resumable
  <2> QED  BY <1>1, <1>5, <2>1, ChainedFrame DEF Resume, Live
<1>6. ASSUME NEW f \in Frames, NEW type, Finish(f, type)
      PROVE  Chained'
  <2>1. status[f] = "running" /\ continuation_coro' = continuation_coro
    BY <1>6, RunningIs DEF Finish
  <2>2. \A g \in Frames : Live(g)' => Live(g)
    <3>1. CASE continuation_coro[f] = Nobody
      BY <1>1, <1>6, <3>1 DEF Finish, Live
    <3>2. CASE continuation_coro[f] # Nobody
      BY <1>1, <1>6, <2>1, <3>2, AwaiterIs DEF Finish, Live
    <3> QED  BY <3>1, <3>2
  <2> QED  BY <2>1, <2>2, ChainedFrame
<1>7. CASE Trim \/ Leave
  BY <1>1, <1>7, ChainedFrame DEF Trim, Leave, DeleteTask, Live
<1>8. CASE UNCHANGED frameVars
  BY <1>8, ChainedFrame DEF frameVars, Live
<1> QED  BY <1>2, <1>3, <1>4, <1>5, <1>6, <1>7, <1>8, Quiet

-----------------------------------------------------------------------------
(* Who destroys a frame.                                                   *)

\* A step that leaves a frame's own state alone, and its owner alive.
LEMMA FrameFrame ==
  ASSUME NEW f \in Frames, Frame(f), status'[f] = status[f] \/ (Live(f) /\ Live(f)'),
         owner'[f] = owner[f], f \in need_clean' <=> f \in need_clean,
         f \in need_manual_clean' <=> f \in need_manual_clean,
         f \in Range(to_clean_up_handles)' <=> f \in Range(to_clean_up_handles),
         continuation_coro'[f] = continuation_coro[f],
         \A h \in Frames : owner[f] = h /\ Live(h) => Live(h)',
         f = Main => (phase' \in {"ended", "failed"} <=> phase \in {"ended", "failed"})
  PROVE  Frame(f)'
<1>1. /\ (Live(f)' <=> Live(f)) /\ (Started(f)' <=> Started(f))
      /\ \A x \in {"none", "created", "done", "destroyed"} : status'[f] = x <=> status[f] = x
  BY DEF Live, Started
<1>2. owner'[f] \in Frames => status'[owner'[f]] \in {"running", "suspended"}
  BY DEF Frame, Live
<1>3. /\ status'[f] \in {"none", "created"} =>
           /\ f \notin need_clean' /\ f \notin need_manual_clean'
           /\ f \notin Range(to_clean_up_handles)' /\ continuation_coro'[f] = Nobody
      /\ status'[f] = "none" => owner'[f] = Nobody
      /\ Started(f)' =>
           \/ /\ owner'[f] # Nobody /\ f \notin need_manual_clean'
              /\ f \notin Range(to_clean_up_handles)'
           \/ /\ owner'[f] = Nobody /\ Live(f)' /\ f \in need_manual_clean'
              /\ f \notin Range(to_clean_up_handles)'
           \/ owner'[f] = Nobody /\ status'[f] = "done" /\ f \in Range(to_clean_up_handles)'
      /\ status'[f] = "destroyed" => owner'[f] = Nobody /\ f \notin Range(to_clean_up_handles)'
      /\ Live(f)' /\ f \notin need_clean' /\ owner'[f] # Nobody =>
           owner'[f] \in Frames /\ continuation_coro'[f] = owner'[f]
      /\ owner'[f] = Caller <=> f = Main /\ phase' \notin {"ended", "failed"}
  BY <1>1 DEF Frame
<1> QED  BY <1>2, <1>3 DEF Frame, Live

\* What the clean-up list holds is done and has no owner.
LEMMA ListedIsDone ==
  ASSUME TypeOK, Kept, NEW f \in Frames, f \in Range(to_clean_up_handles)
  PROVE  status[f] = "done" /\ owner[f] = Nobody
BY DEF Kept, Frame, Started, TypeOK, FrameTypes, Status

\* A coroutine function is called.
LEMMA KeptCall ==
  ASSUME TypeOK, Stacked, Kept, NEW f \in Frames, NEW g \in Frames, Call(f, g)
  PROVE  Kept'
<1>1. /\ status \in [Frames -> Status] /\ owner \in [Frames -> Frames \cup {Nobody, Caller}]
  BY DEF TypeOK, FrameTypes
<1>2. /\ status[g] = "none" /\ status[f] = "running" /\ f # g /\ phase \notin {"ended", "failed"}
      /\ status' = [status EXCEPT ![g] = "created"] /\ owner' = [owner EXCEPT ![g] = f]
      /\ phase' = phase /\ need_clean' = need_clean /\ need_manual_clean' = need_manual_clean
      /\ continuation_coro' = continuation_coro /\ to_clean_up_handles' = to_clean_up_handles
  BY RunningIs DEF Call
<1>3. \A h \in Frames : Live(h) => Live(h)'
  BY <1>1, <1>2 DEF Live
<1>4. g # Main /\ Frame(g)
  BY <1>2 DEF Kept, Started
<1>5. Frame(g)'
  BY <1>1, <1>2, <1>3, <1>4, TasksAssumption DEF Frame, Live, Started
<1>6. ASSUME NEW h \in Frames \ {g}
      PROVE  Frame(h)'
  <2>1. Frame(h) /\ status'[h] = status[h] /\ owner'[h] = owner[h]
    BY <1>1, <1>2 DEF Kept
  <2> QED  BY <1>2, <1>3, <2>1, FrameFrame
<1>7. Started(Main)'
  BY <1>1, <1>2, <1>4, TasksAssumption DEF Kept, Started
<1> QED  BY <1>2, <1>5, <1>6, <1>7 DEF Kept

\* A coroutine is started, by EnsureFuture or by co_await.
LEMMA KeptStart ==
  ASSUME TypeOK, Stacked, Kept, NEW f \in Frames, NEW g \in Frames,
         EnsureFuture(f, g) \/ Await(f, g)
  PROVE  Kept'
<1>1. /\ status \in [Frames -> Status] /\ owner \in [Frames -> Frames \cup {Nobody, Caller}]
      /\ continuation_coro \in [Frames -> Frames \cup {Nobody}]
  BY DEF TypeOK, FrameTypes
<1>2. /\ Running(f) /\ status[g] = "created" /\ owner[g] = f /\ phase' = phase /\ owner' = owner
      /\ need_manual_clean' = need_manual_clean /\ to_clean_up_handles' = to_clean_up_handles
  BY DEF EnsureFuture, Await
<1>3. status[f] = "running" /\ f # g /\ phase \notin {"ended", "failed"}
  BY <1>2, RunningIs
<1>4. /\ status'[g] = "running" /\ Live(f)'
      /\ \A h \in Frames \ {f, g} : status'[h] = status[h]
  BY <1>1, <1>3 DEF EnsureFuture, Await, Live
<1>5. \A h \in Frames : Live(h) => Live(h)'
  BY <1>2, <1>3, <1>4 DEF Live
<1>6. /\ \A h \in Frames \ {g} : /\ h \in need_clean' <=> h \in need_clean
                                /\ continuation_coro'[h] = continuation_coro[h]
      /\ g \in need_clean' \/ continuation_coro'[g] = f
      /\ need_clean \subseteq need_clean'
  BY <1>1 DEF EnsureFuture, Await
<1>7. g # Main /\ Frame(g)
  BY <1>2, <1>3, TasksAssumption DEF Kept, Started
<1>8. Frame(g)'
  <2>1. g \notin need_manual_clean /\ g \notin Range(to_clean_up_handles)
    BY <1>2, <1>7 DEF Frame
  <2>2. owner'[g] = f /\ f # Nobody /\ f # Caller
    BY <1>2, TasksAssumption
  <2> QED  BY <1>2, <1>4, <1>6, <1>7, <2>1, <2>2 DEF Frame, Live, Started
<1>9. ASSUME NEW h \in Frames \ {g}
      PROVE  Frame(h)'
  <2>1. Frame(h) /\ (status'[h] = status[h] \/ (Live(h) /\ Live(h)'))
    BY <1>3, <1>4 DEF Kept, Live
  <2> QED  BY <1>2, <1>5, <1>6, <2>1, FrameFrame
<1>10. Started(Main)'
  <2>1. Started(Main) /\ Main \in Frames
    BY <1>3, TasksAssumption DEF Kept
  <2> QED  BY <1>4, <1>7, <2>1 DEF Started, Live
<1> QED  BY <1>2, <1>6, <1>8, <1>9, <1>10 DEF Kept

\* ~Task of a local never meets a live coroutine that was awaited: its owner would be
\* suspended.
LEMMA KeptDrop ==
  ASSUME TypeOK, Stacked, Kept, Resumed, NEW f \in Frames, NEW g \in Frames, DropTask(f, g)
  PROVE  Kept'
<1>1. /\ status \in [Frames -> Status] /\ owner \in [Frames -> Frames \cup {Nobody, Caller}]
  BY DEF TypeOK, FrameTypes
<1>2. /\ status[f] = "running" /\ owner[g] = f /\ phase' = phase /\ phase \notin {"ended", "failed"}
      /\ owner' = [owner EXCEPT ![g] = Nobody] /\ need_clean' = need_clean
      /\ continuation_coro' = continuation_coro /\ to_clean_up_handles' = to_clean_up_handles
      /\ DeleteTask(g)
  BY RunningIs DEF DropTask, DeleteTask
<1>3. f # Nobody /\ f # Caller /\ Nobody # Caller /\ Main \in Frames
  BY TasksAssumption
<1>4. Frame(g) /\ g # Main
  BY <1>2, <1>3 DEF Kept, Frame
<1>5. Live(g) => g \in need_clean
  <2> SUFFICES ASSUME Live(g), g \notin need_clean
               PROVE  FALSE
    OBVIOUS
  <2>1. continuation_coro[g] = f
    BY <1>2, <1>3, <1>4 DEF Frame
  <2> QED  BY <1>2, <1>3, <2>1, AwaiterIs
<1>6. \A h \in Frames \ {g} : /\ status'[h] = status[h] /\ owner'[h] = owner[h]
                              /\ h \in need_manual_clean' <=> h \in need_manual_clean
  BY <1>1, <1>2 DEF DeleteTask
<1>7. \A h \in Frames : Live(h) => Live(h)'
  BY <1>1, <1>2 DEF DeleteTask, Live
<1>8. Frame(g)'
  <2>1. owner'[g] = Nobody /\ Nobody \notin Frames
    BY <1>1, <1>2, TasksAssumption
  <2>2. CASE status[g] = "done"
    <3>1. status'[g] = "destroyed" /\ g \notin Range(to_clean_up_handles)
      BY <1>1, <1>2, <1>3, <1>4, <2>2 DEF DeleteTask, Frame, Started
    <3> QED  BY <1>2, <1>3, <1>4, <2>1, <3>1 DEF Frame, Live, Started
  <2>3. CASE status[g] = "created"
    <3>1. status'[g] = "created" /\ g \notin need_manual_clean'
      BY <1>2, <1>4, <2>3 DEF DeleteTask, Frame
    <3> QED  BY <1>2, <1>3, <1>4, <2>1, <2>3, <3>1 DEF Frame, Live, Started
  <2>4. CASE Live(g)
    <3>1. status'[g] = status[g] /\ g \in need_manual_clean'
      BY <1>2, <1>5, <2>4 DEF DeleteTask, Live
    <3>2. g \notin Range(to_clean_up_handles)
      BY <1>2, <1>3, <1>4, <2>4 DEF Frame, Started, Live
    <3> QED  BY <1>2, <1>3, <1>4, <2>1, <2>4, <3>1, <3>2 DEF Frame, Live, Started
  <2>5. status[g] \notin {"none", "destroyed"}
    BY <1>2, <1>3, <1>4 DEF Frame
  <2> QED  BY <1>1, <2>2, <2>3, <2>4, <2>5 DEF Status, Live
<1>9. ASSUME NEW h \in Frames \ {g}
      PROVE  Frame(h)'
  <2>1. Frame(h)
    BY DEF Kept
  <2> QED  BY <1>2, <1>6, <1>7, <2>1, FrameFrame
<1>10. Started(Main)'
  BY <1>2, <1>3, <1>4, <1>6 DEF Kept, Started
<1> QED  BY <1>2, <1>8, <1>9, <1>10 DEF Kept

\* A coroutine ends: the Task that owns it destroys it, or the clean-up list gets it.
LEMMA KeptFinish ==
  ASSUME TypeOK, Stacked, Kept, Resumed, NEW f \in Frames, NEW type, Finish(f, type)
  PROVE  Kept'
<1>1. /\ status \in [Frames -> Status] /\ owner \in [Frames -> Frames \cup {Nobody, Caller}]
      /\ continuation_coro \in [Frames -> Frames \cup {Nobody}]
      /\ to_clean_up_handles \in Seq(Frames)
  BY DEF TypeOK, FrameTypes
<1>2. /\ Running(f) /\ \A g \in Frames : owner[g] # f
      /\ owner' = owner /\ need_clean' = need_clean /\ need_manual_clean' = need_manual_clean
      /\ continuation_coro' = continuation_coro /\ phase' \in {phase, "failing"}
      /\ f \in need_manual_clean => to_clean_up_handles' = Append(to_clean_up_handles, f)
      /\ f \notin need_manual_clean => to_clean_up_handles' = to_clean_up_handles
  BY DEF Finish
<1>3. status[f] = "running" /\ phase \in {"start", "do"} /\ Live(f)
  BY <1>2, RunningIs DEF Live
<1>4. phase \notin {"ended", "failed"} /\ phase' \notin {"ended", "failed"}
  BY <1>2, <1>3
<1>5. /\ status'[f] = "done"
      /\ \A h \in Frames \ {f} : status'[h] = status[h] \/ (Live(h) /\ Live(h)')
  <2>1. CASE continuation_coro[f] = Nobody
    <3>1. status' = [status EXCEPT ![f] = "done"]
      BY <2>1 DEF Finish
    <3> QED  BY <1>1, <3>1
  <2>2. CASE continuation_coro[f] # Nobody
    <3>1. PICK g \in Frames : g = continuation_coro[f] /\ status[g] = "suspended"
      BY <1>3, <2>2, AwaiterIs
    <3>2. status' = [status EXCEPT ![f] = "done", ![g] = "running"] /\ f # g
      BY <1>3, <2>2, <3>1 DEF Finish
    <3> QED  BY <1>1, <3>1, <3>2 DEF Live
  <2> QED  BY <2>1, <2>2
<1>6. Frame(f) /\ f \notin Range(to_clean_up_handles)
  BY <1>3, ListedIsDone DEF Kept
<1>7. /\ Distinct(to_clean_up_handles')
      /\ Range(to_clean_up_handles') = IF f \in need_manual_clean
           THEN Range(to_clean_up_handles) \cup {f} ELSE Range(to_clean_up_handles)
  <2>1. Distinct(to_clean_up_handles)
    BY DEF Kept
  <2>2. /\ Distinct(Append(to_clean_up_handles, f))
        /\ Range(Append(to_clean_up_handles, f)) = Range(to_clean_up_handles) \cup {f}
    BY <1>1, <1>6, <2>1, DistinctAppend
  <2> QED  BY <1>2, <2>1, <2>2
<1>8. Frame(f)'
  <2>1. owner[f] \in Frames => owner[f] # f /\ Live(owner[f])'
    BY <1>2, <1>5, <1>6 DEF Frame, Live
  <2> QED  BY <1>2, <1>3, <1>4, <1>5, <1>6, <1>7, <2>1 DEF Frame, Live, Started
<1>9. ASSUME NEW h \in Frames \ {f}
      PROVE  Frame(h)'
  <2>1. Frame(h) /\ (status'[h] = status[h] \/ (Live(h) /\ Live(h)'))
    BY <1>5 DEF Kept
  <2>2. \A k \in Frames : owner[h] = k /\ Live(k) => Live(k)'
    BY <1>2, <1>5 DEF Live
  <2>3. h \in Range(to_clean_up_handles') <=> h \in Range(to_clean_up_handles)
    BY <1>7
  <2> QED  BY <1>2, <1>4, <2>1, <2>2, <2>3, FrameFrame
<1>10. Started(Main)'
  <2>1. Started(Main) /\ Main \in Frames
    BY <1>4, TasksAssumption DEF Kept
  <2> QED  BY <1>5, <2>1 DEF Started, Live
<1> QED  BY <1>2, <1>7, <1>8, <1>9, <1>10 DEF Kept

\* A coroutine is suspended or resumed.
LEMMA KeptSwitch ==
  ASSUME TypeOK, Stacked, Kept, Resumed, NEW f \in Frames, Wait(f) \/ Execute(f) \/ Resume(f)
  PROVE  Kept'
<1>1. /\ owner' = owner /\ need_clean' = need_clean /\ need_manual_clean' = need_manual_clean
      /\ continuation_coro' = continuation_coro /\ to_clean_up_handles' = to_clean_up_handles
      /\ phase' = phase
  BY DEF Wait, Execute, Resume
<1>2. Live(f)
  BY RunningIs DEF Wait, Execute, Resume, Live, Resumed, Waiting, Resumable
<1>3. \A h \in Frames : status'[h] = status[h] \/ (Live(h) /\ Live(h)')
  BY <1>2 DEF Wait, Execute, Resume, Live, TypeOK, FrameTypes
<1>4. ASSUME NEW h \in Frames
      PROVE  Frame(h)'
  <2>1. Frame(h) /\ \A k \in Frames : owner[h] = k /\ Live(k) => Live(k)'
    BY <1>3 DEF Kept, Live
  <2> QED  BY <1>1, <1>3, <2>1, FrameFrame
<1>5. Started(Main) => Started(Main)'
  BY <1>3, TasksAssumption DEF Started, Live
<1> QED  BY <1>1, <1>4, <1>5 DEF Kept

\* CleanUpFinishedCoroutines destroys what is in the list, and nothing else.
LEMMA KeptTrim ==
  ASSUME TypeOK, Kept, Trim
  PROVE  Kept'
<1>1. /\ owner' = owner /\ need_clean' = need_clean /\ need_manual_clean' = need_manual_clean
      /\ continuation_coro' = continuation_coro /\ to_clean_up_handles' = <<>>
      /\ phase \notin {"ended", "failed"} /\ phase' \notin {"ended", "failed"}
      /\ Range(to_clean_up_handles') = {}
  BY EmptyRange DEF Trim
<1>2. \A h \in Frames : status'[h] = IF h \in Range(to_clean_up_handles) THEN "destroyed"
                                                                       ELSE status[h]
  BY DEF Trim
<1>3. \A h \in Frames : Live(h) => Live(h)'
  BY <1>2, ListedIsDone DEF Live
<1>4. ASSUME NEW h \in Frames
      PROVE  Frame(h)'
  <2>1. Frame(h)
    BY DEF Kept
  <2>2. CASE h \in Range(to_clean_up_handles)
    <3>1. status'[h] = "destroyed" /\ owner[h] = Nobody /\ Nobody \notin Frames
      BY <1>2, <2>2, ListedIsDone, TasksAssumption
    <3> QED  BY <1>1, <2>1, <3>1 DEF Frame, Live, Started
  <2>3. CASE h \notin Range(to_clean_up_handles)
    BY <1>1, <1>2, <1>3, <2>1, <2>3, FrameFrame
  <2> QED  BY <2>2, <2>3
<1>5. Started(Main)'
  <2>1. Started(Main) /\ Main \in Frames /\ Frame(Main) /\ owner[Main] = Caller /\ Caller # Nobody
    BY <1>1, TasksAssumption DEF Kept, Frame
  <2> QED  BY <1>2, <2>1, ListedIsDone DEF Started
<1> QED  BY <1>1, <1>4, <1>5, EmptyRange DEF Kept

\* The caller's Task goes: of a main coroutine that is done, the last of it; of one an
\* exception has left behind, need_manual_clean_ is set.
LEMMA KeptLeave ==
  ASSUME TypeOK, Kept, Leave
  PROVE  Kept'
<1>1. /\ phase \in {"returned", "failing"} /\ phase' \in {"ended", "failed"} /\ DeleteTask(Main)
      /\ need_clean' = need_clean /\ continuation_coro' = continuation_coro
      /\ to_clean_up_handles' = to_clean_up_handles /\ owner' = [owner EXCEPT ![Main] = Nobody]
  BY DEF Leave, DeleteTask
<1>2. /\ status \in [Frames -> Status] /\ owner \in [Frames -> Frames \cup {Nobody, Caller}]
      /\ Main \in Frames /\ Nobody \notin Frames /\ Caller \notin Frames /\ Nobody # Caller
  BY TasksAssumption DEF TypeOK, FrameTypes
<1>3. /\ Frame(Main) /\ Started(Main) /\ Main \in need_clean /\ owner[Main] = Caller
      /\ Main \notin Range(to_clean_up_handles)
  BY <1>1, <1>2 DEF Kept, Frame
<1>4. \A h \in Frames \ {Main} : /\ status'[h] = status[h] /\ owner'[h] = owner[h]
                                 /\ h \in need_manual_clean' <=> h \in need_manual_clean
  BY <1>1, <1>2 DEF DeleteTask
<1>5. \A h \in Frames : Live(h) => Live(h)'
  BY <1>1, <1>2 DEF DeleteTask, Live
<1>6. Frame(Main)'
  <2>1. owner'[Main] = Nobody
    BY <1>1, <1>2
  <2>2. CASE status[Main] = "done"
    <3>1. status'[Main] = "destroyed"
      BY <1>1, <1>2, <2>2 DEF DeleteTask
    <3> QED  BY <1>1, <1>2, <1>3, <2>1, <3>1 DEF Frame, Live, Started
  <2>3. CASE status[Main] # "done"
    <3>1. status'[Main] = status[Main] /\ Main \in need_manual_clean' /\ Live(Main)
      BY <1>1, <1>2, <1>3, <2>3 DEF DeleteTask, Started, Live, Status
    <3> QED  BY <1>1, <1>2, <1>3, <2>1, <3>1 DEF Frame, Live, Started
  <2> QED  BY <2>2, <2>3
<1>7. ASSUME NEW h \in Frames \ {Main}
      PROVE  Frame(h)'
  <2>1. Frame(h)
    BY DEF Kept
  <2> QED  BY <1>1, <1>4, <1>5, <2>1, FrameFrame
<1> QED  BY <1>1, <1>6, <1>7 DEF Kept

\* Every step keeps the frames accounted for.
LEMMA KeptStep ==
  ASSUME TypeOK, Stacked, Kept, Resumed, [Next]_vars
  PROVE  Kept'
<1>1. CASE /\ UNCHANGED <<stack, frameVars>>
           /\ phase' = phase \/ (phase = "wait" /\ phase' = "do")
  <2>1. ASSUME NEW h \in Frames
        PROVE  Frame(h)'
    <3>1. Frame(h)
      BY DEF Kept
    <3> QED  BY <1>1, <3>1, FrameFrame DEF frameVars, Live
  <2> QED  BY <1>1, <2>1 DEF Kept, Started, frameVars
<1> QED  BY <1>1, Quiet, KeptCall, KeptStart, KeptDrop, KeptFinish, KeptSwitch, KeptTrim, KeptLeave

-----------------------------------------------------------------------------
(* Who resumes a coroutine.                                                *)

\* A step that leaves all resumers of a frame alone.
LEMMA WaitingFrame ==
  ASSUME NEW f \in Frames, Waiting(f), f \in events' <=> f \in events,
         f \in todo_events' <=> f \in todo_events, f \in triggered' <=> f \in triggered,
         f \in Range(tasks') <=> f \in Range(tasks), InPool(f)' <=> InPool(f),
         Awaits(f)' <=> Awaits(f), status'[f] = "suspended" <=> status[f] = "suspended",
         phase = "failed" => phase' = "failed"
  PROVE  Waiting(f)'
BY DEF Waiting, Resumable

\* A step that starts or ends no coroutine with a continuation.
LEMMA AwaitsSame ==
  ASSUME TypeOK, continuation_coro' = continuation_coro,
         \A g \in Frames : continuation_coro[g] # Nobody => (Live(g)' <=> Live(g))
  PROVE  /\ \A f \in Frames : Awaits(f)' <=> Awaits(f)
         /\ OneChild => OneChild'
<1>1. Nobody \notin Frames
  BY TasksAssumption
<1>2. \A f \in Frames : Awaits(f)' <=> Awaits(f)
  BY <1>1 DEF Awaits
<1>3. OneChild => OneChild'
  BY DEF OneChild
<1> QED  BY <1>2, <1>3

\* Steps that neither suspend nor resume.
LEMMA ResumedFrame ==
  ASSUME TypeOK, Resumed, continuation_coro' = continuation_coro,
         \A g \in Frames : continuation_coro[g] # Nobody => (Live(g)' <=> Live(g)),
         \A g \in Frames : status'[g] = "suspended" <=> status[g] = "suspended",
         events' = events, todo_events' = todo_events, triggered' = triggered, tasks' = tasks,
         job' = job, phase = "failed" => phase' = "failed"
  PROVE  Resumed'
<1>1. (\A f \in Frames : Awaits(f)' <=> Awaits(f)) /\ OneChild'
  BY AwaitsSame DEF Resumed
<1>2. \A f \in Frames : InPool(f)' <=> InPool(f)
  BY DEF InPool
<1>3. ASSUME NEW f \in Frames
      PROVE  Waiting(f)'
  <2>1. Waiting(f)
    BY DEF Resumed
  <2> QED  BY <1>1, <1>2, <2>1, WaitingFrame
<1> QED  BY <1>1, <1>3 DEF Resumed, OneJob

\* co_await of a Task: the awaited coroutine becomes the one that resumes.
LEMMA ResumedAwait ==
  ASSUME TypeOK, Stacked, Kept, Resumed, NEW f \in Frames, NEW g \in Frames, Await(f, g)
  PROVE  Resumed'
<1>1. /\ status \in [Frames -> Status] /\ continuation_coro \in [Frames -> Frames \cup {Nobody}]
      /\ Nobody \notin Frames
  BY TasksAssumption DEF TypeOK, FrameTypes
<1>2. /\ status[g] = "created" /\ status[f] = "running"
      /\ status' = [status EXCEPT ![f] = "suspended", ![g] = "running"]
      /\ continuation_coro' = [continuation_coro EXCEPT ![g] = f]
      /\ events' = events /\ todo_events' = todo_events /\ triggered' = triggered
      /\ tasks' = tasks /\ job' = job /\ phase' = phase
  BY RunningIs DEF Await, waitVars, poolVars
<1>3. f # g /\ continuation_coro[g] = Nobody /\ Waiting(f) /\ ~Resumable(f)
  BY <1>2 DEF Kept, Frame, Resumed, Waiting
<1>4. \A h \in Frames : InPool(h)' <=> InPool(h)
  BY <1>2 DEF InPool
<1>5. \A h \in Frames \ {f} : Awaits(h)' <=> Awaits(h)
  BY <1>1, <1>2, <1>3 DEF Awaits, Live
<1>6. Awaits(f)'
  BY <1>1, <1>2, <1>3 DEF Awaits, Live
<1>7. Waiting(f)'
  BY <1>1, <1>2, <1>3, <1>4, <1>6 DEF Waiting, Resumable
<1>8. ASSUME NEW h \in Frames \ {f}
      PROVE  Waiting(h)'
  <2>1. Waiting(h) /\ (status'[h] = "suspended" <=> status[h] = "suspended")
    BY <1>1, <1>2 DEF Resumed
  <2> QED  BY <1>2, <1>4, <1>5, <2>1, WaitingFrame
<1>9. OneChild'
  <2>1. \A h \in Frames \ {g} : /\ continuation_coro'[h] = continuation_coro[h]
                                /\ Live(h)' => Live(h)
    BY <1>1, <1>2 DEF Live
  <2>2. \A h \in Frames \ {g} : Live(h)' => continuation_coro'[h] # f
    BY <1>3, <2>1 DEF Resumable, Awaits
  <2>3. continuation_coro'[g] = f
    BY <1>1, <1>2
  <2> QED  BY <2>1, <2>2, <2>3 DEF OneChild, Resumed
<1> QED  BY <1>2, <1>7, <1>8, <1>9 DEF Resumed, OneJob

\* A coroutine waits for an event.
LEMMA ResumedWait ==
  ASSUME TypeOK, Stacked, Resumed, NEW f \in Frames, Wait(f)
  PROVE  Resumed'
<1>1. /\ status[f] = "running" /\ status \in [Frames -> Status]
      /\ status' = [status EXCEPT ![f] = "suspended"] /\ continuation_coro' = continuation_coro
      /\ events' = events \cup {f} /\ todo_events' = todo_events /\ triggered' = triggered
      /\ tasks' = tasks /\ job' = job /\ phase' = phase
  BY RunningIs DEF Wait, poolVars, TypeOK, FrameTypes
<1>2. Waiting(f) /\ ~Resumable(f)
  BY <1>1 DEF Resumed, Waiting
<1>3. \A h \in Frames : InPool(h)' <=> InPool(h)
  BY <1>1 DEF InPool
<1>4. \A g \in Frames : Live(g)' <=> Live(g)
  BY <1>1 DEF Live
<1>5. (\A h \in Frames : Awaits(h)' <=> Awaits(h)) /\ OneChild'
  BY <1>1, <1>4, AwaitsSame DEF Resumed
<1>6. Waiting(f)'
  BY <1>1, <1>2, <1>3, <1>5 DEF Waiting, Resumable
<1>7. ASSUME NEW h \in Frames \ {f}
      PROVE  Waiting(h)'
  <2>1. Waiting(h) /\ status'[h] = status[h]
    BY <1>1 DEF Resumed
  <2> QED  BY <1>1, <1>3, <1>5, <2>1, WaitingFrame
<1> QED  BY <1>1, <1>5, <1>6, <1>7 DEF Resumed, OneJob

\* A coroutine waits for the pool.
LEMMA ResumedExecute ==
  ASSUME TypeOK, Stacked, Resumed, NEW f \in Frames, Execute(f)
  PROVE  Resumed'
<1>1. /\ status[f] = "running" /\ status \in [Frames -> Status] /\ tasks \in Seq(Frames)
      /\ status' = [status EXCEPT ![f] = "suspended"] /\ continuation_coro' = continuation_coro
      /\ events' = events /\ todo_events' = todo_events /\ triggered' = triggered
      /\ tasks' = Append(tasks, f) /\ job' = job /\ phase' = phase
  BY RunningIs DEF Execute, Enqueue, TypeOK, FrameTypes, PoolTypes
<1>2. Waiting(f) /\ ~Resumable(f)
  BY <1>1 DEF Resumed, Waiting
<1>3. \A h \in Frames : InPool(h)' <=> InPool(h)
  BY <1>1 DEF InPool
<1>4. \A g \in Frames : Live(g)' <=> Live(g)
  BY <1>1 DEF Live
<1>5. (\A h \in Frames : Awaits(h)' <=> Awaits(h)) /\ OneChild'
  BY <1>1, <1>4, AwaitsSame DEF Resumed
<1>6. Distinct(tasks') /\ Range(tasks') = Range(tasks) \cup {f}
  <2>1. Distinct(tasks) /\ f \notin Range(tasks)
    BY <1>2 DEF Resumed, Resumable
  <2> QED  BY <1>1, <2>1, DistinctAppend
<1>7. Waiting(f)'
  BY <1>1, <1>2, <1>3, <1>5, <1>6 DEF Waiting, Resumable
<1>8. ASSUME NEW h \in Frames \ {f}
      PROVE  Waiting(h)'
  <2>1. Waiting(h) /\ status'[h] = status[h]
    BY <1>1 DEF Resumed
  <2> QED  BY <1>1, <1>3, <1>5, <1>6, <2>1, WaitingFrame
<1> QED  BY <1>1, <1>5, <1>6, <1>7, <1>8 DEF Resumed, OneJob

\* A coroutine ends and hands over to the one that awaits it.
LEMMA ResumedFinish ==
  ASSUME TypeOK, Stacked, Resumed, NEW f \in Frames, NEW type, Finish(f, type)
  PROVE  Resumed'
<1>1. /\ status[f] = "running" /\ status \in [Frames -> Status]
      /\ continuation_coro \in [Frames -> Frames \cup {Nobody}] /\ Nobody \notin Frames
      /\ continuation_coro' = continuation_coro /\ phase \in {"start", "do"}
      /\ events' = events /\ todo_events' = todo_events /\ triggered' = triggered
      /\ tasks' = tasks /\ job' = job
  BY RunningIs, TasksAssumption DEF Finish, waitVars, poolVars, TypeOK, FrameTypes
<1>2. CASE continuation_coro[f] = Nobody
  <2>1. status' = [status EXCEPT ![f] = "done"]
    BY <1>2 DEF Finish
  <2>2. \A g \in Frames : /\ continuation_coro[g] # Nobody => (Live(g)' <=> Live(g))
                          /\ status'[g] = "suspended" <=> status[g] = "suspended"
    BY <1>1, <1>2, <2>1 DEF Live
  <2> QED  BY <1>1, <2>2, ResumedFrame
<1>3. CASE continuation_coro[f] # Nobody
  <2>1. PICK g \in Frames : g = continuation_coro[f] /\ Awaits(g) /\ status[g] = "suspended"
    BY <1>1, <1>3, AwaiterIs DEF Live
  <2>2. f # g /\ status' = [status EXCEPT ![f] = "done", ![g] = "running"] /\ phase' = phase
    BY <1>1, <1>3, <2>1 DEF Finish
  <2>3. Live(f) /\ ~Live(f)' /\ \A h \in Frames \ {f} : Live(h)' <=> Live(h)
    BY <1>1, <2>1, <2>2 DEF Live
  <2>4. \A h \in Frames \ {g} : Awaits(h)' <=> Awaits(h)
    BY <1>1, <2>1, <2>3 DEF Awaits
  <2>5. ~Awaits(g)'
    <3>1. \A h \in Frames : Live(h)' => continuation_coro[h] # g
      BY <1>1, <2>1, <2>3 DEF Resumed, OneChild
    <3> QED  BY <1>1, <3>1 DEF Awaits
  <2>6. \A h \in Frames : InPool(h)' <=> InPool(h)
    BY <1>1 DEF InPool
  <2>7. Waiting(g)'
    <3>1. status'[g] # "suspended" /\ Waiting(g)
      BY <1>1, <2>2 DEF Resumed
    <3> QED  BY <1>1, <2>1, <2>5, <2>6, <3>1 DEF Waiting, Resumable
  <2>8. ASSUME NEW h \in Frames \ {g}
        PROVE  Waiting(h)'
    <3>1. Waiting(h) /\ (status'[h] = "suspended" <=> status[h] = "suspended")
      BY <1>1, <2>2 DEF Resumed
    <3> QED  BY <1>1, <2>2, <2>4, <2>6, <3>1, WaitingFrame
  <2>9. OneChild'
    BY <1>1, <2>3 DEF OneChild, Resumed
  <2> QED  BY <1>1, <2>7, <2>8, <2>9 DEF Resumed, OneJob
<1> QED  BY <1>2, <1>3

\* WaitEvents moves handles from the poller to the batch.
LEMMA ResumedWaitEvents ==
  ASSUME TypeOK, Resumed, Emptied, WaitEvents
  PROVE  Resumed'
<1>1. /\ status' = status /\ continuation_coro' = continuation_coro /\ tasks' = tasks /\ job' = job
      /\ todo_events = {} /\ triggered' = {} /\ phase # "failed"
  BY DEF WaitEvents, frameVars, poolVars, Emptied
<1>2. PICK some \in SUBSET events : /\ todo_events' = some \cup triggered
                                    /\ events' = events \ some
  BY DEF WaitEvents
<1>3. \A h \in Frames : InPool(h)' <=> InPool(h)
  BY <1>1 DEF InPool
<1>4. (\A h \in Frames : Awaits(h)' <=> Awaits(h)) /\ OneChild'
  BY <1>1, AwaitsSame DEF Resumed, Live
<1>5. ASSUME NEW h \in Frames
      PROVE  Waiting(h)'
  <2>1. Waiting(h)
    BY DEF Resumed
  <2> QED  BY <1>1, <1>2, <1>3, <1>4, <2>1 DEF Waiting, Resumable
<1> QED  BY <1>1, <1>4, <1>5 DEF Resumed, OneJob

\* Do resumes a coroutine and forgets its handle.
LEMMA ResumedResume ==
  ASSUME TypeOK, Resumed, NEW f \in Frames, Resume(f)
  PROVE  Resumed'
<1>1. /\ f \in todo_events /\ todo_events' = todo_events \ {f} /\ status \in [Frames -> Status]
      /\ status' = [status EXCEPT ![f] = "running"] /\ continuation_coro' = continuation_coro
      /\ events' = events /\ triggered' = triggered /\ tasks' = tasks /\ job' = job
      /\ phase' = phase
  BY DEF Resume, poolVars, TypeOK, FrameTypes
<1>2. Waiting(f) /\ status[f] = "suspended"
  BY <1>1 DEF Resumed, Waiting, Resumable
<1>3. \A h \in Frames : InPool(h)' <=> InPool(h)
  BY <1>1 DEF InPool
<1>4. \A g \in Frames : Live(g)' <=> Live(g)
  BY <1>1, <1>2 DEF Live
<1>5. (\A h \in Frames : Awaits(h)' <=> Awaits(h)) /\ OneChild'
  BY <1>1, <1>4, AwaitsSame DEF Resumed
<1>6. Waiting(f)'
  BY <1>1, <1>2, <1>3, <1>5 DEF Waiting, Resumable
<1>7. ASSUME NEW h \in Frames \ {f}
      PROVE  Waiting(h)'
  <2>1. Waiting(h) /\ status'[h] = status[h]
    BY <1>1 DEF Resumed
  <2> QED  BY <1>1, <1>3, <1>5, <2>1, WaitingFrame
<1> QED  BY <1>1, <1>5, <1>6, <1>7 DEF Resumed, OneJob

\* A worker takes the first task, and its handle with it.
LEMMA ResumedTake ==
  ASSUME TypeOK, Resumed, Pooled, NEW w \in Workers, Take(w)
  PROVE  Resumed'
<1>1. /\ status' = status /\ continuation_coro' = continuation_coro /\ events' = events
      /\ todo_events' = todo_events /\ triggered' = triggered /\ phase' = phase
      /\ tasks # <<>> /\ tasks' = Tail(tasks) /\ job' = [job EXCEPT ![w] = Head(tasks)]
  BY DEF Take, frameVars, waitVars
<1>2. /\ tasks \in Seq(Frames) /\ Distinct(tasks) /\ job \in [Workers -> Frames \cup {Nobody}]
      /\ job[w] = Nobody /\ Nobody \notin Frames
  BY TasksAssumption DEF TypeOK, PoolTypes, Resumed, Pooled, Take
<1>3. PICK f \in Frames : /\ f = Head(tasks) /\ f \in Range(tasks) /\ Distinct(tasks')
                          /\ Range(tasks') = Range(tasks) \ {f}
  BY <1>1, <1>2, DistinctTail
<1>4. Waiting(f) /\ ~InPool(f)
  BY <1>3 DEF Resumed, Waiting
<1>5. /\ InPool(f)'
      /\ \A h \in Frames \ {f} : InPool(h)' <=> InPool(h)
  BY <1>1, <1>2, <1>3 DEF InPool
<1>6. (\A h \in Frames : Awaits(h)' <=> Awaits(h)) /\ OneChild'
  BY <1>1, AwaitsSame DEF Resumed, Live
<1>7. Waiting(f)'
  BY <1>1, <1>3, <1>4, <1>5, <1>6 DEF Waiting, Resumable
<1>8. ASSUME NEW h \in Frames \ {f}
      PROVE  Waiting(h)'
  <2>1. Waiting(h)
    BY DEF Resumed
  <2> QED  BY <1>1, <1>3, <1>5, <1>6, <2>1, WaitingFrame
<1>9. OneJob'
  BY <1>1, <1>2, <1>3, <1>4 DEF OneJob, InPool, Resumed
<1> QED  BY <1>3, <1>6, <1>7, <1>8, <1>9 DEF Resumed

\* A worker triggers the event, or drops it when the loop has left the group: then an
\* exception has left the loop, for one that returns has no coroutine waiting.
LEMMA ResumedNotify ==
  ASSUME TypeOK, Resumed, Pooled, Emptied, NEW w \in Workers, Notify(w)
  PROVE  Resumed'
<1>1. /\ status' = status /\ continuation_coro' = continuation_coro /\ events' = events
      /\ todo_events' = todo_events /\ tasks' = tasks /\ phase' = phase
      /\ job' = [job EXCEPT ![w] = Nobody] /\ worker[w] = "notify"
      /\ triggered' = IF in_group THEN triggered \cup {job[w]} ELSE triggered
  BY DEF Notify, frameVars
<1>2. job \in [Workers -> Frames \cup {Nobody}] /\ Nobody \notin Frames /\ job[w] # Nobody
  BY <1>1, TasksAssumption DEF TypeOK, PoolTypes, Pooled
<1>3. PICK f \in Frames : f = job[w]
  BY <1>2
<1>4. InPool(f) /\ Waiting(f) /\ status[f] = "suspended"
  BY <1>3 DEF InPool, Resumed, Waiting, Resumable
<1>5. in_group \/ phase = "failed"
  <2>1. phase # "ended"
    <3>1. Started(f)
      BY <1>4 DEF Started
    <3> QED  BY <3>1 DEF Emptied
  <2> QED  BY <2>1 DEF Pooled
<1>6. /\ ~InPool(f)'
      /\ \A h \in Frames \ {f} : InPool(h)' <=> InPool(h)
  <2>1. \A v \in Workers \ {w} : job[v] # f
    BY <1>2, <1>3 DEF Resumed, OneJob
  <2>2. ~InPool(f)'
    BY <1>1, <1>2, <1>3, <2>1 DEF InPool
  <2>3. \A h \in Frames \ {f} : InPool(h)' <=> InPool(h)
    BY <1>1, <1>2, <1>3 DEF InPool
  <2> QED  BY <2>2, <2>3
<1>7. (\A h \in Frames : Awaits(h)' <=> Awaits(h)) /\ OneChild'
  BY <1>1, AwaitsSame DEF Resumed, Live
<1>8. Waiting(f)'
  BY <1>1, <1>3, <1>4, <1>5, <1>6, <1>7 DEF Waiting, Resumable
<1>9. ASSUME NEW h \in Frames \ {f}
      PROVE  Waiting(h)'
  <2>1. Waiting(h) /\ (h \in triggered' <=> h \in triggered)
    BY <1>1, <1>3 DEF Resumed
  <2> QED  BY <1>1, <1>6, <1>7, <2>1, WaitingFrame
<1>10. OneJob'
  BY <1>1, <1>2 DEF OneJob, Resumed
<1> QED  BY <1>1, <1>7, <1>8, <1>9, <1>10 DEF Resumed

\* Every step keeps one resumer for each suspended coroutine.
LEMMA ResumedStep ==
  ASSUME TypeOK, Stacked, Kept, Resumed, Pooled, Emptied, [Next]_vars
  PROVE  Resumed'
<1>1. ASSUME NEW f \in Frames, NEW g \in Frames,
             Call(f, g) \/ EnsureFuture(f, g) \/ DropTask(f, g)
      PROVE  Resumed'
  <2>1. Frame(g) /\ status \in [Frames -> Status]
    BY DEF Kept, TypeOK, FrameTypes
  <2>2. \A h \in Frames : /\ continuation_coro[h] # Nobody => (Live(h)' <=> Live(h))
                          /\ status'[h] = "suspended" <=> status[h] = "suspended"
    BY <1>1, <2>1 DEF Call, EnsureFuture, DropTask, DeleteTask, Live, Frame
  <2> QED
    BY <1>1, <2>2, ResumedFrame DEF Call, EnsureFuture, DropTask, waitVars, poolVars
<1>2. CASE Trim \/ Leave
  <2>1. \A h \in Frames : /\ Live(h)' <=> Live(h)
                          /\ status'[h] = "suspended" <=> status[h] = "suspended"
    BY <1>2, ListedIsDone, TasksAssumption DEF Trim, Leave, DeleteTask, Live, TypeOK, FrameTypes
  <2> QED  BY <1>2, <2>1, ResumedFrame DEF Trim, Leave, DeleteTask, waitVars, poolVars
<1>3. CASE \/ \E w \in Workers : Sleep(w) \/ Exit(w) \/ RunTask(w)
           \/ Destructor \/ UNCHANGED vars
  <2>1. /\ UNCHANGED <<phase, frameVars, events, triggered, todo_events, tasks, job>>
    BY <1>3 DEF Sleep, Exit, RunTask, Destructor, SetStop, NotifyAll, vars, waitVars, poolVars
  <2> QED  BY <2>1, ResumedFrame DEF frameVars, Live
<1> QED
  BY <1>1, <1>2, <1>3, ResumedAwait, ResumedWait, ResumedExecute, ResumedFinish,
     ResumedWaitEvents, ResumedResume, ResumedTake, ResumedNotify
  DEF Next, Loop, Code, Worker, Terminated

-----------------------------------------------------------------------------
(* The pool.                                                               *)

\* A step of the loop that leaves the pool's handles and futures alone.
LEMMA PooledFrame ==
  ASSUME Pooled, future' = future, tasks' = tasks, worker' = worker, job' = job,
         triggered' = triggered, todo_events' = todo_events,
         phase = "failed" => phase' = "failed",
         in_group' <=> phase' \notin {"ended", "failed"}
  PROVE  Pooled'
<1>1. \A f \in Frames : InPool(f)' <=> InPool(f)
  BY DEF InPool
<1> QED  BY <1>1 DEF Pooled

\* A future is pending until the worker that has the task has run it.
LEMMA PooledStep ==
  ASSUME TypeOK, Stacked, Kept, Resumed, Pooled, Emptied, [Next]_vars
  PROVE  Pooled'
<1>1. /\ future \in [Frames -> {"none", "pending", "ready"}] /\ tasks \in Seq(Frames)
      /\ job \in [Workers -> Frames \cup {Nobody}] /\ Nobody \notin Frames
      /\ worker \in [Workers -> {"look", "asleep", "run", "notify", "exited"}]
      /\ triggered \subseteq Frames /\ todo_events \subseteq Frames /\ events \subseteq Frames
      /\ phase \in Phases
  BY TasksAssumption DEF TypeOK, WaitTypes, PoolTypes
<1>2. /\ \A f \in Range(tasks) : f \in Frames
      /\ \A w \in Workers : job[w] \in Frames => InPool(job[w])
  BY <1>1 DEF Range, InPool
<1>3. ASSUME NEW f \in Frames, Execute(f)
      PROVE  Pooled'
  <2>1. /\ status[f] = "running" /\ future' = [future EXCEPT ![f] = "pending"] /\ phase' = phase
        /\ tasks' = Append(tasks, f) /\ job' = job /\ triggered' = triggered
        /\ todo_events' = todo_events /\ in_group' = in_group
        /\ \A w \in Workers : \/ worker'[w] = worker[w]
                              \/ worker[w] = "asleep" /\ worker'[w] = "look"
    BY <1>1, <1>3, RunningIs DEF Execute, Enqueue, Asleep
  <2>2. ~Resumable(f) /\ Distinct(tasks)
    BY <2>1 DEF Resumed, Waiting
  <2>3. Range(tasks') = Range(tasks) \cup {f}
    BY <1>1, <2>1, <2>2, DistinctAppend DEF Resumable
  <2>4. \A h \in Frames : InPool(h)' <=> InPool(h)
    BY <2>1 DEF InPool
  <2>5. \A w \in Workers : /\ worker'[w] \in {"run", "notify"} <=> job'[w] # Nobody
                           /\ worker'[w] = "run" => future'[job'[w]] = "pending"
                           /\ worker'[w] = "notify" => future'[job'[w]] = "ready"
    BY <1>1, <1>2, <2>1, <2>2 DEF Pooled, Resumable
  <2>6. /\ \A h \in Range(tasks)' : future'[h] = "pending"
        /\ \A h \in triggered' : future'[h] = "ready"
        /\ \A h \in todo_events' : future'[h] # "pending"
    BY <1>1, <1>2, <2>1, <2>2, <2>3 DEF Pooled, Resumable
  <2>7. \A h \in Frames : future'[h] # "none" /\ phase' # "failed" =>
          h \in Range(tasks)' \/ InPool(h)' \/ h \in triggered' \/ h \in todo_events'
    BY <1>1, <2>1, <2>3, <2>4 DEF Pooled
  <2> QED  BY <2>1, <2>5, <2>6, <2>7 DEF Pooled
<1>4. ASSUME NEW f \in Frames, Resume(f)
      PROVE  Pooled'
  <2>1. /\ f \in todo_events /\ todo_events' = todo_events \ {f} /\ phase' = phase
        /\ future' = [future EXCEPT ![f] = "none"] /\ triggered' = triggered
        /\ tasks' = tasks /\ worker' = worker /\ job' = job /\ in_group' = in_group
    BY <1>4 DEF Resume, poolVars
  <2>2. f \notin triggered /\ f \notin Range(tasks) /\ ~InPool(f)
    BY <2>1 DEF Resumed, Waiting
  <2>3. \A h \in Frames : InPool(h)' <=> InPool(h)
    BY <2>1 DEF InPool
  <2>4. \A w \in Workers : /\ worker[w] = "run" => future'[job[w]] = "pending"
                           /\ worker[w] = "notify" => future'[job[w]] = "ready"
    BY <1>1, <1>2, <2>1, <2>2 DEF Pooled
  <2>5. /\ \A h \in Range(tasks) : future'[h] = "pending"
        /\ \A h \in triggered : future'[h] = "ready"
        /\ \A h \in todo_events \ {f} : future'[h] # "pending"
    BY <1>1, <1>2, <2>1, <2>2 DEF Pooled
  <2>6. \A h \in Frames : future'[h] # "none" /\ phase' # "failed" =>
          h \in Range(tasks) \/ InPool(h)' \/ h \in triggered \/ h \in todo_events \ {f}
    BY <1>1, <2>1, <2>3 DEF Pooled
  <2> QED  BY <2>1, <2>4, <2>5, <2>6 DEF Pooled
<1>5. CASE WaitEvents
  <2>1. /\ triggered' = {} /\ phase = "wait" /\ phase' = "do" /\ future' = future
        /\ todo_events = {} /\ tasks' = tasks /\ worker' = worker /\ job' = job
        /\ in_group' = in_group
    BY <1>5 DEF WaitEvents, poolVars, Emptied
  <2>2. PICK some \in SUBSET events : todo_events' = some \cup triggered
    BY <1>5 DEF WaitEvents
  <2>3. \A f \in events : future[f] = "none"
    BY <1>1, <2>1 DEF Resumed, Waiting, Pooled
  <2>4. \A h \in Frames : InPool(h)' <=> InPool(h)
    BY <2>1 DEF InPool
  <2> QED  BY <1>1, <2>1, <2>2, <2>3, <2>4 DEF Pooled
<1>6. ASSUME NEW w \in Workers, Take(w)
      PROVE  Pooled'
  <2>1. /\ tasks # <<>> /\ tasks' = Tail(tasks) /\ job' = [job EXCEPT ![w] = Head(tasks)]
        /\ worker' = [worker EXCEPT ![w] = "run"] /\ future' = future /\ phase' = phase
        /\ triggered' = triggered /\ todo_events' = todo_events /\ in_group' = in_group
        /\ job[w] = Nobody
    BY <1>6 DEF Take, waitVars, Pooled
  <2>2. Head(tasks) \in Range(tasks) /\ Range(tasks') = Range(tasks) \ {Head(tasks)}
    BY <1>1, <2>1, DistinctTail DEF Resumed
  <2>3. \A h \in Frames : InPool(h) \/ h = Head(tasks) => InPool(h)'
    BY <1>1, <2>1 DEF InPool
  <2>4. \A v \in Workers : /\ worker'[v] \in {"run", "notify"} <=> job'[v] # Nobody
                           /\ worker'[v] = "run" => future[job'[v]] = "pending"
                           /\ worker'[v] = "notify" => future[job'[v]] = "ready"
    BY <1>1, <1>2, <2>1, <2>2 DEF Pooled
  <2>5. \A h \in Frames : future[h] # "none" /\ phase # "failed" =>
          h \in Range(tasks') \/ InPool(h)' \/ h \in triggered \/ h \in todo_events
    BY <2>2, <2>3 DEF Pooled
  <2> QED  BY <2>1, <2>2, <2>4, <2>5 DEF Pooled
<1>7. ASSUME NEW w \in Workers, RunTask(w)
      PROVE  Pooled'
  <2>1. /\ worker[w] = "run" /\ worker' = [worker EXCEPT ![w] = "notify"] /\ phase' = phase
        /\ future' = [future EXCEPT ![job[w]] = "ready"] /\ job' = job /\ tasks' = tasks
        /\ triggered' = triggered /\ todo_events' = todo_events /\ in_group' = in_group
    BY <1>7 DEF RunTask
  <2>2. PICK f \in Frames : f = job[w] /\ InPool(f)
    BY <1>1, <1>2, <2>1 DEF Pooled
  <2>3. f \notin Range(tasks) /\ f \notin triggered /\ f \notin todo_events
    BY <2>2 DEF Resumed, Waiting
  <2>4. \A h \in Frames : InPool(h)' <=> InPool(h)
    BY <2>1 DEF InPool
  <2>5. \A v \in Workers \ {w} : job[v] # f
    BY <1>1, <2>2 DEF Resumed, OneJob
  <2>6. \A v \in Workers : /\ worker'[v] \in {"run", "notify"} <=> job[v] # Nobody
                           /\ worker'[v] = "run" => future'[job[v]] = "pending"
                           /\ worker'[v] = "notify" => future'[job[v]] = "ready"
    BY <1>1, <2>1, <2>2, <2>5 DEF Pooled
  <2>7. /\ \A h \in Range(tasks) : future'[h] = "pending"
        /\ \A h \in triggered : future'[h] = "ready"
        /\ \A h \in todo_events : future'[h] # "pending"
    BY <1>1, <1>2, <2>1, <2>2, <2>3 DEF Pooled
  <2>8. \A h \in Frames : future'[h] # "none" /\ phase # "failed" =>
          h \in Range(tasks) \/ InPool(h)' \/ h \in triggered \/ h \in todo_events
    BY <1>1, <2>1, <2>2, <2>4 DEF Pooled
  <2> QED  BY <2>1, <2>6, <2>7, <2>8 DEF Pooled
<1>8. ASSUME NEW w \in Workers, Notify(w)
      PROVE  Pooled'
  <2>1. /\ worker[w] = "notify" /\ worker' = [worker EXCEPT ![w] = "look"] /\ phase' = phase
        /\ job' = [job EXCEPT ![w] = Nobody] /\ tasks' = tasks /\ future' = future
        /\ triggered' = (IF in_group THEN triggered \cup {job[w]} ELSE triggered)
        /\ todo_events' = todo_events /\ in_group' = in_group
    BY <1>8 DEF Notify
  <2>2. PICK f \in Frames : f = job[w] /\ InPool(f) /\ future[f] = "ready"
    BY <1>1, <1>2, <2>1 DEF Pooled
  <2>3. in_group \/ phase = "failed"
    <3>1. Started(f)
      BY <2>2 DEF Resumed, Waiting, Resumable, Started
    <3> QED  BY <3>1 DEF Pooled, Emptied
  <2>4. \A h \in Frames \ {f} : InPool(h) => InPool(h)'
    BY <1>1, <2>1, <2>2 DEF InPool
  <2>5. \A v \in Workers : /\ worker'[v] \in {"run", "notify"} <=> job'[v] # Nobody
                           /\ worker'[v] = "run" => future[job'[v]] = "pending"
                           /\ worker'[v] = "notify" => future[job'[v]] = "ready"
    BY <1>1, <2>1 DEF Pooled
  <2>6. \A h \in Frames : future[h] # "none" /\ phase # "failed" =>
          h \in Range(tasks) \/ InPool(h)' \/ h \in triggered' \/ h \in todo_events
    BY <2>1, <2>2, <2>3, <2>4 DEF Pooled
  <2>7. \A h \in triggered' : future[h] = "ready"
    BY <2>1, <2>2 DEF Pooled
  <2> QED  BY <2>1, <2>5, <2>6, <2>7 DEF Pooled
<1>9. ASSUME NEW w \in Workers, Sleep(w) \/ Exit(w)
      PROVE  Pooled'
  <2>1. /\ \A v \in Workers : worker'[v] = worker[v] \/ (v = w /\ worker[v] = "look")
        /\ worker'[w] \in {"asleep", "exited"} /\ worker[w] = "look"
    BY <1>1, <1>9 DEF Sleep, Exit
  <2>2. UNCHANGED <<phase, waitVars, tasks, job, in_group>>
    BY <1>9 DEF Sleep, Exit
  <2>3. \A h \in Frames : InPool(h)' <=> InPool(h)
    BY <2>2 DEF InPool
  <2> QED  BY <2>1, <2>2, <2>3 DEF Pooled, waitVars
<1>10. CASE NotifyAll
  <2>1. \A v \in Workers : \/ worker'[v] = worker[v]
                           \/ worker[v] = "asleep" /\ worker'[v] = "look"
    BY <1>1, <1>10 DEF NotifyAll, Asleep
  <2>2. UNCHANGED <<phase, waitVars, tasks, job, in_group>>
    BY <1>10 DEF NotifyAll
  <2>3. \A h \in Frames : InPool(h)' <=> InPool(h)
    BY <2>2 DEF InPool
  <2> QED  BY <2>1, <2>2, <2>3 DEF Pooled, waitVars
<1>11. CASE Leave
  <2>1. /\ phase' \in {"ended", "failed"} /\ in_group' = FALSE /\ phase \in {"returned", "failing"}
        /\ future' = future /\ tasks' = tasks /\ worker' = worker /\ job' = job
        /\ triggered' = triggered /\ todo_events' = todo_events
    BY <1>11 DEF Leave, waitVars
  <2> QED  BY <2>1, PooledFrame
<1>12. ASSUME NEW f \in Frames, NEW g \in Frames,
              Call(f, g) \/ EnsureFuture(f, g) \/ Await(f, g) \/ DropTask(f, g)
       PROVE  Pooled'
  BY <1>12, PooledFrame DEF Call, EnsureFuture, Await, DropTask, waitVars, poolVars, Pooled
<1>13. ASSUME NEW f \in Frames, NEW type, Wait(f) \/ Finish(f, type)
       PROVE  Pooled'
  <2>1. phase \in {"start", "do"} /\ phase' \in {phase, "failing"}
    BY <1>13, RunningIs DEF Wait, Finish
  <2>2. in_group' = in_group
    BY <1>13 DEF Wait, Finish, poolVars
  <2> QED  BY <1>13, <2>1, <2>2, PooledFrame DEF Wait, Finish, waitVars, poolVars, Pooled
<1>14. CASE Trim
  BY <1>14, PooledFrame DEF Trim, waitVars, poolVars, Pooled
<1>15. CASE SetStop \/ UNCHANGED vars
  BY <1>15, PooledFrame DEF SetStop, vars, waitVars, poolVars, Pooled
<1> QED
  BY <1>3, <1>4, <1>5, <1>6, <1>7, <1>8, <1>9, <1>10, <1>11, <1>12, <1>13, <1>14, <1>15
  DEF Next, Loop, Code, Worker, Destructor, Terminated

-----------------------------------------------------------------------------
(* Where RunUntilComplete returns.                                         *)

\* When no event and no future is left, no coroutine is alive: each would be awaited by
\* another one of a higher rank.
LEMMA NoneLive ==
  ASSUME TypeOK, Stacked, Resumed, Pooled, Chained, stack = <<>>, events = {}, todo_events = {},
         phase # "failed", \A f \in Frames : future[f] = "none"
  PROVE  \A f \in Frames : ~Live(f)
<1>1. ASSUME NEW f \in Frames, Live(f)
      PROVE  Awaits(f)
  <2>1. status[f] = "suspended"
    BY <1>1, EmptyRange DEF Live, Stacked
  <2>2. f \notin Range(tasks) /\ f \notin triggered
    BY DEF Pooled
  <2>3. ~InPool(f)
    <3> SUFFICES ASSUME NEW w \in Workers, job[w] = f
                 PROVE  FALSE
      BY DEF InPool
    <3>1. future[f] \in {"pending", "ready"}
      BY TasksAssumption DEF Pooled
    <3> QED  BY <3>1
  <2> QED  BY <2>1, <2>2, <2>3 DEF Resumed, Waiting, Resumable
<1>2. PICK n \in Nat : \E rank \in [Frames -> 0 .. n] : Chain(n, rank)
  BY DEF Chained
<1>3. PICK rank \in [Frames -> 0 .. n] : Chain(n, rank)
  BY <1>2
<1> DEFINE T == {n - rank[f] : f \in {g \in Frames : Live(g)}}
<1> SUFFICES ASSUME NEW f0 \in Frames, Live(f0)
             PROVE  FALSE
  OBVIOUS
<1>4. \A f \in Frames : rank[f] \in 0 .. n
  BY <1>3
<1>5. T \subseteq Nat /\ T # {}
  <2>1. \A f \in Frames : n - rank[f] \in Nat
    BY <1>2, <1>4
  <2> QED  BY <2>1
<1>6. PICK x \in T : \A y \in T : x <= y
  <2> HIDE DEF T
  <2> QED  BY <1>5, Least
<1>7. PICK f \in Frames : Live(f) /\ x = n - rank[f]
  BY <1>6
<1>8. PICK g \in Frames : Live(g) /\ continuation_coro[g] = f
  BY <1>1, <1>7 DEF Awaits
<1>9. rank[f] < rank[g]
  BY <1>3, <1>8, TasksAssumption DEF Chain
<1>10. n - rank[g] \in T
  BY <1>8
<1>11. n - rank[f] <= n - rank[g]
  BY <1>6, <1>7, <1>10
<1> QED
  <2> HIDE DEF T
  <2> QED  BY <1>2, <1>4, <1>7, <1>8, <1>9, <1>11

\* The loop returns only when the main coroutine is done and every other frame is gone.
LEMMA EmptiedTrim ==
  ASSUME TypeOK, Stacked, Kept, Resumed, Pooled, Chained, Trim
  PROVE  Emptied'
<1>1. /\ phase \in {"start", "do"} /\ stack = <<>> /\ todo_events = {} /\ todo_events' = {}
      /\ phase' \in {"returned", "wait"}
      /\ phase' = "returned" => events = {} /\ \A f \in Frames : future[f] = "none"
      /\ \A f \in Frames : status'[f] = IF f \in Range(to_clean_up_handles) THEN "destroyed"
                                                                            ELSE status[f]
  BY DEF Trim, waitVars
<1>2. CASE phase' = "wait"
  BY <1>1, <1>2 DEF Emptied
<1>3. CASE phase' = "returned"
  <2>1. \A f \in Frames : ~Live(f)
    BY <1>1, <1>3, NoneLive
  <2>2. ASSUME NEW f \in Frames \ {Main}
        PROVE  ~Started(f)'
    <3>1. Frame(f) /\ owner[f] \in Frames \cup {Nobody, Caller} /\ status[f] \in Status
      BY DEF Kept, TypeOK, FrameTypes
    <3>2. owner[f] = Nobody
      BY <1>1, <2>1, <3>1 DEF Frame
    <3>3. Started(f) => f \in Range(to_clean_up_handles)
      BY <2>1, <3>1, <3>2 DEF Frame
    <3> QED  BY <1>1, <3>3 DEF Started
  <2>3. status'[Main] = "done"
    <3>1. /\ Main \in Frames /\ Frame(Main) /\ Started(Main) /\ owner[Main] = Caller
          /\ Caller # Nobody /\ status[Main] \in Status
      BY <1>1, TasksAssumption DEF Kept, Frame, TypeOK, FrameTypes
    <3>2. Main \notin Range(to_clean_up_handles)
      BY <3>1, ListedIsDone
    <3>3. status[Main] = "done"
      BY <2>1, <3>1 DEF Started, Live, Status
    <3> QED  BY <1>1, <3>1, <3>2, <3>3
  <2> QED  BY <1>3, <2>2, <2>3 DEF Emptied
<1> QED  BY <1>1, <1>2, <1>3

\* Every step keeps that.
LEMMA EmptiedStep ==
  ASSUME TypeOK, Stacked, Kept, Resumed, Pooled, Chained, Emptied, [Next]_vars
  PROVE  Emptied'
<1>1. ASSUME NEW f \in Frames, NEW g \in Frames, NEW type,
             \/ Call(f, g) \/ EnsureFuture(f, g) \/ Await(f, g) \/ DropTask(f, g)
             \/ Wait(f) \/ Execute(f) \/ Finish(f, type) \/ Resume(f)
      PROVE  Emptied'
  <2>1. phase \in {"start", "do"}
    BY <1>1, RunningIs DEF Call, EnsureFuture, Await, DropTask, Wait, Execute, Finish, Resume
  <2>2. phase' \in {phase, "failing"}
    BY <1>1 DEF Call, EnsureFuture, Await, DropTask, Wait, Execute, Finish, Resume
  <2> QED  BY <2>1, <2>2 DEF Emptied
<1>2. CASE Leave
  <2>1. /\ phase' \in {"ended", "failed"}
        /\ phase' = "ended" => phase = "returned"
        /\ Main \in Frames /\ status \in [Frames -> Status]
    BY <1>2, TasksAssumption DEF Leave, TypeOK, FrameTypes
  <2>2. CASE phase' = "ended"
    <3>1. status' = [status EXCEPT ![Main] = "destroyed"]
      BY <1>2, <2>1, <2>2 DEF Leave, DeleteTask, Emptied
    <3>2. \A f \in Frames : ~Started(f)'
      BY <2>1, <2>2, <3>1 DEF Emptied, Started
    <3> QED  BY <2>1, <2>2, <3>2 DEF Emptied
  <2> QED  BY <2>1, <2>2 DEF Emptied
<1>3. CASE WaitEvents
  BY <1>3 DEF WaitEvents, Emptied
<1>4. CASE UNCHANGED <<phase, status, todo_events>>
  BY <1>4 DEF Emptied, Started
<1>5. \/ \E f, g \in Frames : \E type :
           \/ Call(f, g) \/ EnsureFuture(f, g) \/ Await(f, g) \/ DropTask(f, g)
           \/ Wait(f) \/ Execute(f) \/ Finish(f, type) \/ Resume(f)
      \/ Trim \/ Leave \/ WaitEvents \/ UNCHANGED <<phase, status, todo_events>>
  <2>1. CASE (\E w \in Workers : Worker(w)) \/ Destructor \/ UNCHANGED vars
    BY <2>1 DEF Worker, Take, Sleep, Exit, RunTask, Notify, Destructor, SetStop, NotifyAll, vars,
                frameVars, waitVars
  <2>2. CASE Loop \/ WaitEvents
    BY <2>2 DEF Loop, Code
  <2> QED  BY <2>1, <2>2 DEF Next, Terminated
<1> QED  BY <1>1, <1>2, <1>3, <1>4, <1>5, EmptiedTrim

-----------------------------------------------------------------------------
(* Theorems.                                                               *)

\* The loop starts with the main coroutine running and nothing else.
LEMMA IInvInit ==
  ASSUME Init
  PROVE  IInv
<1> USE DEF Init
<1>1. Main \in Frames /\ Nobody \notin Frames /\ Caller \notin Frames /\ Nobody # Caller
  BY TasksAssumption
<1>2. TypeOK
  BY <1>1 DEF TypeOK, Phases, FrameTypes, WaitTypes, PoolTypes, Status
<1>3. Stacked
  BY <1>1, EmptyRange DEF Stacked
<1>4. Kept
  <2>1. Range(to_clean_up_handles) = {} /\ Distinct(to_clean_up_handles)
    BY EmptyRange
  <2>2. ASSUME NEW f \in Frames
        PROVE  Frame(f)
    BY <1>1, <2>1 DEF Frame, Live, Started
  <2> QED  BY <1>1, <2>1, <2>2 DEF Kept, Started
<1>5. Resumed
  <2>1. Range(tasks) = {} /\ Distinct(tasks)
    BY EmptyRange
  <2>2. ASSUME NEW f \in Frames
        PROVE  Waiting(f)
    BY <1>1, <2>1 DEF Waiting, Resumable, InPool, Awaits
  <2> QED  BY <2>1, <2>2 DEF Resumed, OneJob, OneChild
<1>6. Pooled
  BY EmptyRange DEF Pooled
<1>7. Chained
  <2>1. [f \in Frames |-> 0] \in [Frames -> 0 .. 0] /\ 0 \in Nat
    OBVIOUS
  <2>2. Chain(0, [f \in Frames |-> 0])
    BY DEF Chain
  <2> QED  BY <2>1, <2>2 DEF Chained
<1>8. Emptied
  BY DEF Emptied
<1> QED  BY <1>2, <1>3, <1>4, <1>5, <1>6, <1>7, <1>8 DEF IInv

\* The inductive invariant.
THEOREM Invariant == Spec => []IInv
<1>1. Init => IInv
  BY IInvInit
<1>2. IInv /\ [Next]_vars => IInv'
  <2> SUFFICES ASSUME IInv, [Next]_vars
               PROVE  IInv'
    OBVIOUS
  <2>1. TypeOK /\ Stacked /\ Kept /\ Resumed /\ Pooled /\ Chained /\ Emptied
    BY DEF IInv
  <2>2. TypeOK' /\ Stacked' /\ Kept'
    BY <2>1, TypeStep, StackedStep, KeptStep
  <2>3. Resumed' /\ Pooled' /\ Chained' /\ Emptied'
    BY <2>1, ResumedStep, PooledStep, ChainedStep, EmptiedStep
  <2> QED  BY <2>2, <2>3 DEF IInv
<1> QED  BY <1>1, <1>2, PTL DEF Spec

\* Frames, lists, futures and workers keep their types: above all, a worker that runs a
\* task or triggers its event has one.
THEOREM TypeCorrect == Spec => []TypeOK
<1>1. IInv => TypeOK
  BY DEF IInv
<1> QED  BY <1>1, Invariant, PTL

\* The assert of ExecutorAwaiter::await_resume never fails.
THEOREM FuturesReady == Spec => []FutureReady
<1>1. IInv => FutureReady
  BY DEF IInv, Pooled, FutureReady
<1> QED  BY <1>1, Invariant, PTL

\* ~Task and CleanUpFinishedCoroutines destroy each frame once, and all of them by the
\* time StartEventLoop has returned.
THEOREM DestroyedOnce == Spec => []OneDestroyer
<1>1. ASSUME IInv
      PROVE  OneDestroyer
  <2>1. TypeOK /\ Kept /\ Emptied
    BY <1>1 DEF IInv
  <2>2. ASSUME NEW f \in Frames, Started(f)
        PROVE  Cardinality({d \in {"task", "promise", "list"} :
                 \/ d = "task" /\ owner[f] # Nobody
                 \/ d = "promise" /\ f \in need_manual_clean /\ status[f] # "done"
                 \/ d = "list" /\ f \in Range(to_clean_up_handles)}) = 1
    <3> DEFINE D == {d \in {"task", "promise", "list"} :
                      \/ d = "task" /\ owner[f] # Nobody
                      \/ d = "promise" /\ f \in need_manual_clean /\ status[f] # "done"
                      \/ d = "list" /\ f \in Range(to_clean_up_handles)}
    <3>1. \/ owner[f] # Nobody /\ f \notin need_manual_clean /\ f \notin Range(to_clean_up_handles)
          \/ /\ owner[f] = Nobody /\ status[f] # "done" /\ f \in need_manual_clean
             /\ f \notin Range(to_clean_up_handles)
          \/ owner[f] = Nobody /\ status[f] = "done" /\ f \in Range(to_clean_up_handles)
      BY <2>1, <2>2 DEF Kept, Frame, Live
    <3>2. D = {"task"} \/ D = {"promise"} \/ D = {"list"}
      BY <3>1
    <3> HIDE DEF D
    <3>3. Cardinality({"task"}) = 1 /\ Cardinality({"promise"}) = 1 /\ Cardinality({"list"}) = 1
      BY FS_Singleton
    <3>4. Cardinality(D) = 1
      BY <3>2, <3>3, Zenon
    <3> QED  BY <3>4 DEF D
  <2>3. \A i, j \in DOMAIN to_clean_up_handles :
          to_clean_up_handles[i] = to_clean_up_handles[j] => i = j
    BY <2>1 DEF Kept, Distinct
  <2>4. phase = "ended" => \A f \in Frames : ~Started(f)
    BY <2>1 DEF Emptied
  <2> QED  BY <2>2, <2>3, <2>4 DEF OneDestroyer
<1> QED  BY <1>1, Invariant, PTL

\* The handles of a frame's resumer, by kind: as many as there are of that kind.
LEMMA ResumersAre ==
  ASSUME IInv, NEW f \in Frames
  PROVE  /\ Resumable(f) => \E r : Resumers(f) = {r}
         /\ ~Resumable(f) => Resumers(f) = {}
<1> DEFINE Ev == {<<"event">> : e \in events \cap {f}}
           Td == {<<"todo">> : e \in todo_events \cap {f}}
           Tr == {<<"triggered">> : e \in triggered \cap {f}}
           Ta == {<<"task", i>> : i \in {j \in DOMAIN tasks : tasks[j] = f}}
           Wo == {<<"worker", w>> : w \in {v \in Workers : job[v] = f}}
           Ch == {<<"child", g>> : g \in {h \in Frames : Started(h) /\ status[h] # "done"
                                                         /\ continuation_coro[h] = f}}
<1>1. /\ TypeOK /\ Waiting(f) /\ Distinct(tasks) /\ OneJob /\ OneChild
      /\ Nobody \notin Frames
  BY TasksAssumption DEF IInv, Resumed
<1>2. /\ f \notin events => Ev = {}
      /\ f \in events => Ev = {<<"event">>}
  OBVIOUS
<1>3. /\ f \notin todo_events => Td = {}
      /\ f \in todo_events => Td = {<<"todo">>}
  OBVIOUS
<1>4. /\ f \notin triggered => Tr = {}
      /\ f \in triggered => Tr = {<<"triggered">>}
  OBVIOUS
<1>5. /\ f \notin Range(tasks) => Ta = {}
      /\ f \in Range(tasks) => \E r : Ta = {r}
  <2>1. f \notin Range(tasks) => Ta = {}
    BY DEF Range
  <2>2. ASSUME f \in Range(tasks)
        PROVE  \E r : Ta = {r}
    <3>1. PICK i \in DOMAIN tasks : tasks[i] = f
      BY <2>2 DEF Range
    <3>2. {j \in DOMAIN tasks : tasks[j] = f} = {i}
      BY <1>1, <3>1 DEF Distinct
    <3>3. Ta = {<<"task", i>>}
      BY <3>2
    <3> QED  BY <3>3
  <2> QED  BY <2>1, <2>2
<1>6. /\ ~InPool(f) => Wo = {}
      /\ InPool(f) => \E r : Wo = {r}
  <2>1. ~InPool(f) => Wo = {}
    BY DEF InPool
  <2>2. ASSUME InPool(f)
        PROVE  \E r : Wo = {r}
    <3>1. PICK w \in Workers : job[w] = f
      BY <2>2 DEF InPool
    <3>2. {v \in Workers : job[v] = f} = {w}
      BY <1>1, <3>1 DEF OneJob
    <3>3. Wo = {<<"worker", w>>}
      BY <3>2
    <3> QED  BY <3>3
  <2> QED  BY <2>1, <2>2
<1>7. /\ ~Awaits(f) => Ch = {}
      /\ Awaits(f) => \E r : Ch = {r}
  <2>1. \A h \in Frames : Started(h) /\ status[h] # "done" <=> Live(h)
    BY <1>1 DEF TypeOK, FrameTypes, Status, Started, Live
  <2>2. ~Awaits(f) => Ch = {}
    BY <2>1 DEF Awaits
  <2>3. ASSUME Awaits(f)
        PROVE  \E r : Ch = {r}
    <3>1. PICK g \in Frames : Live(g) /\ continuation_coro[g] = f
      BY <2>3 DEF Awaits
    <3>2. {h \in Frames : Started(h) /\ status[h] # "done" /\ continuation_coro[h] = f} = {g}
      BY <1>1, <2>1, <3>1 DEF OneChild
    <3>3. Ch = {<<"child", g>>}
      BY <3>2
    <3> QED  BY <3>3
  <2> QED  BY <2>2, <2>3
<1>8. Resumers(f) = Ev \cup Td \cup Tr \cup Ta \cup Wo \cup Ch
  BY DEF Resumers
<1> HIDE DEF Ev, Td, Tr, Ta, Wo, Ch
<1>9. ~Resumable(f) => Resumers(f) = {}
  BY <1>2, <1>3, <1>4, <1>5, <1>6, <1>7, <1>8 DEF Resumable
<1>10. ASSUME Resumable(f)
       PROVE  \E r : Resumers(f) = {r}
  <2>1. \/ Resumers(f) = Ev /\ f \in events
        \/ Resumers(f) = Td /\ f \in todo_events
        \/ Resumers(f) = Tr /\ f \in triggered
        \/ Resumers(f) = Ta /\ f \in Range(tasks)
        \/ Resumers(f) = Wo /\ InPool(f)
        \/ Resumers(f) = Ch /\ Awaits(f)
    BY <1>1, <1>2, <1>3, <1>4, <1>5, <1>6, <1>7, <1>8, <1>10 DEF Resumable, Waiting
  <2> QED  BY <1>2, <1>3, <1>4, <1>5, <1>6, <1>7, <2>1
<1> QED  BY <1>9, <1>10

\* A suspended coroutine has one party to resume it, any other coroutine none: none is
\* resumed twice, after its end or after ~Task, and none is left behind but by an
\* exception that leaves the loop.
THEOREM ResumedByOne == Spec => []ResumedOnce
<1>1. ASSUME IInv
      PROVE  ResumedOnce
  <2> SUFFICES ASSUME NEW f \in Frames
               PROVE  \/ status[f] = "suspended" /\ Cardinality(Resumers(f)) = 1
                      \/ status[f] # "suspended" /\ Resumers(f) = {}
                      \/ phase = "failed" /\ Cardinality(Resumers(f)) <= 1
    BY DEF ResumedOnce
  <2>1. Waiting(f)
    BY <1>1 DEF IInv, Resumed
  <2>2. CASE Resumable(f)
    <3>1. PICK r : Resumers(f) = {r}
      BY <1>1, <2>2, ResumersAre
    <3>2. Cardinality({r}) = 1
      BY FS_Singleton
    <3>3. Cardinality(Resumers(f)) = 1
      BY <3>1, <3>2, Zenon
    <3> QED  BY <2>1, <2>2, <3>3 DEF Waiting
  <2>3. CASE ~Resumable(f)
    <3>1. Resumers(f) = {}
      BY <1>1, <2>3, ResumersAre
    <3>2. Cardinality({}) = 0
      BY FS_EmptySet
    <3>3. Cardinality(Resumers(f)) = 0
      BY <3>1, <3>2, Zenon
    <3> QED  BY <2>1, <2>3, <3>1, <3>3 DEF Waiting
  <2> QED  BY <2>2, <2>3
<1> QED  BY <1>1, Invariant, PTL

-----------------------------------------------------------------------------
(* ~ThreadPool.                                                            *)

\* A task that has not been run is in the queue or with a worker, and a worker that has
\* exited saw the queue empty and stop_ set, after which nothing is enqueued.
Drained ==
  /\ \A f \in Frames : future[f] = "pending" =>
       f \in Range(tasks) \/ \E w \in Workers : worker[w] = "run" /\ job[w] = f
  /\ (\E w \in Workers : worker[w] = "exited") => tasks = <<>> /\ stop # "no"

\* Every step keeps that.
LEMMA DrainedStep ==
  ASSUME TypeOK, Stacked, Resumed, Pooled, Drained, [Next]_vars
  PROVE  Drained'
<1>1. /\ future \in [Frames -> {"none", "pending", "ready"}] /\ tasks \in Seq(Frames)
      /\ job \in [Workers -> Frames \cup {Nobody}] /\ Distinct(tasks)
      /\ worker \in [Workers -> {"look", "asleep", "run", "notify", "exited"}]
  BY DEF TypeOK, WaitTypes, PoolTypes, Resumed
<1>2. ASSUME NEW f \in Frames, Execute(f)
      PROVE  Drained'
  <2>1. /\ status[f] = "running" /\ future' = [future EXCEPT ![f] = "pending"] /\ job' = job
        /\ tasks' = Append(tasks, f) /\ stop = "no"
        /\ \A w \in Workers : \/ worker'[w] = worker[w]
                              \/ worker[w] = "asleep" /\ worker'[w] = "look"
    BY <1>1, <1>2, RunningIs DEF Execute, Enqueue, Asleep
  <2>2. f \notin Range(tasks)
    BY <2>1 DEF Resumed, Waiting, Resumable
  <2>3. Range(tasks') = Range(tasks) \cup {f}
    BY <1>1, <2>1, <2>2, DistinctAppend
  <2>4. \A w \in Workers : worker'[w] # "exited"
    BY <2>1 DEF Drained
  <2>5. ASSUME NEW h \in Frames, future'[h] = "pending"
        PROVE  h \in Range(tasks') \/ \E w \in Workers : worker'[w] = "run" /\ job'[w] = h
    BY <1>1, <2>1, <2>3, <2>5 DEF Drained
  <2> QED  BY <2>4, <2>5 DEF Drained
<1>3. ASSUME NEW w \in Workers, Take(w)
      PROVE  Drained'
  <2>1. /\ tasks # <<>> /\ tasks' = Tail(tasks) /\ job' = [job EXCEPT ![w] = Head(tasks)]
        /\ worker' = [worker EXCEPT ![w] = "run"] /\ future' = future /\ worker[w] = "look"
    BY <1>3 DEF Take, waitVars
  <2>2. Range(tasks') = Range(tasks) \ {Head(tasks)}
    BY <1>1, <2>1, DistinctTail
  <2>3. \A v \in Workers : worker'[v] # "exited"
    BY <1>1, <2>1 DEF Drained
  <2>4. ASSUME NEW h \in Frames, future[h] = "pending"
        PROVE  h \in Range(tasks') \/ \E v \in Workers : worker'[v] = "run" /\ job'[v] = h
    <3>1. CASE h = Head(tasks)
      <4>1. worker'[w] = "run" /\ job'[w] = h
        BY <1>1, <2>1, <3>1
      <4> QED  BY <4>1
    <3>2. CASE h # Head(tasks)
      <4>1. CASE h \in Range(tasks)
        BY <2>2, <3>2, <4>1
      <4>2. CASE h \notin Range(tasks)
        <5>1. PICK v \in Workers : worker[v] = "run" /\ job[v] = h
          BY <2>4, <4>2 DEF Drained
        <5>2. worker'[v] = "run" /\ job'[v] = h
          BY <1>1, <2>1, <5>1
        <5> QED  BY <5>2
      <4> QED  BY <4>1, <4>2
    <3> QED  BY <3>1, <3>2
  <2> QED  BY <2>1, <2>3, <2>4 DEF Drained
<1>4. ASSUME NEW w \in Workers, RunTask(w)
      PROVE  Drained'
  <2>1. /\ worker[w] = "run" /\ worker' = [worker EXCEPT ![w] = "notify"] /\ job' = job
        /\ future' = [future EXCEPT ![job[w]] = "ready"] /\ tasks' = tasks /\ stop' = stop
    BY <1>4 DEF RunTask
  <2>2. PICK f \in Frames : f = job[w]
    BY <1>1, <2>1 DEF Pooled
  <2> QED  BY <1>1, <2>1, <2>2 DEF Drained
<1>5. ASSUME NEW w \in Workers, Notify(w) \/ Sleep(w) \/ Exit(w)
      PROVE  Drained'
  <2>1. /\ worker[w] \in {"look", "notify"} /\ worker'[w] \in {"look", "asleep", "exited"}
        /\ \A v \in Workers \ {w} : worker'[v] = worker[v] /\ job'[v] = job[v]
        /\ worker'[w] = "exited" => tasks = <<>> /\ stop # "no"
        /\ future' = future /\ tasks' = tasks /\ stop' = stop
    BY <1>1, <1>5 DEF Notify, Sleep, Exit, waitVars
  <2> QED  BY <2>1 DEF Drained
<1>6. CASE Destructor
  <2>1. /\ \A v \in Workers : worker'[v] = worker[v] \/ (worker[v] = "asleep" /\ worker'[v] = "look")
        /\ job' = job /\ future' = future /\ tasks' = tasks /\ stop' # "no"
    BY <1>1, <1>6 DEF Destructor, SetStop, NotifyAll, Asleep, waitVars
  <2> QED  BY <2>1 DEF Drained
<1>7. CASE /\ UNCHANGED <<tasks, worker, job, stop>>
           /\ \A f \in Frames : future'[f] = "pending" => future[f] = "pending"
  BY <1>7 DEF Drained
<1>8. CASE Code \/ Trim \/ Leave \/ WaitEvents \/ UNCHANGED vars
  <2>1. CASE \E f \in Frames : Execute(f)
    BY <1>2, <2>1
  <2>2. CASE UNCHANGED <<tasks, worker, job, stop, future>>
    BY <1>7, <2>2
  <2> QED
    BY <1>8, <2>1, <2>2 DEF Code, Call, EnsureFuture, Await, DropTask, Wait, Finish, Trim, Leave,
                            WaitEvents, vars, waitVars, poolVars
<1>9. ASSUME NEW f \in Frames, Resume(f)
      PROVE  Drained'
  BY <1>1, <1>7, <1>9 DEF Resume, poolVars
<1> QED
  BY <1>3, <1>4, <1>5, <1>6, <1>8, <1>9 DEF Next, Loop, Worker, Terminated

\* The safety half of PoolDrains: when ~ThreadPool has joined its workers, of which there
\* is at least one, every task that was accepted has been run.
THEOREM RunBeforeJoined ==
  ASSUME Workers # {}
  PROVE  Spec => [](Joined => \A f \in Frames : future[f] # "pending")
<1>1. Init => Drained
  BY DEF Init, Drained
<1>2. IInv /\ Drained /\ [Next]_vars => Drained'
  BY DrainedStep DEF IInv
<1>3. Drained => (Joined => \A f \in Frames : future[f] # "pending")
  <2> SUFFICES ASSUME Drained, Joined, NEW f \in Frames, future[f] = "pending"
               PROVE  FALSE
    OBVIOUS
  <2>1. tasks = <<>> /\ \A w \in Workers : worker[w] = "exited"
    BY DEF Drained, Joined
  <2>2. Range(tasks) = {}
    BY <2>1, EmptyRange
  <2> QED  BY <2>1, <2>2 DEF Drained
<1> QED  BY <1>1, <1>2, <1>3, Invariant, PTL DEF Spec
=============================================================================
