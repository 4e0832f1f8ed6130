--------------------------- MODULE AbstractQueue ---------------------------
(***************************************************************************)
(* What ConcurrentQueue promises to CoroutineQueue (dispatcher.h).  A call *)
(* that enqueues takes effect at once and entirely, or not at all.  A call *)
(* that dequeues gets at most max items; each item is given out once, and  *)
(* the items of one thread leave in the order in which it enqueued them.   *)
(* Between the items of different threads there is no order, and a call    *)
(* may give less than there is.                                            *)
(***************************************************************************)
EXTENDS Integers, Sequences

CONSTANTS Threads, Calls     \* Calls: what the threads may be about to call

VARIABLES
  todo,       \* the calls each thread has still to make
  queues,     \* the items each thread enqueued that nobody dequeued yet
  out,        \* the items each thread dequeued, in order
  taken       \* how many of them in the present call

Init ==
  /\ todo \in Calls
  /\ queues = [t \in Threads |-> << >>] /\ out = [t \in Threads |-> << >>]
  /\ taken = [t \in Threads |-> 0]

Calling(t, op) == todo[t] # << >> /\ Head(todo[t]).op = op
Return(t) == todo' = [todo EXCEPT ![t] = Tail(@)]

Put(t) ==
  /\ Calling(t, "put") /\ Return(t)
  /\ \/ queues' = [queues EXCEPT ![t] = @ \o Head(todo[t]).items]
     \/ UNCHANGED queues
  /\ UNCHANGED <<out, taken>>

Take(c, t) ==
  /\ Calling(c, "take")
  /\ \E n \in 1 .. Len(queues[t]) :
       /\ taken[c] + n <= Head(todo[c]).max
       /\ taken' = [taken EXCEPT ![c] = @ + n]
       /\ out' = [out EXCEPT ![c] = @ \o SubSeq(queues[t], 1, n)]
       /\ queues' = [queues EXCEPT ![t] = SubSeq(@, n + 1, Len(@))]
  /\ UNCHANGED todo

Taken(c) ==
  /\ Calling(c, "take") /\ Return(c)
  /\ taken' = [taken EXCEPT ![c] = 0]
  /\ UNCHANGED <<queues, out>>

Next == \E t \in Threads : Put(t) \/ Taken(t) \/ \E c \in Threads : Take(c, t)

Spec == Init /\ [][Next]_<<todo, queues, out, taken>>
=============================================================================
