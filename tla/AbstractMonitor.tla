--------------------------- MODULE AbstractMonitor ---------------------------
(***************************************************************************)
(* What coro::Lock and coro::Condition promise together.  One coroutine    *)
(* owns the lock; the others get it in the order in which they asked, and  *)
(* nobody overtakes them.  A wait with the lock gives the lock up and      *)
(* begins in one step, so that no notification falls between the two, and  *)
(* whoever waited so does nothing else before asking for the lock again.   *)
(*                                                                         *)
(* Lose is what WaitFor(lock, timeout) does instead of waiting.            *)
(***************************************************************************)
EXTENDS Sequences

CONSTANTS
  Coros,
  MayLose       \* TRUE: coroutines call WaitFor(lock, timeout)

VARIABLES
  owners,       \* the coroutine that owns the lock, if one does
  free,         \* the lock can be taken
  line,         \* the coroutines that asked for the lock, in order
  waiting,      \* those that wait on the condition, not notified or interrupted
  back          \* those that gave the lock up to wait, and must ask for it

monitor == <<owners, free, line, waiting, back>>

Init == owners = {} /\ free = TRUE /\ line = <<>> /\ waiting = {} /\ back = {}

InLine(c) == \E n \in DOMAIN line : line[n] = c

\* The lock goes to the first in line.
HandOn ==
  \/ /\ line = <<>>
     /\ owners' = {} /\ free' = TRUE /\ UNCHANGED line
  \/ /\ line # <<>>
     /\ owners' = {Head(line)} /\ line' = Tail(line) /\ UNCHANGED free

Enter(c) ==
  /\ c \notin owners /\ c \notin waiting /\ ~InLine(c)
  /\ \/ free /\ owners' = {c} /\ free' = FALSE /\ UNCHANGED line
     \/ ~free /\ line' = Append(line, c) /\ UNCHANGED <<owners, free>>
  /\ back' = back \ {c}
  /\ UNCHANGED waiting

Exit(c) == owners = {c} /\ HandOn /\ UNCHANGED <<waiting, back>>

Wait(c) ==
  /\ owners = {c} /\ c \notin waiting /\ HandOn
  /\ waiting' = waiting \cup {c}
  /\ back' = back \cup {c}

WaitUnlocked(c) ==
  /\ c \notin owners /\ c \notin waiting /\ c \notin back /\ ~InLine(c)
  /\ waiting' = waiting \cup {c}
  /\ UNCHANGED <<owners, free, line, back>>

\* NotifyOne, or an interruption.
Wake(c) ==
  /\ c \in waiting
  /\ waiting' = waiting \ {c}
  /\ UNCHANGED <<owners, free, line, back>>

NotifyAll == waiting' = {} /\ UNCHANGED <<owners, free, line, back>>

\* The owner asks for the lock that it has: nobody owns it any more.
Lose(c) ==
  /\ MayLose /\ owners = {c}
  /\ owners' = {} /\ line' = Append(line, c)
  /\ UNCHANGED <<free, waiting, back>>

Next == \/ \E c \in Coros : Enter(c) \/ Exit(c) \/ Wait(c) \/ WaitUnlocked(c) \/ Wake(c) \/ Lose(c)
        \/ NotifyAll

Spec == Init /\ [][Next]_monitor
=============================================================================
