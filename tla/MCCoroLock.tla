----------------------------- MODULE MCCoroLock -----------------------------
(***************************************************************************)
(* CoroLock for TLC: which loop each coroutine runs on.                    *)
(***************************************************************************)
EXTENDS CoroLock

CONSTANTS OneLoop     \* TRUE: all coroutines share a loop; FALSE: each has its own

MCLoops  == IF OneLoop THEN {"loop"} ELSE Coros
MCLoopOf == [c \in Coros |-> IF OneLoop THEN "loop" ELSE c]
=============================================================================
