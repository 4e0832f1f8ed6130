------------------------------ MODULE MCPoller ------------------------------
(***************************************************************************)
(* Poller for TLC.  The waits of one kind are interchangeable, and so are  *)
(* the descriptors as long as all of them are alike.                       *)
(***************************************************************************)
EXTENDS Poller, TLC

WaitSymmetry ==
  Permutations(IOWaits) \cup Permutations(UserWaits) \cup Permutations(Sleeps)
=============================================================================
