----------------------------- MODULE MCTSQueue -----------------------------
(***************************************************************************)
(* Instances of TSQueue for TLC: which operations each user calls.         *)
(***************************************************************************)
EXTENDS TSQueue, TLC

\* ServerInterface::Update(-1, true) and ClientIntefrace::AwaitNextMessage.
WaitingUser == {"push_back", "wait", "is_empty", "pop_front"}

\* A consumer that blocks for every element and never polls.
BlockingUser == {"push_back", "wait", "pop_front"}
=============================================================================
