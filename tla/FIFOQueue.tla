----------------------------- MODULE FIFOQueue -----------------------------
(***************************************************************************)
(* What tsqueue (library/queue.h) promises its users: a first-in first-out *)
(* queue whose operations are atomic.  server.h and client.h both call it  *)
(* "thread safe"; this module says what that means, and TSQueue, which     *)
(* models the mutexes and the two-step pop, is shown to implement it.      *)
(***************************************************************************)
EXTENDS Sequences

CONSTANT Items

VARIABLES
  items,  \* the elements now in the queue, front first
  put,    \* every element ever pushed, in the order of the pushes
  got     \* every element ever returned by a pop, in the order of the pops

vars == <<items, put, got>>

Init ==
  /\ items = <<>>
  /\ put = <<>>
  /\ got = <<>>

\* push_back(x) happens at one instant.
Put(x) ==
  /\ items' = Append(items, x)
  /\ put' = Append(put, x)
  /\ UNCHANGED got

\* pop_front() removes the front element and returns that same element.
Take ==
  /\ items # <<>>
  /\ items' = Tail(items)
  /\ got' = Append(got, Head(items))
  /\ UNCHANGED put

Next == Take \/ \E x \in Items : Put(x)

Spec == Init /\ [][Next]_vars

TypeOK ==
  /\ items \in Seq(Items)
  /\ put \in Seq(Items)
  /\ got \in Seq(Items)

(***************************************************************************)
(* What was pushed has been returned, in that order, or is still queued:   *)
(* nothing is lost, duplicated or overtaken.                               *)
(***************************************************************************)
FIFO == got \o items = put
=============================================================================
