------------------------------ MODULE TSQueue ------------------------------
(***************************************************************************)
(* library/queue.h: the queue tsqueue<T> that every connection and both    *)
(* interfaces are built on, at the grain of its two mutexes and its        *)
(* condition variable.                                                     *)
(*                                                                         *)
(* muxQueue protects the deque.  push_back keeps it while it takes         *)
(* muxBlocking to notify; wait() tests is_empty() under muxQueue, lets go  *)
(* of it, and only then takes muxBlocking and sleeps.  pop_front is not    *)
(* one critical section but two, with a copy through a reference between   *)
(* them.  Producers are the threads that push, Consumers those that wait,  *)
(* test and pop.                                                           *)
(***************************************************************************)
EXTENDS Naturals, Sequences

CONSTANTS
  Producers,
  Consumers,
  NoThread,   \* the holder of a free mutex
  Quota,      \* bound: how many elements each producer pushes
  Ops         \* the operations of tsqueue the embedding program calls

AllOps == {"push_back", "push_front", "pop_front", "pop_back", "clear",
           "wait", "is_empty"}

Threads == Producers \cup Consumers

ASSUME ThreadsAssumption ==
  /\ Producers \cap Consumers = {}
  /\ NoThread \notin Threads
ASSUME QuotaAssumption == Quota \in Nat
ASSUME OpsAssumption == Ops \subseteq AllOps

\* Elements are told apart by who pushed them and when.
Items == Producers \X (1 .. Quota)
Ends == {"front", "back"}
NoRef == <<>>

VARIABLES
  deqQueue,     \* the deque
  muxQueue,     \* the thread holding muxQueue
  muxBlocking,  \* the thread holding muxBlocking
  pc,           \* where each thread is
  ref,          \* what the reference returned by front()/back() designates
  sent,         \* how many elements each producer has pushed
  put,          \* history: all elements pushed, in order
  got,          \* history: all elements returned by pops, in order
  ub            \* an operation with undefined behaviour was executed

vars == <<deqQueue, muxQueue, muxBlocking, pc, ref, sent, put, got, ub>>
locks == <<muxQueue, muxBlocking>>
history == <<sent, put, got>>

ProducerPC == {"idle", "pushing"}
ConsumerPC == {"idle", "waitTest", "waitLock", "waitHold", "asleep", "woken",
               "ready", "ref", "copied"}

TypeOK ==
  /\ deqQueue \in Seq(Items)
  /\ muxQueue \in Producers \cup {NoThread}
  /\ muxBlocking \in Consumers \cup {NoThread}
  /\ pc \in [Threads -> ProducerPC \cup ConsumerPC]
  /\ \A p \in Producers : pc[p] \in ProducerPC
  /\ \A c \in Consumers : pc[c] \in ConsumerPC
  /\ ref \in [Consumers -> (Ends \X Items) \cup {NoRef}]
  /\ sent \in [Producers -> 0 .. Quota]
  /\ put \in Seq(Items)
  /\ got \in Seq(Items)
  /\ ub \in BOOLEAN

Init ==
  /\ deqQueue = <<>>
  /\ muxQueue = NoThread
  /\ muxBlocking = NoThread
  /\ pc = [t \in Threads |-> "idle"]
  /\ ref = [c \in Consumers |-> NoRef]
  /\ sent = [p \in Producers |-> 0]
  /\ put = <<>>
  /\ got = <<>>
  /\ ub = FALSE

Goto(t, label) == pc' = [pc EXCEPT ![t] = label]

\* What is executed after an undefined operation means nothing: runs end there.
UndefinedBehaviour ==
  /\ ub' = TRUE
  /\ UNCHANGED <<deqQueue, muxQueue, muxBlocking, pc, ref, history>>

-----------------------------------------------------------------------------
(***************************************************************************)
(* push_back and push_front: insert under muxQueue, and keep it until      *)
(* muxBlocking has been taken and one sleeper notified.                    *)
(***************************************************************************)
PushInsert(p, e) ==
  /\ pc[p] = "idle"
  /\ sent[p] < Quota
  /\ muxQueue = NoThread
  /\ muxQueue' = p
  /\ LET x == <<p, sent[p] + 1>>
     IN  /\ deqQueue' = IF e = "back" THEN Append(deqQueue, x)
                                      ELSE <<x>> \o deqQueue
         /\ put' = Append(put, x)
  /\ sent' = [sent EXCEPT ![p] = @ + 1]
  /\ Goto(p, "pushing")
  /\ UNCHANGED <<muxBlocking, ref, got, ub>>

PushBack(p) == "push_back" \in Ops /\ PushInsert(p, "back")
PushFront(p) == "push_front" \in Ops /\ PushInsert(p, "front")

Sleepers == {c \in Consumers : pc[c] = "asleep"}

\* notify_one wakes one sleeper, any of them; with none asleep it has no effect.
NotifyOne(p) ==
  \/ /\ Sleepers = {}
     /\ Goto(p, "idle")
  \/ \E c \in Sleepers :
       pc' = [pc EXCEPT ![p] = "idle", ![c] = "woken"]

\* Mutated form: the push returns without notifying.
NotifyNobody(p) ==
  /\ pc[p] = "pushing"
  /\ muxBlocking = NoThread
  /\ Goto(p, "idle")
  /\ muxQueue' = NoThread
  /\ UNCHANGED <<deqQueue, muxBlocking, ref, history, ub>>

PushNotify(p) ==
  /\ pc[p] = "pushing"
  /\ muxBlocking = NoThread
  /\ NotifyOne(p)
  /\ muxQueue' = NoThread
  /\ UNCHANGED <<deqQueue, muxBlocking, ref, history, ub>>

-----------------------------------------------------------------------------
(***************************************************************************)
(* is_empty(), and wait(): while(is_empty()) { lock muxBlocking; sleep }.  *)
(* An is_empty() is one critical section, so it is one step that needs     *)
(* muxQueue to be free.                                                    *)
(***************************************************************************)
Poll(c) ==
  /\ "is_empty" \in Ops
  /\ pc[c] \in {"idle", "ready"}
  /\ muxQueue = NoThread
  /\ Goto(c, IF deqQueue = <<>> THEN "idle" ELSE "ready")
  /\ UNCHANGED <<deqQueue, locks, ref, history, ub>>

WaitCall(c) ==
  /\ "wait" \in Ops
  /\ pc[c] = "idle"
  /\ Goto(c, "waitTest")
  /\ UNCHANGED <<deqQueue, locks, ref, history, ub>>

WaitTest(c) ==
  /\ pc[c] = "waitTest"
  /\ muxQueue = NoThread
  /\ Goto(c, IF deqQueue = <<>> THEN "waitLock" ELSE "ready")
  /\ UNCHANGED <<deqQueue, locks, ref, history, ub>>

\* Mutated form: the wait locks the wrong mutex.
WaitLockQueue(c) ==
  /\ pc[c] = "waitLock"
  /\ muxQueue = NoThread
  /\ muxQueue' = c
  /\ Goto(c, "waitHold")
  /\ UNCHANGED <<deqQueue, muxBlocking, ref, history, ub>>

WaitLock(c) ==
  /\ pc[c] = "waitLock"
  /\ muxBlocking = NoThread
  /\ muxBlocking' = c
  /\ Goto(c, "waitHold")
  /\ UNCHANGED <<deqQueue, muxQueue, ref, history, ub>>

\* cvBlocking.wait(ul) releases muxBlocking and sleeps in one step.
WaitSleep(c) ==
  /\ pc[c] = "waitHold"
  /\ muxBlocking' = NoThread
  /\ Goto(c, "asleep")
  /\ UNCHANGED <<deqQueue, muxQueue, ref, history, ub>>

SpuriousWakeup(c) ==
  /\ pc[c] = "asleep"
  /\ Goto(c, "woken")
  /\ UNCHANGED <<deqQueue, locks, ref, history, ub>>

\* Mutated form: a woken thread trusts the wakeup (if instead of while).
WaitOnce(c) ==
  /\ pc[c] = "woken"
  /\ muxBlocking = NoThread
  /\ Goto(c, "ready")
  /\ UNCHANGED <<deqQueue, locks, ref, history, ub>>

\* The woken thread takes muxBlocking back, drops it and tests again.
WaitAgain(c) ==
  /\ pc[c] = "woken"
  /\ muxBlocking = NoThread
  /\ Goto(c, "waitTest")
  /\ UNCHANGED <<deqQueue, locks, ref, history, ub>>

\* Mutated form: wait() takes muxBlocking before it tests, which closes the
\* window between the test and the sleep and inverts the lock order of push.
WaitUnderBlocking(c) ==
  \/ /\ "wait" \in Ops
     /\ pc[c] \in {"idle", "woken"}
     /\ muxBlocking = NoThread
     /\ muxBlocking' = c
     /\ Goto(c, "waitTest")
     /\ UNCHANGED <<deqQueue, muxQueue, ref, history, ub>>
  \/ /\ pc[c] = "waitTest"
     /\ muxQueue = NoThread
     /\ muxBlocking' = NoThread
     /\ Goto(c, IF deqQueue = <<>> THEN "asleep" ELSE "ready")
     /\ UNCHANGED <<deqQueue, muxQueue, ref, history, ub>>

Wait(c) == WaitCall(c) \/ WaitTest(c) \/ WaitLock(c) \/ WaitSleep(c) \/ WaitAgain(c)

-----------------------------------------------------------------------------
(***************************************************************************)
(* pop_front and pop_back: front() returns a reference taken under         *)
(* muxQueue; the element is copied through it after the lock is gone;      *)
(* muxQueue is taken a second time to remove whatever is at that end by    *)
(* then.  Callers test for emptiness first ("ready").                      *)
(***************************************************************************)
At(e, s) == IF e = "front" THEN Head(s) ELSE s[Len(s)]
Without(e, s) == IF e = "front" THEN Tail(s) ELSE SubSeq(s, 1, Len(s) - 1)

PopRef(c, e) ==
  /\ pc[c] = "ready"
  /\ muxQueue = NoThread
  /\ IF deqQueue = <<>>
       THEN UndefinedBehaviour
       ELSE /\ ref' = [ref EXCEPT ![c] = <<e, At(e, deqQueue)>>]
            /\ Goto(c, "ref")
            /\ UNCHANGED <<deqQueue, locks, history, ub>>

PopFront(c) == "pop_front" \in Ops /\ PopRef(c, "front")
PopBack(c) == "pop_back" \in Ops /\ PopRef(c, "back")

\* The copy reads the element through the reference: it must still be there.
PopCopy(c) ==
  /\ pc[c] = "ref"
  /\ IF \A i \in 1 .. Len(deqQueue) : deqQueue[i] # ref[c][2]
       THEN UndefinedBehaviour
       ELSE /\ Goto(c, "copied")
            /\ UNCHANGED <<deqQueue, locks, ref, history, ub>>

\* Mutated form: pop_front removes at the wrong end.
PopEraseOtherEnd(c) ==
  /\ pc[c] = "copied"
  /\ muxQueue = NoThread
  /\ deqQueue # <<>>
  /\ deqQueue' = Without("back", deqQueue)
  /\ got' = Append(got, ref[c][2])
  /\ ref' = [ref EXCEPT ![c] = NoRef]
  /\ Goto(c, "idle")
  /\ UNCHANGED <<locks, sent, put, ub>>

PopErase(c) ==
  /\ pc[c] = "copied"
  /\ muxQueue = NoThread
  /\ IF deqQueue = <<>>
       THEN UndefinedBehaviour
       ELSE /\ deqQueue' = Without(ref[c][1], deqQueue)
            /\ got' = Append(got, ref[c][2])
            /\ ref' = [ref EXCEPT ![c] = NoRef]
            /\ Goto(c, "idle")
            /\ UNCHANGED <<locks, sent, put, ub>>

\* clear(), which only the destructor calls.
Clear(c) ==
  /\ "clear" \in Ops
  /\ pc[c] = "idle"
  /\ muxQueue = NoThread
  /\ deqQueue' = <<>>
  /\ UNCHANGED <<locks, pc, ref, history, ub>>

-----------------------------------------------------------------------------
Pop(c) == PopFront(c) \/ PopBack(c) \/ PopCopy(c) \/ PopErase(c)

ProducerNext(p) == PushBack(p) \/ PushFront(p) \/ PushNotify(p)
ConsumerNext(c) == Poll(c) \/ Wait(c) \/ Pop(c) \/ SpuriousWakeup(c) \/ Clear(c)

Next ==
  /\ ~ub
  /\ \/ \E p \in Producers : ProducerNext(p)
     \/ \E c \in Consumers : ConsumerNext(c)

Spec == Init /\ [][Next]_vars

(***************************************************************************)
(* A push that has begun finishes, and a consumer keeps calling (the loops *)
(* of ServerInterface::Update and of the clients).  Nobody has to push,    *)
(* and spurious wakeups may never happen.                                  *)
(***************************************************************************)
Fairness ==
  /\ \A p \in Producers : WF_vars(~ub /\ PushNotify(p))
  /\ \A c \in Consumers : WF_vars(~ub /\ (Poll(c) \/ Wait(c) \/ Pop(c)))

FairSpec == Spec /\ Fairness

-----------------------------------------------------------------------------
(***************************************************************************)
(* No operation the program performs on the deque is undefined: front() is *)
(* never called on an empty deque, the copy never reads a removed element, *)
(* the second half of a pop finds something to remove.  It rests on the    *)
(* caller's earlier emptiness test still being true two locks later.       *)
(***************************************************************************)
NoUndefinedBehaviour == ~ub

(***************************************************************************)
(* The queue with its split pop behaves like an atomic FIFO queue: each    *)
(* pop takes effect when it erases, and returns the element it erases      *)
(* although it copied that element under an earlier lock.                  *)
(***************************************************************************)
Q == INSTANCE FIFOQueue WITH items <- deqQueue
ImplementsFIFO == Q!Spec

(***************************************************************************)
(* A push never blocks for ever, although it asks for muxBlocking while it *)
(* holds muxQueue: no waiter sits on muxBlocking wanting muxQueue.         *)
(***************************************************************************)
PushReturns == \A p \in Producers : pc[p] = "pushing" ~> (pc[p] = "idle" \/ ub)

(***************************************************************************)
(* A push that finds the only consumer asleep gets it out of wait() with   *)
(* an element to pop.                                                      *)
(***************************************************************************)
PushWakesSleeper ==
  \A p \in Producers, c \in Consumers :
    (pc[p] = "pushing" /\ pc[c] = "asleep") ~> pc[c] = "ready"

\* The elements of a sequence.
Elements(s) == {s[i] : i \in 1 .. Len(s)}

(***************************************************************************)
(* An element in the queue is eventually popped: the wait() of the         *)
(* consumer returns when there is something to return for.                 *)
(***************************************************************************)
EveryElementTaken ==
  \A x \in Items : (x \in Elements(deqQueue)) ~> (x \in Elements(got))
=============================================================================
