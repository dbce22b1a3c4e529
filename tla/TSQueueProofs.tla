--------------------------- MODULE TSQueueProofs ---------------------------
(***************************************************************************)
(* Theorems about TSQueue, for any set of producers, any quota and, where  *)
(* the theorem does not say otherwise, any consumers and operations.       *)
(***************************************************************************)
EXTENDS TSQueue, SequenceTheorems, TLAPS

-----------------------------------------------------------------------------
(* Both ends of a nonempty deque hold items, and a pop leaves items. *)
LEMMA AtType ==
  ASSUME NEW e \in Ends, NEW s \in Seq(Items), s # <<>>
  PROVE  At(e, s) \in Items
BY DEF At, Ends

LEMMA WithoutType ==
  ASSUME NEW e \in Ends, NEW s \in Seq(Items), s # <<>>
  PROVE  Without(e, s) \in Seq(Items)
<1>1. CASE e = "front"
  BY <1>1 DEF Without
<1>2. CASE e = "back"
  <2>1. Len(s) - 1 \in 0 .. Len(s)
    BY EmptySeq, LenProperties
  <2>2. \A i \in 1 .. Len(s) - 1 : s[i] \in Items
    OBVIOUS
  <2>3. SubSeq(s, 1, Len(s) - 1) \in Seq(Items)
    BY <2>1, <2>2, SubSeqProperties
  <2> QED BY <1>2, <2>3 DEF Without
<1> QED BY <1>1, <1>2 DEF Ends

-----------------------------------------------------------------------------
(***************************************************************************)
(* Type correctness.  TypeOK alone is not inductive: the erasing half of a *)
(* pop hands out ref[c][2], so it must be known that a consumer between    *)
(* the two halves has a reference.                                         *)
(***************************************************************************)
RefOK == \A c \in Consumers : pc[c] \in {"ref", "copied"} => ref[c] \in Ends \X Items

TypeInv == TypeOK /\ RefOK

LEMMA TypeInit == Init => TypeInv
<1> SUFFICES ASSUME Init PROVE TypeInv
  OBVIOUS
<1>1. deqQueue \in Seq(Items) /\ put \in Seq(Items) /\ got \in Seq(Items)
  BY DEF Init
<1>2. ref \in [Consumers -> (Ends \X Items) \cup {NoRef}]
  BY DEF Init
<1>3. sent \in [Producers -> 0 .. Quota]
  BY QuotaAssumption DEF Init
<1>4. pc \in [Threads -> ProducerPC \cup ConsumerPC]
  BY DEF Init, ProducerPC, ConsumerPC
<1>5. TypeOK
  BY <1>1, <1>2, <1>3, <1>4 DEF TypeOK, Init, Threads, ProducerPC, ConsumerPC
<1>6. RefOK
  BY DEF Init, RefOK, Threads
<1> QED BY <1>5, <1>6 DEF TypeInv

LEMMA PushInsertType ==
  ASSUME TypeInv, NEW p \in Producers, NEW e \in Ends, PushInsert(p, e)
  PROVE  TypeInv'
<1> DEFINE x == <<p, sent[p] + 1>>
<1>1. x \in Items
  BY QuotaAssumption DEF TypeInv, TypeOK, PushInsert, Items
<1>2. deqQueue' \in Seq(Items) /\ put' \in Seq(Items)
  BY <1>1 DEF TypeInv, TypeOK, PushInsert
<1>3. sent' \in [Producers -> 0 .. Quota]
  BY QuotaAssumption DEF TypeInv, TypeOK, PushInsert
<1>4. TypeOK'
  BY <1>2, <1>3, ThreadsAssumption
  DEF TypeInv, TypeOK, PushInsert, Goto, Threads, ProducerPC, ConsumerPC
<1>5. RefOK'
  BY ThreadsAssumption DEF TypeInv, TypeOK, RefOK, PushInsert, Goto, Threads
<1> QED BY <1>4, <1>5 DEF TypeInv

LEMMA PushNotifyType ==
  ASSUME TypeInv, NEW p \in Producers, PushNotify(p)
  PROVE  TypeInv'
<1>1. /\ muxQueue' = NoThread
      /\ UNCHANGED <<deqQueue, muxBlocking, ref, history, ub>>
  BY DEF PushNotify
<1>2. \/ pc' = [pc EXCEPT ![p] = "idle"]
      \/ \E c \in Consumers : pc' = [pc EXCEPT ![p] = "idle", ![c] = "woken"]
  BY DEF PushNotify, NotifyOne, Sleepers, Goto
<1>3. /\ pc' \in [Threads -> ProducerPC \cup ConsumerPC]
      /\ \A q \in Producers : pc'[q] \in ProducerPC
      /\ \A c \in Consumers : pc'[c] \in ConsumerPC /\ pc'[c] \in {pc[c], "woken"}
  <2>1. /\ pc \in [Threads -> ProducerPC \cup ConsumerPC]
        /\ \A q \in Producers : q \in Threads /\ pc[q] \in ProducerPC /\ q \notin Consumers
        /\ \A c \in Consumers : c \in Threads /\ pc[c] \in ConsumerPC
        /\ "idle" \in ProducerPC /\ "woken" \in ConsumerPC
    BY ThreadsAssumption DEF TypeInv, TypeOK, Threads, ProducerPC, ConsumerPC
  <2>2. CASE pc' = [pc EXCEPT ![p] = "idle"]
    BY <2>1, <2>2
  <2>3. ASSUME NEW c \in Consumers, pc' = [pc EXCEPT ![p] = "idle", ![c] = "woken"]
        PROVE  /\ pc' \in [Threads -> ProducerPC \cup ConsumerPC]
               /\ \A q \in Producers : pc'[q] \in ProducerPC
               /\ \A d \in Consumers : pc'[d] \in ConsumerPC /\ pc'[d] \in {pc[d], "woken"}
    BY <2>1, <2>3
  <2> QED BY <1>2, <2>2, <2>3
<1>4. TypeOK'
  BY <1>1, <1>3 DEF TypeInv, TypeOK, history
<1>5. RefOK'
  BY <1>1, <1>3 DEF TypeInv, RefOK
<1> QED BY <1>4, <1>5 DEF TypeInv

LEMMA WaitType ==
  ASSUME TypeInv, NEW c \in Consumers,
         Poll(c) \/ Wait(c) \/ SpuriousWakeup(c)
  PROVE  TypeInv'
<1>1. PICK label \in ConsumerPC \ {"ref", "copied"} : Goto(c, label)
  BY DEF Poll, Wait, WaitCall, WaitTest, WaitLock, WaitSleep, WaitAgain,
         SpuriousWakeup, ConsumerPC
<1>2. /\ UNCHANGED <<deqQueue, muxQueue, ref, history, ub>>
      /\ muxBlocking' \in {muxBlocking, NoThread, c}
  BY DEF Poll, Wait, WaitCall, WaitTest, WaitLock, WaitSleep, WaitAgain,
         SpuriousWakeup, locks
<1>3. pc' = [pc EXCEPT ![c] = label]
  BY <1>1 DEF Goto
<1>4. TypeOK'
  BY <1>2, <1>3, ThreadsAssumption DEF TypeInv, TypeOK, Threads, history
<1>5. RefOK'
  BY <1>2, <1>3, ThreadsAssumption DEF TypeInv, TypeOK, RefOK, Threads
<1> QED BY <1>4, <1>5 DEF TypeInv

LEMMA PopType ==
  ASSUME TypeInv, NEW c \in Consumers, Pop(c)
  PROVE  TypeInv'
<1> USE DEF TypeInv
<1>1. ASSUME NEW e \in Ends, PopRef(c, e) PROVE TypeInv'
  <2>1. CASE deqQueue = <<>>
    BY <1>1, <2>1 DEF PopRef, UndefinedBehaviour, TypeOK, RefOK, history
  <2>2. CASE deqQueue # <<>>
    <3>1. At(e, deqQueue) \in Items
      BY <2>2, AtType DEF TypeOK
    <3>2. /\ ref' = [ref EXCEPT ![c] = <<e, At(e, deqQueue)>>]
          /\ pc' = [pc EXCEPT ![c] = "ref"]
          /\ UNCHANGED <<deqQueue, locks, history, ub>>
      BY <1>1, <2>2 DEF PopRef, Goto
    <3>3. <<e, At(e, deqQueue)>> \in Ends \X Items
      BY <3>1
    <3>4. ref' \in [Consumers -> (Ends \X Items) \cup {NoRef}]
      BY <3>2, <3>3 DEF TypeOK
    <3>5. TypeOK'
      BY <3>2, <3>4, ThreadsAssumption
      DEF TypeOK, Threads, ProducerPC, ConsumerPC, locks, history
    <3>6. RefOK'
      BY <3>2, <3>3, ThreadsAssumption DEF TypeOK, RefOK, Threads
    <3> QED BY <3>5, <3>6
  <2> QED BY <2>1, <2>2
<1>2. CASE PopFront(c)
  BY <1>1, <1>2 DEF PopFront, Ends
<1>3. CASE PopBack(c)
  BY <1>1, <1>3 DEF PopBack, Ends
<1>4. CASE PopCopy(c)
  <2>1. CASE UndefinedBehaviour
    BY <2>1 DEF UndefinedBehaviour, TypeOK, RefOK, history
  <2>2. CASE ~UndefinedBehaviour
    <3>1. /\ pc[c] = "ref" /\ pc' = [pc EXCEPT ![c] = "copied"]
          /\ UNCHANGED <<deqQueue, locks, ref, history, ub>>
      BY <1>4, <2>2 DEF PopCopy, Goto
    <3>2. /\ pc' \in [Threads -> ProducerPC \cup ConsumerPC]
          /\ \A p \in Producers : pc'[p] \in ProducerPC
          /\ \A d \in Consumers : pc'[d] \in ConsumerPC /\ (d # c => pc'[d] = pc[d])
      BY <3>1, ThreadsAssumption DEF TypeOK, Threads, ProducerPC, ConsumerPC
    <3>3. TypeOK'
      BY <3>1, <3>2 DEF TypeOK, locks, history
    <3>4. RefOK'
      BY <3>1, <3>2 DEF RefOK
    <3> QED BY <3>3, <3>4
  <2> QED BY <2>1, <2>2
<1>5. CASE PopErase(c)
  <2>1. CASE deqQueue = <<>>
    BY <1>5, <2>1 DEF PopErase, UndefinedBehaviour, TypeOK, RefOK, history
  <2>2. CASE deqQueue # <<>>
    <3>1. ref[c] \in Ends \X Items
      BY <1>5 DEF PopErase, RefOK
    <3>2. Without(ref[c][1], deqQueue) \in Seq(Items)
      BY <2>2, <3>1, WithoutType DEF TypeOK
    <3>3. Append(got, ref[c][2]) \in Seq(Items)
      BY <3>1 DEF TypeOK
    <3>4. /\ deqQueue' = Without(ref[c][1], deqQueue)
          /\ got' = Append(got, ref[c][2])
          /\ ref' = [ref EXCEPT ![c] = NoRef]
          /\ pc' = [pc EXCEPT ![c] = "idle"]
          /\ UNCHANGED <<locks, sent, put, ub>>
      BY <1>5, <2>2 DEF PopErase, Goto
    <3>5. ref' \in [Consumers -> (Ends \X Items) \cup {NoRef}]
      BY <3>4 DEF TypeOK
    <3>6. TypeOK'
      BY <3>2, <3>3, <3>4, <3>5, ThreadsAssumption
      DEF TypeOK, Threads, ProducerPC, ConsumerPC, locks
    <3>7. RefOK'
      BY <3>4, ThreadsAssumption DEF TypeOK, RefOK, Threads
    <3> QED BY <3>6, <3>7
  <2> QED BY <2>1, <2>2
<1> QED BY <1>2, <1>3, <1>4, <1>5 DEF Pop

LEMMA TypeNext == TypeInv /\ [Next]_vars => TypeInv'
<1> SUFFICES ASSUME TypeInv, [Next]_vars PROVE TypeInv'
  OBVIOUS
<1>1. CASE UNCHANGED vars
  BY <1>1 DEF vars, TypeInv, TypeOK, RefOK
<1>2. ASSUME NEW p \in Producers, ProducerNext(p) PROVE TypeInv'
  BY <1>2, PushInsertType, PushNotifyType DEF ProducerNext, PushBack, PushFront, Ends
<1>3. ASSUME NEW c \in Consumers, ConsumerNext(c) PROVE TypeInv'
  <2>1. CASE Clear(c)
    BY <1>3, <2>1 DEF Clear, TypeInv, TypeOK, RefOK, locks, history
  <2> QED BY <1>3, <2>1, WaitType, PopType DEF ConsumerNext
<1> QED BY <1>1, <1>2, <1>3 DEF Next

(***************************************************************************)
(* Every state of the queue is well typed, whatever operations its users   *)
(* call and however many they are.                                         *)
(***************************************************************************)
THEOREM TypeCorrect == Spec => []TypeOK
<1>1. TypeInv => TypeOK
  BY DEF TypeInv
<1> QED BY <1>1, TypeInit, TypeNext, PTL DEF Spec
-----------------------------------------------------------------------------
(***************************************************************************)
(* The library's discipline: one thread tests, waits and pops at the front *)
(* (the caller of Update, or the client application), any number push.     *)
(***************************************************************************)
FrontOps == {"push_back", "pop_front", "wait", "is_empty"}

SingleConsumer == (\E c : Consumers = {c}) /\ Ops \subseteq FrontOps

(***************************************************************************)
(* The inductive invariant.  A consumer that has seen the deque nonempty   *)
(* can rely on it until it pops, for nobody else removes elements; and     *)
(* between the two halves of its pop the front is the element its          *)
(* reference designates, for pushes append at the other end.               *)
(***************************************************************************)
ReadyOK == \A c \in Consumers : pc[c] \in {"ready", "ref", "copied"} => deqQueue # <<>>
FrontRef ==
  \A c \in Consumers : pc[c] \in {"ref", "copied"} => ref[c] = <<"front", Head(deqQueue)>>

QueueInv == TypeInv /\ ReadyOK /\ FrontRef /\ NoUndefinedBehaviour /\ Q!FIFO

LEMMA QueueInit == Init => QueueInv
<1> SUFFICES ASSUME Init PROVE QueueInv
  OBVIOUS
<1>1. TypeInv
  BY TypeInit
<1>2. ReadyOK /\ FrontRef
  BY DEF Init, ReadyOK, FrontRef, Threads
<1>3. Q!FIFO
  BY DEF Init, Q!FIFO
<1> QED BY <1>1, <1>2, <1>3 DEF QueueInv, Init, NoUndefinedBehaviour

(* Appending keeps the front of a nonempty deque. *)
LEMMA HeadAppend ==
  ASSUME NEW s \in Seq(Items), s # <<>>, NEW x \in Items
  PROVE  Append(s, x) # <<>> /\ Head(Append(s, x)) = Head(s)
OBVIOUS

(* A push at the back is one step of the abstract queue. *)
LEMMA PushPuts ==
  ASSUME QueueInv, SingleConsumer, NEW p \in Producers, ProducerNext(p),
         ~PushNotify(p)
  PROVE  PushInsert(p, "back") /\ \E x \in Items : Q!Put(x)
<1>1. PushInsert(p, "back")
  BY DEF SingleConsumer, FrontOps, ProducerNext, PushBack, PushFront
<1>2. <<p, sent[p] + 1>> \in Items
  BY <1>1, QuotaAssumption DEF QueueInv, TypeInv, TypeOK, PushInsert, Items
<1>3. Q!Put(<<p, sent[p] + 1>>)
  BY <1>1 DEF PushInsert, Q!Put
<1> QED BY <1>1, <1>2, <1>3

(* The erasing half of a pop is one step of the abstract queue. *)
LEMMA EraseTakes ==
  ASSUME QueueInv, NEW c \in Consumers, PopErase(c)
  PROVE  Q!Take
<1>1. deqQueue # <<>> /\ ref[c] = <<"front", Head(deqQueue)>>
  BY DEF QueueInv, ReadyOK, FrontRef, PopErase
<1> QED BY <1>1 DEF PopErase, Without, Q!Take

(* Everything else a single consumer does leaves the abstract queue alone. *)
LEMMA OthersStutter ==
  ASSUME QueueInv, SingleConsumer, NEW c \in Consumers, ConsumerNext(c),
         ~PopErase(c)
  PROVE  UNCHANGED <<deqQueue, put, got>>
BY DEF SingleConsumer, FrontOps, ConsumerNext, Poll, Wait, WaitCall, WaitTest,
       WaitLock, WaitSleep, WaitAgain, SpuriousWakeup, Clear, Pop, PopFront,
       PopBack, PopRef, PopCopy, UndefinedBehaviour, history

(* A consumer not erasing keeps its knowledge of the front. *)
LEMMA ConsumerKeeps ==
  ASSUME QueueInv, SingleConsumer, NEW c \in Consumers, ConsumerNext(c), ~PopErase(c),
         UNCHANGED <<deqQueue, put, got>>
  PROVE  ReadyOK' /\ FrontRef' /\ NoUndefinedBehaviour'
<1>1. Consumers = {c} /\ c \in Threads
  BY DEF SingleConsumer, Threads
<1>2. /\ deqQueue \in Seq(Items) /\ pc \in [Threads -> ProducerPC \cup ConsumerPC]
      /\ ref \in [Consumers -> (Ends \X Items) \cup {NoRef}]
      /\ ~ub
      /\ pc[c] \in {"ready", "ref", "copied"} => deqQueue # <<>>
      /\ pc[c] \in {"ref", "copied"} => ref[c] = <<"front", Head(deqQueue)>>
  BY DEF QueueInv, TypeInv, TypeOK, ReadyOK, FrontRef, NoUndefinedBehaviour
<1> SUFFICES /\ ~ub'
             /\ pc'[c] \in {"ready", "ref", "copied"} => deqQueue # <<>>
             /\ pc'[c] \in {"ref", "copied"} => ref'[c] = <<"front", Head(deqQueue)>>
  BY <1>1 DEF ReadyOK, FrontRef, NoUndefinedBehaviour
<1>3. CASE Poll(c)
  BY <1>1, <1>2, <1>3 DEF Poll, Goto
<1>4. CASE Wait(c) \/ SpuriousWakeup(c)
  BY <1>1, <1>2, <1>4
  DEF Wait, WaitCall, WaitTest, WaitLock, WaitSleep, WaitAgain, SpuriousWakeup, Goto
<1>5. CASE PopFront(c)
  <2>1. deqQueue # <<>>
    BY <1>2, <1>5 DEF PopFront, PopRef
  <2>2. ref' = [ref EXCEPT ![c] = <<"front", Head(deqQueue)>>] /\ UNCHANGED ub
    BY <1>5, <2>1 DEF PopFront, PopRef, At
  <2> QED BY <1>1, <1>2, <2>1, <2>2
<1>6. CASE PopCopy(c)
  <2>1. ref[c] = <<"front", Head(deqQueue)>> /\ deqQueue # <<>>
    BY <1>2, <1>6 DEF PopCopy
  <2>2. Len(deqQueue) \in Nat \ {0} /\ Head(deqQueue) = deqQueue[1]
    BY <1>2, <2>1, EmptySeq
  <2>3. \E i \in 1 .. Len(deqQueue) : deqQueue[i] = ref[c][2]
    BY <2>1, <2>2
  <2>4. UNCHANGED <<ref, ub>>
    BY <1>6, <2>3 DEF PopCopy
  <2> QED BY <1>2, <2>1, <2>4
<1> QED
  BY <1>3, <1>4, <1>5, <1>6 DEF SingleConsumer, FrontOps, ConsumerNext, Pop, PopBack, Clear

(* A step of the abstract queue keeps its history consistent. *)
LEMMA FIFOPreserved ==
  ASSUME TypeInv, Q!FIFO, Q!Take \/ \E x \in Items : Q!Put(x)
  PROVE  Q!FIFO'
<1>1. /\ got \in Seq(Items) /\ deqQueue \in Seq(Items) /\ put \in Seq(Items)
      /\ got \o deqQueue = put
  BY DEF TypeInv, TypeOK, Q!FIFO
<1>2. ASSUME NEW x \in Items, Q!Put(x) PROVE got' \o deqQueue' = put'
  <2>1. <<x>> \in Seq(Items) /\ Append(deqQueue, x) = deqQueue \o <<x>>
    BY <1>1, AppendIsConcat
  <2>2. (got \o deqQueue) \o <<x>> = got \o (deqQueue \o <<x>>)
    BY <1>1, <2>1, ConcatAssociative
  <2>3. Append(put, x) = put \o <<x>>
    BY <1>1, AppendIsConcat
  <2> QED BY <1>1, <1>2, <2>1, <2>2, <2>3 DEF Q!Put
<1>3. ASSUME Q!Take PROVE got' \o deqQueue' = put'
  <2> DEFINE h == Head(deqQueue)
  <2>1. h \in Items /\ Tail(deqQueue) \in Seq(Items)
    BY <1>1, <1>3, HeadTailProperties DEF Q!Take
  <2>2. <<h>> \in Seq(Items) /\ deqQueue = <<h>> \o Tail(deqQueue)
    BY <1>1, <1>3, <2>1 DEF Q!Take
  <2>3. Append(got, h) = got \o <<h>>
    BY <1>1, <2>1, AppendIsConcat
  <2>4. (got \o <<h>>) \o Tail(deqQueue) = got \o (<<h>> \o Tail(deqQueue))
    BY <1>1, <2>1, <2>2, ConcatAssociative
  <2> QED BY <1>1, <1>3, <2>2, <2>3, <2>4 DEF Q!Take
<1> QED BY <1>2, <1>3 DEF Q!FIFO

LEMMA QueueNext ==
  ASSUME SingleConsumer, QueueInv, [Next]_vars
  PROVE  QueueInv' /\ [Q!Next]_<<deqQueue, put, got>>
<1>1. TypeInv'
  BY TypeNext DEF QueueInv
<1>2. CASE UNCHANGED vars
  BY <1>1, <1>2 DEF vars, QueueInv, ReadyOK, FrontRef, NoUndefinedBehaviour, Q!FIFO
<1>3. ASSUME NEW p \in Producers, ProducerNext(p)
      PROVE  QueueInv' /\ [Q!Next]_<<deqQueue, put, got>>
  <2>1. CASE PushNotify(p)
    <3>1. UNCHANGED <<deqQueue, put, got, ref, ub>>
      BY <2>1 DEF PushNotify, history
    <3>2. \A c \in Consumers : pc'[c] \in {"ready", "ref", "copied"} => pc'[c] = pc[c]
      BY <2>1, ThreadsAssumption
      DEF PushNotify, NotifyOne, Sleepers, Goto, QueueInv, TypeInv, TypeOK, Threads
    <3> QED
      BY <1>1, <3>1, <3>2 DEF QueueInv, ReadyOK, FrontRef, NoUndefinedBehaviour, Q!FIFO
  <2>2. CASE ~PushNotify(p)
    <3>1. PushInsert(p, "back") /\ \E x \in Items : Q!Put(x)
      BY <1>3, <2>2, PushPuts
    <3>2. /\ UNCHANGED <<ref, ub>>
          /\ \A c \in Consumers : pc'[c] = pc[c]
          /\ \E x \in Items : deqQueue' = Append(deqQueue, x)
      BY <3>1, ThreadsAssumption
      DEF PushInsert, Goto, QueueInv, TypeInv, TypeOK, Threads, Q!Put
    <3>3. ReadyOK' /\ FrontRef'
      BY <3>2, HeadAppend DEF QueueInv, TypeInv, TypeOK, ReadyOK, FrontRef
    <3>4. Q!FIFO'
      BY <3>1, FIFOPreserved DEF QueueInv
    <3>5. QueueInv'
      BY <1>1, <3>2, <3>3, <3>4 DEF QueueInv, NoUndefinedBehaviour
    <3> QED BY <3>1, <3>5 DEF Q!Next
  <2> QED BY <2>1, <2>2
<1>4. ASSUME NEW c \in Consumers, ConsumerNext(c)
      PROVE  QueueInv' /\ [Q!Next]_<<deqQueue, put, got>>
  <2>1. Consumers = {c}
    BY DEF SingleConsumer
  <2>2. CASE PopErase(c)
    <3>1. Q!Take
      BY <2>2, EraseTakes
    <3>2. pc'[c] = "idle" /\ UNCHANGED ub
      BY <2>2, <3>1 DEF PopErase, Goto, Q!Take, QueueInv, TypeInv, TypeOK, Threads
    <3>3. Q!FIFO'
      BY <3>1, FIFOPreserved DEF QueueInv
    <3> QED
      BY <1>1, <2>1, <3>1, <3>2, <3>3
      DEF QueueInv, ReadyOK, FrontRef, NoUndefinedBehaviour, Q!Next
  <2>3. CASE ~PopErase(c)
    <3>1. UNCHANGED <<deqQueue, put, got>>
      BY <1>4, <2>3, OthersStutter
    <3>2. ReadyOK' /\ FrontRef' /\ NoUndefinedBehaviour'
      BY <1>4, <2>1, <2>3, <3>1, ConsumerKeeps
    <3> QED BY <1>1, <3>1, <3>2 DEF QueueInv, Q!FIFO
  <2> QED BY <2>2, <2>3
<1> QED BY <1>2, <1>3, <1>4 DEF Next

(***************************************************************************)
(* With one consumer that pops at the front, no operation on the deque is  *)
(* ever undefined: the references and emptiness tests of the unlocked      *)
(* stretches stay good, for any number of producers.                       *)
(***************************************************************************)
THEOREM NeverUndefined ==
  ASSUME SingleConsumer
  PROVE  Spec => []NoUndefinedBehaviour
<1>1. QueueInv => NoUndefinedBehaviour
  BY DEF QueueInv
<1>2. QueueInv /\ [Next]_vars => QueueInv'
  BY QueueNext
<1> QED BY <1>1, <1>2, QueueInit, PTL DEF Spec

(***************************************************************************)
(* Under the same discipline the queue with two mutexes and a pop in two   *)
(* halves implements the atomic FIFO queue.                                *)
(***************************************************************************)
THEOREM ImplementsAtomicQueue ==
  ASSUME SingleConsumer
  PROVE  Spec => ImplementsFIFO
<1>1. Init => Q!Init
  BY DEF Init, Q!Init
<1>2. QueueInv /\ [Next]_vars => QueueInv'
  BY QueueNext
<1>3. QueueInv /\ [Next]_vars => [Q!Next]_<<deqQueue, put, got>>
  BY QueueNext
<1> QED
  BY <1>1, <1>2, <1>3, QueueInit, PTL DEF Spec, ImplementsFIFO, Q!Spec, Q!vars

(***************************************************************************)
(* What pops have returned, followed by what is queued, is what was        *)
(* pushed: nothing lost, nothing twice, nothing out of order.              *)
(***************************************************************************)
THEOREM FirstInFirstOut ==
  ASSUME SingleConsumer
  PROVE  Spec => []Q!FIFO
<1>1. QueueInv => Q!FIFO
  BY DEF QueueInv
<1>2. QueueInv /\ [Next]_vars => QueueInv'
  BY QueueNext
<1> QED BY <1>1, <1>2, QueueInit, PTL DEF Spec
=============================================================================
