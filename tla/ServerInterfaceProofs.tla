----------------------- MODULE ServerInterfaceProofs -----------------------
(***************************************************************************)
(* Theorems about ServerInterface, for any number of clients and messages, *)
(* any depth of nested broadcasts, and either kind of OnClientDisconnect.  *)
(***************************************************************************)
EXTENDS ServerInterface, SequenceTheorems, FiniteSetTheorems, TLAPS

(***************************************************************************)
(* What a broadcast relies on: it stops at an index that was in the        *)
(* container when it began, and the container never shrinks under it.      *)
(***************************************************************************)
StackOK(stack, n) ==
  /\ stack \in Seq(Call)
  /\ \A i \in 1 .. Len(stack) : stack[i].stop <= n

CallsOK == \A t \in Thread : StackOK(calls[t], Len(conns))

(***************************************************************************)
(* While Update is at a message it has room to count it, and the owner of  *)
(* the message is a connection that is listed.                             *)
(***************************************************************************)
UpdateOK ==
  pc \in {"handle", "check"} =>
    remote \in Client /\ Holds(conns, remote) /\ count < MaxUpdate

(***************************************************************************)
(* A connection with an operation outstanding, or with a message waiting,  *)
(* is listed.  It is stronger than NoHandlerOutlivesConnection, which also *)
(* counts the references a queued message holds: those go away.            *)
(***************************************************************************)
Kept == \A c \in Client : Outstanding(c) \/ Holds(inQ, c) => Holds(conns, c)

ServerInv == TypeOK /\ CallsOK /\ UpdateOK /\ Kept

-----------------------------------------------------------------------------
(* The stack of calls. *)

LEMMA CallType ==
  ASSUME NEW call \in Call
  PROVE  /\ call.at \in Nat \ {0} /\ call.stop \in Nat
         /\ [call EXCEPT !.at = @ + 1] \in Call
         /\ [call EXCEPT !.at = @ + 1].stop = call.stop
         /\ \A c \in Client :
              /\ [call EXCEPT !.at = @ + 1, !.sentTo = @ \cup {c}] \in Call
              /\ [call EXCEPT !.at = @ + 1, !.sentTo = @ \cup {c}].stop = call.stop
<1>1. call.at \in Nat \ {0} /\ call.stop \in Nat /\ call.at + 1 \in Nat \ {0}
  BY DEF Call
<1>2. [call EXCEPT !.at = @ + 1] \in Call /\ [call EXCEPT !.at = @ + 1].stop = call.stop
  BY <1>1 DEF Call
<1>3. ASSUME NEW c \in Client
      PROVE  /\ [call EXCEPT !.at = @ + 1, !.sentTo = @ \cup {c}] \in Call
             /\ [call EXCEPT !.at = @ + 1, !.sentTo = @ \cup {c}].stop = call.stop
  <2>1. call.sentTo \cup {c} \in SUBSET Client
    BY DEF Call
  <2> QED BY <1>1, <2>1 DEF Call
<1> QED BY <1>1, <1>2, <1>3

LEMMA StackPush ==
  ASSUME NEW stack, NEW n \in Nat, StackOK(stack, n),
         NEW call \in Call, call.stop <= n
  PROVE  StackOK(Append(stack, call), n)
<1>1. /\ Append(stack, call) \in Seq(Call)
      /\ Len(Append(stack, call)) = Len(stack) + 1 /\ Len(stack) \in Nat
      /\ \A i \in 1 .. Len(stack) : Append(stack, call)[i] = stack[i]
      /\ Append(stack, call)[Len(stack) + 1] = call
  BY DEF StackOK
<1> QED BY <1>1 DEF StackOK

LEMMA StackPop ==
  ASSUME NEW stack, NEW n \in Nat, StackOK(stack, n), stack # <<>>
  PROVE  /\ StackOK(SubSeq(stack, 1, Len(stack) - 1), n)
         /\ stack[Len(stack)] \in Call
         /\ stack[Len(stack)].stop <= n
<1>1. stack \in Seq(Call) /\ Len(stack) \in Nat \ {0}
  BY EmptySeq DEF StackOK
<1>2. /\ SubSeq(stack, 1, Len(stack) - 1) \in Seq(Call)
      /\ Len(SubSeq(stack, 1, Len(stack) - 1)) = Len(stack) - 1
      /\ \A i \in 1 .. Len(stack) - 1 : SubSeq(stack, 1, Len(stack) - 1)[i] = stack[i]
  <2> DEFINE n0 == Len(stack) - 1
  <2>1. 1 \in Int /\ n0 \in Int /\ \A i \in 1 .. n0 : stack[i] \in Call
    BY <1>1, ElementOfSeq
  <2>2. n0 \in Nat /\ n0 - 1 + 1 = n0 /\ \A i \in 1 .. n0 : 1 + i - 1 = i
    BY <1>1
  <2>3. /\ SubSeq(stack, 1, n0) \in Seq(Call)
        /\ Len(SubSeq(stack, 1, n0)) = IF 1 <= n0 THEN n0 - 1 + 1 ELSE 0
        /\ \A i \in 1 .. n0 - 1 + 1 : SubSeq(stack, 1, n0)[i] = stack[1 + i - 1]
    <3> HIDE DEF n0
    <3> QED BY <2>1, SubSeqProperties
  <2> HIDE DEF n0
  <2>4. (IF 1 <= n0 THEN n0 - 1 + 1 ELSE 0) = n0
    BY <2>2
  <2> QED BY <2>2, <2>3, <2>4 DEF n0
<1>3. stack[Len(stack)] \in Call
  BY <1>1, ElementOfSeq
<1> QED BY <1>1, <1>2, <1>3 DEF StackOK

LEMMA StackGrows ==
  ASSUME NEW stack, NEW n \in Nat, NEW m \in Nat, n <= m, StackOK(stack, n)
  PROVE  StackOK(stack, m)
<1> SUFFICES ASSUME NEW i \in 1 .. Len(stack) PROVE stack[i].stop <= m
  BY DEF StackOK
<1>1. stack[i] \in Call /\ stack[i].stop <= n
  BY ElementOfSeq DEF StackOK
<1>2. stack[i].stop \in Nat
  BY <1>1, CallType
<1> QED BY <1>1, <1>2

LEMMA StackEmpty ==
  ASSUME NEW n \in Nat
  PROVE  StackOK(<<>>, n)
BY DEF StackOK

LEMMA NewCall ==
  ASSUME TypeOK, NEW ignore \in Client \cup {NoClient}
  PROVE  /\ MessageAllClients(ignore) \in Call
         /\ MessageAllClients(ignore).stop <= Len(conns)
         /\ Len(conns) \in Nat
<1>1. Len(conns) \in Nat
  BY DEF TypeOK
<1> QED BY <1>1 DEF MessageAllClients, Call

(* One thread's stack changes, and it stays in order. *)
LEMMA OneStack ==
  ASSUME TypeOK, CallsOK, NEW t \in Thread, NEW stack, StackOK(stack, Len(conns)),
         calls' = [calls EXCEPT ![t] = stack], UNCHANGED conns
  PROVE  calls' \in [Thread -> Seq(Call)] /\ CallsOK'
BY DEF TypeOK, CallsOK, StackOK

(* KickClient calls OnClientDisconnect, and lets nobody go. *)
LEMMA KickOK ==
  ASSUME TypeOK, CallsOK, NEW t \in Thread, NEW c \in Client, NEW stack,
         StackOK(stack, Len(conns)), KickClient(t, c, stack)
  PROVE  /\ told' \in SUBSET Client
         /\ UNCHANGED conns
         /\ calls' \in [Thread -> Seq(Call)] /\ CallsOK'
<1>1. StackOK(Append(stack, MessageAllClients(NoClient)), Len(conns))
  BY NewCall, StackPush
<1>2. UNCHANGED conns /\ told' \in SUBSET Client
  BY DEF KickClient, TypeOK
<1>3. PICK s : StackOK(s, Len(conns)) /\ calls' = [calls EXCEPT ![t] = s]
  BY <1>1 DEF KickClient
<1> QED BY <1>2, <1>3, OneStack

-----------------------------------------------------------------------------
LEMMA ServerInit == Init => ServerInv
<1> SUFFICES ASSUME Init PROVE ServerInv
  OBVIOUS
<1>1. TypeOK
  <2>1. accepted \in 0 .. MaxClients /\ count \in 0 .. MaxUpdate
    BY BoundsAssumption DEF Init
  <2>2. heard \in [Client -> 0 .. MaxMessages] /\ handled \in [Client -> Nat]
    BY BoundsAssumption DEF Init
  <2>3. conns \in Seq(Client) /\ inQ \in Seq(Client) /\ calls \in [Thread -> Seq(Call)]
    BY DEF Init
  <2>4. /\ sock \in [Client -> {"none", "open", "closed"}]
        /\ valid \in [Client -> {"pending", "ok", "failed"}]
        /\ reading \in [Client -> {"none", "validation", "message"}]
        /\ writing \in [Client -> BOOLEAN]
        /\ closing \in [Client -> BOOLEAN]
    BY DEF Init
  <2> QED BY <2>1, <2>2, <2>3, <2>4 DEF Init, TypeOK
<1>2. CallsOK
  BY StackEmpty DEF Init, CallsOK
<1>3. UpdateOK /\ Kept
  BY DEF Init, UpdateOK, Kept, Outstanding, Holds
<1> QED BY <1>1, <1>2, <1>3 DEF ServerInv

(* The turn of a broadcast that sends, kicks, or returns. *)
LEMMA MessageAllOK ==
  ASSUME ServerInv, NEW t \in Thread, MessageAll(t)
  PROVE  ServerInv'
<1> DEFINE call == calls[t][Len(calls[t])]
           c == conns[call.at]
<1>1. calls[t] # <<>> /\ StackOK(calls[t], Len(conns)) /\ Len(conns) \in Nat
  BY DEF MessageAll, MessageNext, KickNext, MessageReturn, ServerInv, CallsOK, TypeOK
<1>2. /\ StackOK(Return(t), Len(conns))
      /\ call \in Call /\ call.stop <= Len(conns)
  BY <1>1, StackPop DEF Return
<1>3. call.at \in Nat \ {0} /\ call.stop \in Nat
  BY <1>2, CallType
<1>4. ASSUME call.at <= call.stop PROVE c \in Client /\ Holds(conns, c)
  <2>1. call.at \in 1 .. Len(conns)
    BY <1>1, <1>2, <1>3, <1>4
  <2> QED BY <2>1, ElementOfSeq DEF ServerInv, TypeOK, Holds
<1> DEFINE next == [call EXCEPT !.at = @ + 1]
           reached == [call EXCEPT !.at = @ + 1, !.sentTo = @ \cup {c}]
<1>5. StackOK(Append(Return(t), next), Len(conns))
  <2>1. next \in Call /\ next.stop <= Len(conns)
    BY <1>2, CallType
  <2> HIDE DEF next
  <2> QED BY <1>1, <1>2, <2>1, StackPush
<1>6. ASSUME call.at <= call.stop
      PROVE  StackOK(Append(Return(t), reached), Len(conns))
  <2>1. reached \in Call /\ reached.stop <= Len(conns)
    BY <1>2, <1>4, <1>6, CallType
  <2> HIDE DEF reached
  <2> QED BY <1>1, <1>2, <2>1, StackPush
<1> HIDE DEF next, reached
<1>7. CASE MessageNext(t)
  <2>1. /\ call.at <= call.stop
        /\ \/ /\ calls' = [calls EXCEPT ![t] = Append(Return(t), next)]
              /\ UNCHANGED writing
           \/ /\ writing' = [writing EXCEPT ![c] = TRUE]
              /\ calls' = [calls EXCEPT ![t] = Append(Return(t), reached)]
        /\ UNCHANGED <<conns, accepted, sock, valid, reading, closing, inQ, heard,
                       handled, told, update, stopped, halted>>
    BY <1>7 DEF MessageNext, Send, next, reached
  <2>2. calls' \in [Thread -> Seq(Call)] /\ CallsOK'
    BY <1>5, <1>6, <2>1, OneStack DEF ServerInv
  <2>3. TypeOK'
    BY <2>1, <2>2, <1>4 DEF ServerInv, TypeOK, update
  <2>4. UpdateOK' /\ Kept'
    BY <2>1, <1>4 DEF ServerInv, TypeOK, UpdateOK, Kept, Outstanding, Holds, update
  <2> QED BY <2>2, <2>3, <2>4 DEF ServerInv
<1>8. CASE KickNext(t)
  <2>1. /\ call.at <= call.stop
        /\ KickClient(t, c, Append(Return(t), next))
        /\ UNCHANGED <<accepted, connection, inQ, heard, handled, update, stopped, halted>>
    BY <1>8 DEF KickNext, next
  <2>2. /\ told' \in SUBSET Client /\ UNCHANGED conns
        /\ calls' \in [Thread -> Seq(Call)] /\ CallsOK'
    BY <2>1, <1>4, <1>5, KickOK DEF ServerInv
  <2>3. TypeOK'
    BY <2>1, <2>2 DEF ServerInv, TypeOK, connection, update
  <2>4. UpdateOK' /\ Kept'
    BY <2>1, <2>2 DEF ServerInv, UpdateOK, Kept, Outstanding, connection, update
  <2> QED BY <2>2, <2>3, <2>4 DEF ServerInv
<1>9. CASE MessageReturn(t)
  <2>1. /\ calls' = [calls EXCEPT ![t] = Return(t)]
        /\ UNCHANGED <<conns, accepted, connection, inQ, heard, handled, told, update,
                       stopped, halted>>
    BY <1>9 DEF MessageReturn
  <2>2. calls' \in [Thread -> Seq(Call)] /\ CallsOK'
    BY <1>2, <2>1, OneStack DEF ServerInv
  <2>3. TypeOK' /\ UpdateOK' /\ Kept'
    BY <2>1, <2>2 DEF ServerInv, TypeOK, UpdateOK, Kept, Outstanding, connection, update
  <2> QED BY <2>2, <2>3 DEF ServerInv
<1> QED BY <1>7, <1>8, <1>9 DEF MessageAll

-----------------------------------------------------------------------------
(* A new connection is listed before anything of it is outstanding. *)
LEMMA AcceptOK ==
  ASSUME ServerInv, Accept
  PROVE  ServerInv'
<1> DEFINE c == accepted + 1
<1>1. c \in Client
  BY BoundsAssumption DEF Accept, ServerInv, TypeOK, Client
<1>2. /\ conns' = Append(conns, c)
      /\ conns' \in Seq(Client)
      /\ Len(conns') = Len(conns) + 1 /\ Len(conns) \in Nat
      /\ \A i \in 1 .. Len(conns) : conns'[i] = conns[i]
      /\ conns'[Len(conns) + 1] = c
  BY <1>1 DEF Accept, ServerInv, TypeOK
<1>3. Holds(conns', c) /\ \A d \in Client : Holds(conns, d) => Holds(conns', d)
  BY <1>2 DEF Holds
<1>4. TypeOK'
  <2>1. /\ accepted' \in 0 .. MaxClients
        /\ halted' \in {"no", "race", "exception"}
    BY BoundsAssumption DEF Accept, ServerInv, TypeOK
  <2>2. /\ sock' \in [Client -> {"none", "open", "closed"}]
        /\ reading' \in [Client -> {"none", "validation", "message"}]
        /\ writing' \in [Client -> BOOLEAN]
    BY DEF Accept, ServerInv, TypeOK
  <2> QED BY <1>2, <2>1, <2>2 DEF Accept, ServerInv, TypeOK, update
<1>5. CallsOK'
  <2>1. UNCHANGED calls
    BY DEF Accept
  <2> QED BY <2>1, <1>2, StackGrows DEF ServerInv, CallsOK
<1>6. UpdateOK'
  BY <1>3 DEF Accept, ServerInv, UpdateOK, update
<1>7. Kept'
  <2> SUFFICES ASSUME NEW d \in Client, Outstanding(d)' \/ Holds(inQ, d)', d # c
               PROVE  Holds(conns, d)
    BY <1>3 DEF Kept, Holds
  <2>1. Outstanding(d) \/ Holds(inQ, d)
    BY <1>1 DEF Accept, Outstanding, Holds, ServerInv, TypeOK
  <2> QED BY <2>1 DEF ServerInv, Kept
<1> QED BY <1>4, <1>5, <1>6, <1>7 DEF ServerInv

(* Handlers of a connection: each needs an operation of it outstanding. *)
LEMMA HandlersOK ==
  ASSUME ServerInv, NEW c \in Client,
         Validated(c) \/ Receive(c) \/ ReadFails(c) \/ Close(c) \/ WritesEnd(c)
  PROVE  ServerInv'
<1>1. Holds(conns, c)
  BY DEF Validated, Receive, ReadFails, Close, WritesEnd, ServerInv, Kept, Outstanding
<1>2. UNCHANGED <<conns, calls, update>>
  BY DEF Validated, Receive, ReadFails, Close, WritesEnd
<1>3. TypeOK'
  <2>1. CASE Receive(c)
    <3>1. inQ' \in Seq(Client)
      BY <2>1 DEF Receive, ServerInv, TypeOK
    <3>2. heard' \in [Client -> 0 .. MaxMessages]
      BY <2>1, BoundsAssumption DEF Receive, ServerInv, TypeOK
    <3> QED BY <2>1, <3>1, <3>2 DEF Receive, ServerInv, TypeOK, connection, update
  <2>2. CASE Validated(c)
    BY <2>2 DEF Validated, Send, ServerInv, TypeOK, update
  <2>3. CASE ReadFails(c)
    <3>1. /\ sock' \in [Client -> {"none", "open", "closed"}]
          /\ closing' \in [Client -> BOOLEAN]
      BY <2>3 DEF ReadFails, ServerInv, TypeOK
    <3> QED BY <2>3, <3>1 DEF ReadFails, ServerInv, TypeOK, update
  <2>4. CASE Close(c)
    BY <2>4 DEF Close, ServerInv, TypeOK, update
  <2>5. CASE WritesEnd(c)
    <3>1. /\ sock' \in [Client -> {"none", "open", "closed"}]
          /\ writing' \in [Client -> BOOLEAN]
      BY <2>5 DEF WritesEnd, ServerInv, TypeOK
    <3> QED BY <2>5, <3>1 DEF WritesEnd, ServerInv, TypeOK, update
  <2> QED BY <2>1, <2>2, <2>3, <2>4, <2>5
<1>4. CallsOK' /\ UpdateOK'
  BY <1>2 DEF ServerInv, CallsOK, UpdateOK, update
<1>5. Kept'
  <2> SUFFICES ASSUME NEW d \in Client, d # c, Outstanding(d)' \/ Holds(inQ, d)'
               PROVE  Holds(conns, d)
    BY <1>1, <1>2 DEF Kept
  <2>1. CASE Receive(c)
    <3>1. Holds(inQ, d)' => Holds(inQ, d)
      BY <2>1 DEF Receive, Holds, ServerInv, TypeOK
    <3> QED BY <2>1, <3>1 DEF Receive, connection, Outstanding, ServerInv, Kept
  <2>2. CASE ~Receive(c)
    <3>1. UNCHANGED inQ
      BY <2>2 DEF Validated, ReadFails, Close, WritesEnd
    <3>2. UNCHANGED <<reading[d], writing[d], closing[d]>>
      <4>1. CASE Validated(c)
        BY <4>1 DEF Validated, Send, ServerInv, TypeOK
      <4>2. CASE ReadFails(c)
        BY <4>2 DEF ReadFails, ServerInv, TypeOK
      <4>3. CASE Close(c) \/ WritesEnd(c)
        BY <4>3 DEF Close, WritesEnd, ServerInv, TypeOK
      <4> QED BY <2>2, <4>1, <4>2, <4>3
    <3> QED BY <3>1, <3>2 DEF Outstanding, Holds, ServerInv, Kept
  <2> QED BY <2>1, <2>2
<1> QED BY <1>3, <1>4, <1>5 DEF ServerInv

LEMMA ValidationFailedOK ==
  ASSUME ServerInv, NEW c \in Client, ValidationFailed(c)
  PROVE  ServerInv'
<1>1. StackOK(<<>>, Len(conns)) /\ "io" \in Thread
  BY StackEmpty DEF ServerInv, TypeOK, Thread
<1>2. /\ told' \in SUBSET Client /\ UNCHANGED conns
      /\ calls' \in [Thread -> Seq(Call)] /\ CallsOK'
  BY <1>1, KickOK DEF ServerInv, ValidationFailed
<1>3. TypeOK'
  BY <1>2 DEF ServerInv, TypeOK, ValidationFailed, update
<1>4. UpdateOK' /\ Kept'
  BY <1>2 DEF ServerInv, TypeOK, ValidationFailed, update, UpdateOK, Kept, Outstanding, Holds
<1> QED BY <1>2, <1>3, <1>4 DEF ServerInv

LEMMA IOThreadOK ==
  ASSUME ServerInv, IOThread
  PROVE  ServerInv'
<1>1. CASE Accept
  BY <1>1, AcceptOK
<1>2. CASE Deny
  <2>1. accepted + 1 \in 0 .. MaxClients
    BY <1>2, BoundsAssumption DEF Deny, ServerInv, TypeOK
  <2>2. TypeOK'
    BY <1>2, <2>1 DEF Deny, ServerInv, TypeOK, update
  <2> QED BY <1>2, <2>2 DEF Deny, ServerInv, CallsOK, UpdateOK, Kept, Outstanding, update
<1>3. CASE AcceptThrows
  BY <1>3 DEF AcceptThrows, ServerInv, TypeOK, CallsOK, UpdateOK, Kept, Outstanding,
              connection, update
<1>4. CASE MessageAll("io")
  BY <1>4, MessageAllOK DEF Thread
<1> QED BY <1>1, <1>2, <1>3, <1>4, HandlersOK, ValidationFailedOK DEF IOThread

-----------------------------------------------------------------------------
(* Update: the message it takes belongs to a connection that is listed. *)
LEMMA PopOK ==
  ASSUME ServerInv, Pop
  PROVE  ServerInv'
<1>1. inQ # <<>> /\ remote' = Head(inQ) /\ inQ' = Tail(inQ)
  BY DEF Pop
<1>2. /\ Head(inQ) \in Client /\ Tail(inQ) \in Seq(Client)
      /\ Head(inQ) = inQ[1] /\ Len(inQ) \in Nat \ {0}
      /\ \A i \in 1 .. Len(Tail(inQ)) : i + 1 \in 1 .. Len(inQ) /\ Tail(inQ)[i] = inQ[i + 1]
  BY <1>1, HeadTailProperties, EmptySeq DEF ServerInv, TypeOK
<1>3. \A c \in Client : c = Head(inQ) \/ Holds(Tail(inQ), c) => Holds(inQ, c)
  BY <1>2 DEF Holds
<1>4. TypeOK'
  BY <1>1, <1>2 DEF Pop, ServerInv, TypeOK, connection
<1>5. CallsOK'
  BY DEF Pop, ServerInv, CallsOK
<1>6. UpdateOK'
  BY <1>1, <1>2, <1>3 DEF Pop, ServerInv, TypeOK, UpdateOK, Kept
<1>7. Kept'
  BY <1>1, <1>3 DEF Pop, ServerInv, Kept, Outstanding, connection
<1> QED BY <1>4, <1>5, <1>6, <1>7 DEF ServerInv

LEMMA OnMessageOK ==
  ASSUME ServerInv, OnMessage
  PROVE  ServerInv'
<1>1. /\ remote \in Client /\ Holds(conns, remote) /\ count < MaxUpdate
      /\ "main" \in Thread /\ Len(conns) \in Nat
  BY DEF OnMessage, ServerInv, UpdateOK, TypeOK, Thread
<1>2. /\ handled' \in [Client -> Nat]
      /\ pc' = "check"
      /\ UNCHANGED <<accepted, sock, valid, reading, closing, inQ, heard, remote, count,
                     stopped, halted>>
  BY <1>1 DEF OnMessage, ServerInv, TypeOK
<1>3. /\ told' \in SUBSET Client /\ UNCHANGED conns
      /\ calls' \in [Thread -> Seq(Call)] /\ CallsOK'
      /\ writing' = writing \/ writing' = [writing EXCEPT ![remote] = TRUE]
  <2>1. CASE /\ calls' = [calls EXCEPT !["main"] = <<MessageAllClients(remote)>>]
             /\ UNCHANGED <<writing, told, conns>>
    <3>1. MessageAllClients(remote) \in Call /\ MessageAllClients(remote).stop <= Len(conns)
      BY <1>1, NewCall DEF ServerInv
    <3>2. StackOK(<<MessageAllClients(remote)>>, Len(conns))
      BY <3>1 DEF StackOK
    <3> QED BY <1>1, <2>1, <3>2, OneStack DEF ServerInv, TypeOK
  <2>2. CASE Send(remote) /\ UNCHANGED <<calls, told, conns>>
    BY <2>2 DEF Send, ServerInv, TypeOK, CallsOK
  <2>3. CASE KickClient("main", remote, <<>>) /\ UNCHANGED writing
    BY <1>1, <2>3, StackEmpty, KickOK DEF ServerInv
  <2> QED BY <2>1, <2>2, <2>3 DEF OnMessage
<1>4. TypeOK'
  BY <1>1, <1>2, <1>3 DEF ServerInv, TypeOK
<1>5. UpdateOK' /\ Kept'
  BY <1>1, <1>2, <1>3 DEF ServerInv, TypeOK, UpdateOK, Kept, Outstanding, Holds
<1> QED BY <1>3, <1>4, <1>5 DEF ServerInv

LEMMA UpdateCheckOK ==
  ASSUME ServerInv, UpdateCheck
  PROVE  ServerInv'
<1>1. remote \in Client /\ count < MaxUpdate /\ "main" \in Thread
  BY DEF UpdateCheck, ServerInv, UpdateOK, Thread
<1>2. /\ told' \in SUBSET Client /\ UNCHANGED conns
      /\ calls' \in [Thread -> Seq(Call)] /\ CallsOK'
      /\ count' \in 0 .. MaxUpdate
  <2>1. CASE IsConnected(remote)
    BY <1>1, <2>1, BoundsAssumption DEF UpdateCheck, ServerInv, TypeOK, CallsOK
  <2>2. CASE ~IsConnected(remote)
    <3>1. KickClient("main", remote, <<>>) /\ UNCHANGED count /\ Len(conns) \in Nat
      BY <2>2 DEF UpdateCheck, ServerInv, TypeOK
    <3> QED BY <1>1, <3>1, StackEmpty, KickOK DEF ServerInv, TypeOK
  <2> QED BY <2>1, <2>2
<1>3. TypeOK'
  BY <1>2 DEF UpdateCheck, ServerInv, TypeOK, connection
<1>4. UpdateOK' /\ Kept'
  BY <1>2 DEF UpdateCheck, ServerInv, UpdateOK, Kept, Outstanding, connection
<1> QED BY <1>2, <1>3, <1>4 DEF ServerInv

LEMMA MainThreadOK ==
  ASSUME ServerInv, MainThread
  PROVE  ServerInv'
<1>1. CASE UpdateCall
  BY <1>1, BoundsAssumption
  DEF UpdateCall, ServerInv, TypeOK, CallsOK, UpdateOK, Kept, Outstanding, connection
<1>2. CASE UpdateReturn
  BY <1>2 DEF UpdateReturn, ServerInv, TypeOK, CallsOK, UpdateOK, Kept, Outstanding,
              connection
<1>3. CASE MessageAll("main")
  BY <1>3, MessageAllOK DEF Thread
<1> QED BY <1>1, <1>2, <1>3, PopOK, OnMessageOK, UpdateCheckOK DEF MainThread, Update

LEMMA ServerNext == ServerInv /\ [Next]_vars => ServerInv'
<1> SUFFICES ASSUME ServerInv, [Next]_vars PROVE ServerInv'
  OBVIOUS
<1>1. CASE IOThread
  BY <1>1, IOThreadOK
<1>2. CASE MainThread
  BY <1>2, MainThreadOK
<1>3. CASE Stop
  BY <1>3 DEF Stop, ServerInv, TypeOK, CallsOK, UpdateOK, Kept, Outstanding,
              connection, update
<1>4. CASE UNCHANGED vars
  BY <1>4 DEF vars, ServerInv, TypeOK, CallsOK, UpdateOK, Kept, Outstanding,
              connection, update
<1> QED BY <1>1, <1>2, <1>3, <1>4 DEF Next

-----------------------------------------------------------------------------
(***************************************************************************)
(* Every variable of the server keeps its type; in particular no loop of   *)
(* MessageAllClients runs past the container, on either thread, however    *)
(* the callbacks nest and whatever is accepted meanwhile.                  *)
(***************************************************************************)
THEOREM TypeCorrect == Spec => []TypeOK
<1>1. ServerInv => TypeOK
  BY DEF ServerInv
<1> QED BY <1>1, ServerInit, ServerNext, PTL DEF Spec

(***************************************************************************)
(* The handlers of a Connection hold a raw pointer to it; as long as one   *)
(* is outstanding, a shared_ptr keeps the connection alive.                *)
(***************************************************************************)
THEOREM HandlersStayValid == Spec => []NoHandlerOutlivesConnection
<1>1. ServerInv => NoHandlerOutlivesConnection
  BY DEF ServerInv, Kept, NoHandlerOutlivesConnection
<1> QED BY <1>1, ServerInit, ServerNext, PTL DEF Spec

-----------------------------------------------------------------------------
(***************************************************************************)
(* Steps as ServedConnection sees them.  All but accepting are those of a  *)
(* connection that is there, or leave it alone; one that is not there yet  *)
(* has no socket and nothing outstanding.                                  *)
(***************************************************************************)
Goes(d) ==
  \/ Served(d)!Validated \/ Served(d)!ValidationFailed \/ Served(d)!Receive
  \/ Served(d)!ReadFails \/ Served(d)!Close \/ Served(d)!Send \/ Served(d)!WritesEnd
  \/ UNCHANGED Served(d)!vars

Unseen == \A d \in Client : d > accepted => sock[d] = "none" /\ ~Outstanding(d)

LEMMA NotConcerned ==
  ASSUME NEW d \in Client,
         UNCHANGED <<sock[d], valid[d], reading[d], writing[d], closing[d], heard[d]>>
  PROVE  Goes(d)
BY DEF Goes, Served!vars

LEMMA SendServed ==
  ASSUME TypeOK, NEW c \in Client, NEW d \in Client, IsConnected(c), Send(c),
         UNCHANGED <<sock, valid, reading, closing, heard>>
  PROVE  Goes(d)
<1>1. CASE d = c
  <2>1. Served(d)!Send
    BY <1>1 DEF Served!Send, IsConnected, Send, TypeOK
  <2> QED BY <2>1 DEF Goes
<1>2. CASE d # c
  BY <1>2, NotConcerned DEF Send, TypeOK
<1> QED BY <1>1, <1>2

LEMMA BroadcastServed ==
  ASSUME ServerInv, NEW d \in Client, NEW t \in Thread, MessageAll(t)
  PROVE  Goes(d)
<1>1. CASE MessageNext(t)
  <2> DEFINE call == calls[t][Len(calls[t])]
             c == conns[call.at]
  <2>1. CASE c = call.ignore
    BY <1>1, <2>1, NotConcerned DEF MessageNext
  <2>2. CASE c # call.ignore
    <3>1. call \in Call /\ call.stop <= Len(conns)
      BY <1>1, StackPop DEF MessageNext, ServerInv, TypeOK, CallsOK
    <3>2. call.at \in 1 .. Len(conns)
      <4>1. call.at <= call.stop /\ Len(conns) \in Nat
        BY <1>1 DEF MessageNext, ServerInv, TypeOK
      <4> HIDE DEF call
      <4>2. call.at \in Nat \ {0} /\ call.stop \in Nat
        BY <3>1, CallType
      <4> QED BY <3>1, <4>1, <4>2
    <3>3. c \in Client
      BY <3>2, ElementOfSeq DEF ServerInv, TypeOK
    <3>4. /\ IsConnected(c) /\ Send(c)
          /\ UNCHANGED <<sock, valid, reading, closing, heard>>
      BY <1>1, <2>2 DEF MessageNext
    <3> HIDE DEF c
    <3> QED BY <3>3, <3>4, SendServed DEF ServerInv
  <2> QED BY <2>1, <2>2
<1>2. CASE KickNext(t) \/ MessageReturn(t)
  BY <1>2, NotConcerned DEF KickNext, MessageReturn, connection
<1> QED BY <1>1, <1>2 DEF MessageAll

LEMMA HandlersServed ==
  ASSUME ServerInv, NEW d \in Client, NEW c \in Client,
         \/ Validated(c) \/ ValidationFailed(c) \/ Receive(c)
         \/ ReadFails(c) \/ Close(c) \/ WritesEnd(c)
  PROVE  Goes(d)
<1> USE DEF ServerInv, TypeOK
<1>1. CASE d # c
  BY <1>1, NotConcerned
  DEF Validated, ValidationFailed, Receive, ReadFails, Close, WritesEnd, Send, connection
<1>2. CASE d = c
  <2>1. CASE Validated(c)
    <3>1. Served(d)!Validated
      BY <1>2, <2>1 DEF Validated, Send, Served!Validated
    <3> QED BY <3>1 DEF Goes
  <2>2. CASE ValidationFailed(c)
    <3>1. Served(d)!ValidationFailed
      BY <1>2, <2>2 DEF ValidationFailed, Served!ValidationFailed
    <3> QED BY <3>1 DEF Goes
  <2>3. CASE Receive(c)
    <3>1. Served(d)!Receive
      BY <1>2, <2>3 DEF Receive, connection, Served!Receive
    <3> QED BY <3>1 DEF Goes
  <2>4. CASE ReadFails(c)
    <3>1. Served(d)!ReadFails
      BY <1>2, <2>4 DEF ReadFails, Served!ReadFails
    <3> QED BY <3>1 DEF Goes
  <2>5. CASE Close(c)
    <3>1. Served(d)!Close
      BY <1>2, <2>5 DEF Close, Served!Close
    <3> QED BY <3>1 DEF Goes
  <2>6. CASE WritesEnd(c)
    <3>1. Served(d)!WritesEnd
      BY <1>2, <2>6 DEF WritesEnd, Served!WritesEnd
    <3> QED BY <3>1 DEF Goes
  <2> QED BY <2>1, <2>2, <2>3, <2>4, <2>5, <2>6
<1> QED BY <1>1, <1>2

LEMMA StepServed ==
  ASSUME ServerInv, NEW d \in Client, Next, ~Accept, ~Deny
  PROVE  Goes(d)
<1>1. CASE MessageAll("io") \/ MessageAll("main")
  BY <1>1, BroadcastServed DEF Thread
<1>2. CASE OnMessage
  <2>1. remote \in Client
    BY <1>2 DEF OnMessage, ServerInv, UpdateOK
  <2>2. CASE UNCHANGED writing
    BY <1>2, <2>2, NotConcerned DEF OnMessage
  <2>3. CASE IsConnected(remote) /\ Send(remote)
    BY <1>2, <2>1, <2>3, SendServed DEF OnMessage, ServerInv
  <2> QED BY <1>2, <2>2, <2>3 DEF OnMessage
<1>3. CASE AcceptThrows \/ UpdateCall \/ Pop \/ UpdateReturn \/ UpdateCheck \/ Stop
  BY <1>3, NotConcerned DEF AcceptThrows, UpdateCall, Pop, UpdateReturn, UpdateCheck, Stop, connection
<1> QED BY <1>1, <1>2, <1>3, HandlersServed DEF Next, IOThread, MainThread, Update

LEMMA UnseenNext ==
  ASSUME ServerInv, Unseen, [Next]_vars
  PROVE  Unseen'
<1> SUFFICES ASSUME NEW d \in Client, d > accepted'
             PROVE  (sock[d] = "none" /\ ~Outstanding(d))'
  BY DEF Unseen
<1> USE DEF ServerInv, TypeOK, Client
<1>1. CASE Accept
  <2>1. d > accepted /\ d # accepted + 1 /\ accepted + 1 \in Client
    BY <1>1, BoundsAssumption DEF Accept
  <2> QED BY <1>1, <2>1 DEF Accept, Unseen, Outstanding
<1>2. CASE Deny
  <2>1. d > accepted /\ d # accepted + 1
    BY <1>2, BoundsAssumption DEF Deny
  <2> QED BY <1>2, <2>1 DEF Deny, Unseen, Outstanding
<1>3. CASE Next /\ ~Accept /\ ~Deny
  <2>1. Goes(d)
    BY <1>3, StepServed
  <2>2. accepted' = accepted
    BY <1>3 DEF Next, IOThread, MainThread, Update, MessageAll, AcceptThrows, Validated,
                ValidationFailed, Receive, ReadFails, Close, WritesEnd, MessageNext, KickNext,
                MessageReturn, UpdateCall, Pop, UpdateReturn, OnMessage, UpdateCheck, Stop
  <2>3. sock[d] = "none" /\ ~Outstanding(d)
    BY <2>2 DEF Unseen
  <2>4. UNCHANGED <<sock[d], reading[d], writing[d], closing[d]>>
    BY <2>1, <2>3
    DEF Goes, Outstanding, Served!Validated, Served!ValidationFailed, Served!Receive,
        Served!ReadFails, Served!Close, Served!Send, Served!WritesEnd, Served!vars
  <2> QED BY <2>3, <2>4 DEF Outstanding
<1>4. CASE UNCHANGED vars
  BY <1>4 DEF vars, connection, Unseen, Outstanding
<1> QED BY <1>1, <1>2, <1>3, <1>4

LEMMA AcceptServed ==
  ASSUME ServerInv, Unseen, NEW d \in Client, Accept \/ Deny
  PROVE  Served(d)!Next \/ UNCHANGED Served(d)!vars
<1> USE DEF ServerInv, TypeOK
<1>1. accepted + 1 \in Client /\ accepted + 1 > accepted
  BY BoundsAssumption DEF Accept, Deny, Client
<1>2. sock[accepted + 1] = "none"
  BY <1>1 DEF Unseen
<1>3. CASE d = accepted + 1
  <2>1. Accept => Served(d)!Accept
    BY <1>1, <1>2, <1>3 DEF Accept, Served!Accept
  <2>2. Deny => Served(d)!Deny
    BY <1>1, <1>2, <1>3 DEF Deny, Served!Deny
  <2> QED BY <2>1, <2>2 DEF Served!Next
<1>4. CASE d # accepted + 1
  BY <1>4 DEF Accept, Deny, Served!vars
<1> QED BY <1>3, <1>4

(***************************************************************************)
(* For any number of connections, callbacks and broadcasts: each step of   *)
(* the server is, for every connection, one that ServedConnection allows.  *)
(***************************************************************************)
THEOREM ConnectionsServed == Spec => KeepsToServed
<1>1. Init => Unseen /\ \A c \in Client : Served(c)!Init
  BY DEF Init, Unseen, Outstanding, Served!Init
<1>2. ServerInv /\ Unseen /\ [Next]_vars =>
        \A c \in Client : Served(c)!Next \/ UNCHANGED Served(c)!vars
  <2> SUFFICES ASSUME ServerInv, Unseen, [Next]_vars, NEW c \in Client
               PROVE  Served(c)!Next \/ UNCHANGED Served(c)!vars
    OBVIOUS
  <2>1. CASE Accept \/ Deny
    BY <2>1, AcceptServed
  <2>2. CASE Next /\ ~Accept /\ ~Deny
    <3>1. Goes(c)
      BY <2>2, StepServed
    <3> QED BY <3>1 DEF Goes, Served!Next
  <2>3. CASE UNCHANGED vars
    BY <2>3 DEF vars, connection, Served!vars
  <2> QED BY <2>1, <2>2, <2>3
<1>3. ServerInv /\ Unseen /\ [Next]_vars => ServerInv' /\ Unseen'
  BY ServerNext, UnseenNext
<1> QED BY <1>1, <1>2, <1>3, ServerInit, PTL DEF Spec, KeepsToServed

-----------------------------------------------------------------------------
(***************************************************************************)
(* A broadcast in progress has sent to all connections it has come past,   *)
(* except the one to ignore and those closed by now.  An index means the   *)
(* same connection all the time, and a closed one never opens again: no    *)
(* connection is accepted twice.                                           *)
(***************************************************************************)
Sent(call) ==
  \A i \in 1 .. call.stop :
    i < call.at => conns[i] \in call.sentTo \cup {call.ignore} \/ ~IsConnected(conns[i])

StacksSent == \A t \in Thread : \A k \in 1 .. Len(calls[t]) : Sent(calls[t][k])
AcceptedOnce == \A i \in 1 .. Len(conns) : conns[i] <= accepted

(* Each call on a stack but the first was made for a client not told of before. *)
StacksBounded == \A t \in Thread : Len(calls[t]) <= Cardinality(told) + 1

(* What a step does to a stack. *)
Top(t) == calls[t][Len(calls[t])]

Advanced(t, call) ==
  /\ call \in Call /\ call.at = Top(t).at + 1 /\ call.stop = Top(t).stop
  /\ call.ignore = Top(t).ignore /\ Top(t).sentTo \subseteq call.sentTo
  /\ Top(t).at <= Top(t).stop
  /\ conns[Top(t).at] \in call.sentTo \cup {call.ignore} \/ ~IsConnected(conns[Top(t).at])

Fresh(call) == call \in Call /\ call.at = 1 /\ call.stop = Len(conns)

Tells == \E c \in Client : told' = told \cup {c} /\ (Announce = "once" => c \notin told)

Returns(t) ==
  /\ calls[t] # <<>> /\ calls'[t] = Return(t) /\ Top(t).at > Top(t).stop
Proceeds(t) ==
  /\ calls[t] # <<>>
  /\ \E call : Advanced(t, call) /\ calls'[t] = Append(Return(t), call)
Nests(t) ==
  /\ calls[t] # <<>>
  /\ \E call, new : /\ Advanced(t, call) /\ Fresh(new)
                    /\ calls'[t] = Append(Append(Return(t), call), new)
  /\ Tells
Starts(t) == calls[t] = <<>> /\ \E new : Fresh(new) /\ calls'[t] = <<new>>

Stacks(t) ==
  /\ calls'[t] = calls[t] \/ Returns(t) \/ Proceeds(t) \/ Nests(t) \/ Starts(t)
  /\ told \subseteq told'

LEMMA FreshCall ==
  ASSUME TypeOK, NEW ignore \in Client \cup {NoClient}
  PROVE  Fresh(MessageAllClients(ignore))
BY NewCall DEF Fresh, MessageAllClients

LEMMA AdvancedCall ==
  ASSUME NEW t \in Thread, NEW top \in Call, top = Top(t), top.at <= top.stop,
         NEW S, S \subseteq Client,
         conns[top.at] \in top.sentTo \cup S \cup {top.ignore} \/ ~IsConnected(conns[top.at])
  PROVE  /\ Advanced(t, [top EXCEPT !.at = @ + 1, !.sentTo = @ \cup S])
         /\ S = {} => Advanced(t, [top EXCEPT !.at = @ + 1])
<1>1. /\ top.at + 1 \in Nat \ {0} /\ top.stop \in Nat /\ top.ignore \in Client \cup {NoClient}
      /\ top.sentTo \in SUBSET Client /\ top.sentTo \cup S \in SUBSET Client
  BY DEF Call
<1>2. ASSUME NEW call \in Call, call.at = top.at + 1, call.stop = top.stop,
             call.ignore = top.ignore, call.sentTo = top.sentTo \cup S
      PROVE  Advanced(t, call)
  BY <1>2 DEF Advanced
<1>3. /\ [top EXCEPT !.at = @ + 1, !.sentTo = @ \cup S] \in Call
      /\ [top EXCEPT !.at = @ + 1, !.sentTo = @ \cup S].at = top.at + 1
      /\ [top EXCEPT !.at = @ + 1, !.sentTo = @ \cup S].stop = top.stop
      /\ [top EXCEPT !.at = @ + 1, !.sentTo = @ \cup S].ignore = top.ignore
      /\ [top EXCEPT !.at = @ + 1, !.sentTo = @ \cup S].sentTo = top.sentTo \cup S
  BY <1>1 DEF Call
<1>4. /\ [top EXCEPT !.at = @ + 1] \in Call
      /\ [top EXCEPT !.at = @ + 1].at = top.at + 1
      /\ [top EXCEPT !.at = @ + 1].stop = top.stop
      /\ [top EXCEPT !.at = @ + 1].ignore = top.ignore
      /\ [top EXCEPT !.at = @ + 1].sentTo = top.sentTo
  BY <1>1 DEF Call
<1> QED BY <1>2, <1>3, <1>4

LEMMA TopCall ==
  ASSUME ServerInv, NEW t \in Thread, calls[t] # <<>>
  PROVE  Top(t) \in Call /\ Top(t).stop <= Len(conns)
BY StackPop DEF ServerInv, CallsOK, TypeOK, Top

LEMMA OneStackStep ==
  ASSUME ServerInv, NEW t \in Thread, NEW u \in Thread, Stacks(t), NEW s,
         calls' = [calls EXCEPT ![t] = s]
  PROVE  Stacks(u)
BY DEF Stacks, ServerInv, TypeOK

LEMMA MessageAllStacks ==
  ASSUME ServerInv, NEW t \in Thread, NEW u \in Thread, MessageAll(t)
  PROVE  Stacks(u)
<1>1. calls[t] # <<>> /\ calls \in [Thread -> Seq(Call)]
  BY DEF MessageAll, MessageNext, KickNext, MessageReturn, ServerInv, TypeOK
<1> DEFINE top == Top(t)
<1>2. top \in Call /\ top.stop <= Len(conns)
  BY <1>1, TopCall
<1>3. CASE MessageNext(t)
  <2> DEFINE c == conns[top.at]
             same == [top EXCEPT !.at = @ + 1]
             sent == [top EXCEPT !.at = @ + 1, !.sentTo = @ \cup {c}]
  <2>1. /\ top.at <= top.stop /\ told' = told
        /\ \/ c = top.ignore /\ calls' = [calls EXCEPT ![t] = Append(Return(t), same)]
           \/ c # top.ignore /\ calls' = [calls EXCEPT ![t] = Append(Return(t), sent)]
    BY <1>3 DEF MessageNext, Top
  <2>2. c \in Client
    <3>1. top.at \in 1 .. Len(conns) /\ conns \in Seq(Client)
      <4>1. conns \in Seq(Client) /\ Len(conns) \in Nat
        BY DEF ServerInv, TypeOK
      <4>2. top.at \in Nat \ {0} /\ top.stop \in Nat /\ top.at <= top.stop /\ top.stop <= Len(conns)
        BY <1>2, <2>1 DEF Call
      <4> HIDE DEF top
      <4> QED BY <4>1, <4>2
    <3> QED BY <3>1, ElementOfSeq
  <2>3. c = top.ignore => Advanced(t, same)
    BY <1>2, <2>1, AdvancedCall
  <2>4. Advanced(t, sent)
    BY <1>2, <2>1, <2>2, AdvancedCall
  <2> HIDE DEF same, sent, top
  <2>5. Proceeds(t)
    BY <1>1, <2>1, <2>3, <2>4 DEF Proceeds
  <2>6. Stacks(t)
    BY <2>1, <2>5 DEF Stacks
  <2> QED BY <2>1, <2>6, OneStackStep
<1>4. CASE KickNext(t)
  <2> DEFINE c == conns[top.at]
             same == [top EXCEPT !.at = @ + 1]
             new == MessageAllClients(NoClient)
  <2>1. /\ top.at <= top.stop /\ ~IsConnected(c)
        /\ KickClient(t, c, Append(Return(t), same))
    BY <1>4 DEF KickNext, Top
  <2>2. c \in Client
    <3>1. top.at \in 1 .. Len(conns) /\ conns \in Seq(Client)
      <4>1. conns \in Seq(Client) /\ Len(conns) \in Nat
        BY DEF ServerInv, TypeOK
      <4>2. top.at \in Nat \ {0} /\ top.stop \in Nat /\ top.at <= top.stop /\ top.stop <= Len(conns)
        BY <1>2, <2>1 DEF Call
      <4> HIDE DEF top
      <4> QED BY <4>1, <4>2
    <3> QED BY <3>1, ElementOfSeq
  <2>3. Advanced(t, same)
    <3>1. {} \subseteq Client
      OBVIOUS
    <3> QED BY <1>2, <2>1, <3>1, AdvancedCall
  <2>4. Fresh(new)
    BY FreshCall DEF ServerInv
  <2> HIDE DEF same, new, top, c
  <2>5. CASE Announce = "always" \/ c \notin told
    <3>1. /\ calls' = [calls EXCEPT ![t] = Append(Append(Return(t), same), new)]
          /\ told' = told \cup {c}
      BY <2>1, <2>5 DEF KickClient, new
    <3>2. Tells
      BY <2>2, <2>5, <3>1 DEF Tells
    <3>3. Nests(t)
      BY <1>1, <2>3, <2>4, <3>1, <3>2 DEF Nests
    <3>4. Stacks(t)
      BY <3>1, <3>3 DEF Stacks
    <3> QED BY <3>1, <3>4, OneStackStep
  <2>6. CASE ~(Announce = "always" \/ c \notin told)
    <3>1. /\ calls' = [calls EXCEPT ![t] = Append(Return(t), same)]
          /\ told' = told \cup {c}
      BY <2>1, <2>6 DEF KickClient
    <3>2. Proceeds(t)
      BY <1>1, <2>3, <3>1 DEF Proceeds
    <3>3. Stacks(t)
      BY <3>1, <3>2 DEF Stacks
    <3> QED BY <3>1, <3>3, OneStackStep
  <2> QED BY <2>5, <2>6
<1>5. CASE MessageReturn(t)
  <2>1. calls' = [calls EXCEPT ![t] = Return(t)] /\ top.at > top.stop /\ told' = told
    BY <1>5 DEF MessageReturn, Top
  <2>2. Returns(t)
    BY <1>1, <2>1 DEF Returns
  <2>3. Stacks(t)
    BY <2>1, <2>2 DEF Stacks
  <2> QED BY <2>1, <2>3, OneStackStep
<1> QED BY <1>3, <1>4, <1>5 DEF MessageAll

(* A broadcast started by KickClient from an empty stack, or not. *)
LEMMA KickStacks ==
  ASSUME ServerInv, NEW t \in Thread, NEW u \in Thread, NEW c \in Client,
         calls[t] = <<>>, KickClient(t, c, <<>>)
  PROVE  Stacks(u)
<1>1. Fresh(MessageAllClients(NoClient)) /\ calls \in [Thread -> Seq(Call)]
  BY FreshCall DEF ServerInv, TypeOK
<1>2. PICK s : calls' = [calls EXCEPT ![t] = s] /\ s \in {<<MessageAllClients(NoClient)>>, <<>>}
  <2>1. Append(<<>>, MessageAllClients(NoClient)) = <<MessageAllClients(NoClient)>>
    OBVIOUS
  <2>2. /\ Announce = "always" \/ c \notin told =>
             calls' = [calls EXCEPT ![t] = Append(<<>>, MessageAllClients(NoClient))]
        /\ ~(Announce = "always" \/ c \notin told) => calls' = [calls EXCEPT ![t] = <<>>]
    BY DEF KickClient
  <2> QED BY <2>1, <2>2
<1>3. told \subseteq told'
  BY DEF KickClient
<1>4. calls'[t] = calls[t] \/ Starts(t)
  BY <1>1, <1>2 DEF Starts
<1>5. Stacks(t)
  BY <1>3, <1>4 DEF Stacks
<1> QED BY <1>2, <1>5, OneStackStep

LEMMA StacksStep ==
  ASSUME ServerInv, [Next]_vars, NEW u \in Thread
  PROVE  Stacks(u)
<1>0. "io" \in Thread /\ "main" \in Thread /\ calls \in [Thread -> Seq(Call)]
  BY DEF Thread, ServerInv, TypeOK
<1>1. CASE MessageAll("io") \/ MessageAll("main")
  BY <1>0, <1>1, MessageAllStacks
<1>2. ASSUME NEW c \in Client, ValidationFailed(c) PROVE Stacks(u)
  BY <1>0, <1>2, KickStacks DEF ValidationFailed, IOReady
<1>3. CASE OnMessage
  <2>1. remote \in Client /\ calls["main"] = <<>>
    BY <1>3 DEF OnMessage, MainReady, ServerInv, UpdateOK
  <2>2. CASE /\ calls' = [calls EXCEPT !["main"] = <<MessageAllClients(remote)>>]
             /\ told' = told
    <3>1. Starts("main")
      BY <1>0, <2>1, <2>2, FreshCall DEF Starts, ServerInv
    <3>2. Stacks("main")
      BY <2>2, <3>1 DEF Stacks
    <3> QED BY <1>0, <2>2, <3>2, OneStackStep
  <2>3. CASE KickClient("main", remote, <<>>)
    BY <1>0, <2>1, <2>3, KickStacks
  <2> QED BY <1>3, <2>2, <2>3 DEF OnMessage, Stacks
<1>4. CASE UpdateCheck
  <2>1. remote \in Client /\ calls["main"] = <<>>
    BY <1>4 DEF UpdateCheck, MainReady, ServerInv, UpdateOK
  <2>2. CASE KickClient("main", remote, <<>>)
    BY <1>0, <2>1, <2>2, KickStacks
  <2> QED BY <1>4, <2>2 DEF UpdateCheck, Stacks
<1>5. CASE UNCHANGED <<calls, told>>
  BY <1>5 DEF Stacks
<1>6. CASE Stop \/ UpdateCall \/ Pop \/ UpdateReturn \/ Accept \/ Deny \/ AcceptThrows
  BY <1>5, <1>6 DEF Stop, UpdateCall, Pop, UpdateReturn, Accept, Deny, AcceptThrows
<1>7. ASSUME NEW c \in Client,
             Validated(c) \/ Receive(c) \/ ReadFails(c) \/ Close(c) \/ WritesEnd(c)
      PROVE  Stacks(u)
  BY <1>5, <1>7 DEF Validated, Receive, ReadFails, Close, WritesEnd
<1>8. CASE UNCHANGED vars
  BY <1>5, <1>8 DEF vars
<1> QED BY <1>1, <1>2, <1>3, <1>4, <1>6, <1>7, <1>8 DEF Next, IOThread, MainThread, Update

-----------------------------------------------------------------------------
(* The container only grows, and a connection in it does not open again. *)
Persists ==
  /\ Len(conns) <= Len(conns')
  /\ \A i \in 1 .. Len(conns) :
       conns'[i] = conns[i] /\ (~IsConnected(conns[i]) => sock'[conns[i]] # "open")

LEMMA ClosesOnly ==
  ASSUME TypeOK, UNCHANGED conns, NEW c \in Client,
         sock' = sock \/ sock' = [sock EXCEPT ![c] = "closed"]
  PROVE  Persists
<1>1. /\ Len(conns) \in Nat /\ sock \in [Client -> {"none", "open", "closed"}]
      /\ \A i \in 1 .. Len(conns) : conns[i] \in Client
  BY ElementOfSeq DEF TypeOK
<1>2. ASSUME NEW d \in Client, ~IsConnected(d) PROVE sock'[d] # "open"
  BY <1>1, <1>2 DEF IsConnected
<1> QED BY <1>1, <1>2 DEF Persists

LEMMA ConnsPersist ==
  ASSUME ServerInv, AcceptedOnce, [Next]_vars
  PROVE  Persists /\ AcceptedOnce'
<1> USE DEF ServerInv
<1>1. CASE Accept
  <2> DEFINE c == accepted + 1
  <2>1. /\ conns \in Seq(Client) /\ Len(conns) \in Nat
        /\ c \in Client /\ accepted \in Nat
        /\ \A i \in 1 .. Len(conns) : conns[i] \in Client
    <3>1. conns \in Seq(Client) /\ accepted \in 0 .. MaxClients
      BY DEF TypeOK
    <3>2. c \in Client /\ accepted \in Nat
      BY <1>1, <3>1, BoundsAssumption DEF Accept, Client
    <3> QED BY <3>1, <3>2, ElementOfSeq
  <2>2. /\ accepted' = c /\ conns' = Append(conns, c)
        /\ sock' = [sock EXCEPT ![c] = "open"]
    BY <1>1 DEF Accept
  <2>3. /\ Len(conns') = Len(conns) + 1 /\ conns'[Len(conns) + 1] = c
        /\ \A i \in 1 .. Len(conns) : conns'[i] = conns[i]
    BY <2>1, <2>2
  <2>4. \A i \in 1 .. Len(conns) : conns[i] # c
    BY <2>1 DEF AcceptedOnce, Client
  <2>5. Persists
    <3>1. \A i \in 1 .. Len(conns) : sock'[conns[i]] = sock[conns[i]]
      BY <2>1, <2>2, <2>4 DEF TypeOK
    <3> QED BY <2>1, <2>3, <3>1 DEF Persists, IsConnected
  <2>6. \A i \in 1 .. Len(conns') : conns'[i] <= accepted'
    BY <2>1, <2>2, <2>3 DEF AcceptedOnce, Client
  <2> QED BY <2>5, <2>6 DEF AcceptedOnce
<1>2. CASE Deny
  <2>1. accepted + 1 \in Client /\ accepted \in Nat
    BY <1>2, BoundsAssumption DEF Deny, TypeOK, Client
  <2>2. \A i \in 1 .. Len(conns) : conns[i] \in Client
    BY ElementOfSeq DEF TypeOK
  <2>3. AcceptedOnce'
    BY <1>2, <2>1, <2>2 DEF Deny, AcceptedOnce, Client
  <2> QED BY <1>2, <2>1, <2>3, ClosesOnly DEF Deny
<1>3. ASSUME Next, ~Accept, ~Deny PROVE UNCHANGED <<conns, accepted>>
  BY <1>3
  DEF Next, IOThread, MainThread, Update, MessageAll, AcceptThrows, Validated,
      ValidationFailed, Receive, ReadFails, Close, WritesEnd, MessageNext, KickNext,
      MessageReturn, UpdateCall, Pop, UpdateReturn, OnMessage, UpdateCheck, Stop, KickClient
<1>4. ASSUME Next, ~Accept, ~Deny
      PROVE  sock' = sock \/ \E c \in Client : sock' = [sock EXCEPT ![c] = "closed"]
  BY <1>4
  DEF Next, IOThread, MainThread, Update, MessageAll, AcceptThrows, Validated,
      ValidationFailed, Receive, ReadFails, Close, WritesEnd, MessageNext, KickNext,
      MessageReturn, UpdateCall, Pop, UpdateReturn, OnMessage, UpdateCheck, Stop, connection
<1>5. CASE Next /\ ~Accept /\ ~Deny
  <2>1. CASE sock' = sock
    BY <1>3, <1>5, <2>1 DEF Persists, AcceptedOnce, IsConnected, TypeOK
  <2>2. ASSUME NEW c \in Client, sock' = [sock EXCEPT ![c] = "closed"] PROVE Persists
    BY <1>3, <1>5, <2>2, ClosesOnly
  <2> QED BY <1>3, <1>4, <1>5, <2>1, <2>2 DEF AcceptedOnce
<1>6. CASE UNCHANGED vars
  BY <1>6 DEF vars, connection, Persists, AcceptedOnce, IsConnected, TypeOK
<1> QED BY <1>1, <1>2, <1>5, <1>6

LEMMA SentKept ==
  ASSUME TypeOK, Persists, NEW call \in Call, call.stop <= Len(conns), Sent(call)
  PROVE  Sent(call)'
<1>1. call.stop \in Nat /\ Len(conns) \in Nat
  <2>1. call.stop \in Nat
    BY DEF Call
  <2>2. Len(conns) \in Nat
    BY DEF TypeOK
  <2> QED BY <2>1, <2>2
<1> SUFFICES ASSUME NEW i \in 1 .. call.stop, i < call.at
             PROVE  (conns[i] \in call.sentTo \cup {call.ignore} \/ ~IsConnected(conns[i]))'
  BY DEF Sent
<1>2. conns'[i] = conns[i] /\ (~IsConnected(conns[i]) => sock'[conns[i]] # "open")
  BY <1>1 DEF Persists
<1>3. conns[i] \in call.sentTo \cup {call.ignore} \/ ~IsConnected(conns[i])
  BY DEF Sent
<1> QED BY <1>2, <1>3 DEF IsConnected

LEMMA SentAdvances ==
  ASSUME ServerInv, NEW t \in Thread, calls[t] # <<>>, Sent(Top(t)), NEW call, Advanced(t, call)
  PROVE  Sent(call)
<1> DEFINE top == Top(t)
<1>1. top \in Call /\ top.at \in Nat /\ call.stop = top.stop /\ call.at = top.at + 1
      /\ call.stop \in Nat
  BY TopCall, CallType DEF Advanced
<1> SUFFICES ASSUME NEW i \in 1 .. call.stop, i < call.at
             PROVE  conns[i] \in call.sentTo \cup {call.ignore} \/ ~IsConnected(conns[i])
  BY DEF Sent
<1>2. CASE i = top.at
  BY <1>2 DEF Advanced
<1>3. CASE i # top.at
  <2>1. i \in 1 .. top.stop /\ i < top.at
    <3> HIDE DEF top
    <3> QED BY <1>1, <1>3
  <2>2. conns[i] \in top.sentTo \cup {top.ignore} \/ ~IsConnected(conns[i])
    BY <2>1 DEF Sent
  <2> QED BY <2>2 DEF Advanced
<1> QED BY <1>2, <1>3

(* The lengths and the elements of the stacks that steps make. *)
LEMMA StackElements ==
  ASSUME NEW s \in Seq(Call), s # <<>>, NEW x \in Call, NEW y \in Call
  PROVE  LET r == SubSeq(s, 1, Len(s) - 1)
         IN  /\ r \in Seq(Call) /\ Len(r) = Len(s) - 1 /\ Len(s) \in Nat \ {0}
             /\ \A k \in 1 .. Len(r) : r[k] = s[k]
             /\ Len(Append(r, x)) = Len(s)
             /\ \A k \in 1 .. Len(s) : Append(r, x)[k] = s[k] \/ Append(r, x)[k] = x
             /\ Len(Append(Append(r, x), y)) = Len(s) + 1
             /\ \A k \in 1 .. Len(s) + 1 :
                  Append(Append(r, x), y)[k] \in {x, y} \cup {s[j] : j \in 1 .. Len(s)}
<1> DEFINE n == Len(s) - 1
           r == SubSeq(s, 1, n)
<1>1. Len(s) \in Nat \ {0} /\ n \in Nat /\ Len(s) = n + 1
  BY EmptySeq
<1>2. r \in Seq(Call) /\ Len(r) = n /\ \A k \in 1 .. n : r[k] = s[k]
  <2>1. 1 \in Int /\ n \in Int /\ \A i \in 1 .. n : s[i] \in Call
    BY <1>1, ElementOfSeq
  <2>2. n - 1 + 1 = n /\ (IF 1 <= n THEN n - 1 + 1 ELSE 0) = n /\ \A i \in 1 .. n : 1 + i - 1 = i
    BY <1>1
  <2>3. /\ r \in Seq(Call)
        /\ Len(r) = IF 1 <= n THEN n - 1 + 1 ELSE 0
        /\ \A i \in 1 .. n - 1 + 1 : r[i] = s[1 + i - 1]
    <3> HIDE DEF n
    <3> QED BY <2>1, SubSeqProperties
  <2> HIDE DEF n, r
  <2> QED BY <2>2, <2>3
<1> HIDE DEF r, n
<1>4. /\ Append(r, x) \in Seq(Call) /\ Len(Append(r, x)) = n + 1
      /\ \A k \in 1 .. n : Append(r, x)[k] = r[k]
      /\ Append(r, x)[n + 1] = x
  BY <1>1, <1>2
<1> DEFINE q == Append(r, x)
<1> HIDE DEF q
<1>5. /\ Len(Append(q, y)) = n + 2
      /\ \A k \in 1 .. n + 1 : Append(q, y)[k] = q[k]
      /\ Append(q, y)[n + 2] = y
  BY <1>1, <1>4 DEF q
<1>6. \A k \in 1 .. n + 1 : q[k] = s[k] \/ q[k] = x
  BY <1>1, <1>2, <1>4 DEF q
<1>7. \A k \in 1 .. n + 2 : Append(q, y)[k] \in {x, y} \cup {s[j] : j \in 1 .. n + 1}
  BY <1>1, <1>5, <1>6
<1>8. /\ r \in Seq(Call) /\ Len(r) = Len(s) - 1 /\ Len(s) \in Nat \ {0}
      /\ \A k \in 1 .. Len(r) : r[k] = s[k]
      /\ Len(q) = Len(s)
      /\ \A k \in 1 .. Len(s) : q[k] = s[k] \/ q[k] = x
      /\ Len(Append(q, y)) = Len(s) + 1
      /\ \A k \in 1 .. Len(s) + 1 : Append(q, y)[k] \in {x, y} \cup {s[j] : j \in 1 .. Len(s)}
  <2>1. Len(s) + 1 = n + 2 /\ n = Len(s) - 1
    BY <1>1
  <2>2. Len(q) = n + 1
    BY <1>4 DEF q
  <2> QED BY <1>1, <1>2, <1>5, <1>6, <1>7, <2>1, <2>2
<1> QED BY <1>8 DEF q, r, n

LEMMA SentNext ==
  ASSUME ServerInv, AcceptedOnce, StacksSent, [Next]_vars
  PROVE  StacksSent'
<1> SUFFICES ASSUME NEW t \in Thread, NEW k \in 1 .. Len(calls'[t]), NEW x, x = calls'[t][k]
             PROVE  Sent(x)'
  BY DEF StacksSent
<1> DEFINE s == calls[t]
           top == Top(t)
<1>1. /\ s \in Seq(Call) /\ TypeOK /\ Persists
      /\ \A j \in 1 .. Len(s) : s[j] \in Call /\ s[j].stop <= Len(conns)
  BY ConnsPersist, ElementOfSeq DEF ServerInv, CallsOK, StackOK
<1>2. ASSUME NEW j \in 1 .. Len(s), NEW y, y = s[j] PROVE Sent(y)'
  <2>1. y \in Call /\ y.stop <= Len(conns) /\ Sent(y)
    BY <1>1, <1>2 DEF StacksSent
  <2> QED BY <1>1, <2>1, SentKept
<1>3. ASSUME s # <<>>, NEW call, Advanced(t, call) PROVE Sent(call)'
  <2>1. Len(s) \in 1 .. Len(s)
    BY <1>1, <1>3, EmptySeq
  <2>2. Sent(top)
    BY <2>1 DEF StacksSent, Top
  <2>3. call \in Call /\ call.stop <= Len(conns)
    BY <1>3, TopCall DEF Advanced
  <2> QED BY <1>1, <1>3, <2>2, <2>3, SentAdvances, SentKept
<1>4. ASSUME NEW call, Fresh(call) PROVE Sent(call)'
  <2>1. call.at = 1
    BY <1>4 DEF Fresh
  <2>2. \A i \in 1 .. call.stop : ~(i < call.at)
    BY <2>1
  <2> QED BY <2>2 DEF Sent
<1>5. Stacks(t)
  BY StacksStep
<1>6. CASE calls'[t] = s
  BY <1>2, <1>6
<1>7. CASE Returns(t)
  <2>1. calls'[t] = SubSeq(s, 1, Len(s) - 1) /\ s # <<>>
    BY <1>7 DEF Returns, Return
  <2>2. PICK call \in Call : TRUE
    BY <1>7, TopCall DEF Returns
  <2>3. /\ Len(calls'[t]) = Len(s) - 1 /\ Len(s) \in Nat
        /\ \A j \in 1 .. Len(calls'[t]) : calls'[t][j] = s[j]
    BY <1>1, <2>1, <2>2, StackElements
  <2>4. k \in 1 .. Len(s) /\ calls'[t][k] = s[k]
    BY <2>3
  <2> QED BY <1>2, <2>4
<1>8. CASE Proceeds(t)
  <2>1. PICK call : Advanced(t, call) /\ calls'[t] = Append(SubSeq(s, 1, Len(s) - 1), call)
    BY <1>8 DEF Proceeds, Return
  <2>2. call \in Call /\ s # <<>>
    BY <1>8, <2>1 DEF Advanced, Proceeds
  <2>3. /\ Len(calls'[t]) = Len(s)
        /\ \A j \in 1 .. Len(s) : calls'[t][j] = s[j] \/ calls'[t][j] = call
    BY <1>1, <2>1, <2>2, StackElements
  <2>4. CASE calls'[t][k] = s[k]
    BY <1>2, <2>3, <2>4
  <2>5. CASE calls'[t][k] = call
    BY <1>3, <2>1, <2>2, <2>5
  <2> QED BY <2>3, <2>4, <2>5
<1>9. CASE Nests(t)
  <2>1. PICK call, new : /\ Advanced(t, call) /\ Fresh(new)
                         /\ calls'[t] = Append(Append(SubSeq(s, 1, Len(s) - 1), call), new)
    BY <1>9 DEF Nests, Return
  <2>2. call \in Call /\ new \in Call /\ s # <<>>
    BY <1>9, <2>1 DEF Advanced, Fresh, Nests
  <2>3. /\ Len(calls'[t]) = Len(s) + 1
        /\ \A j \in 1 .. Len(s) + 1 : calls'[t][j] \in {call, new} \cup {s[i] : i \in 1 .. Len(s)}
    BY <1>1, <2>1, <2>2, StackElements
  <2>4. calls'[t][k] = call \/ calls'[t][k] = new \/ \E i \in 1 .. Len(s) : calls'[t][k] = s[i]
    BY <2>3
  <2> QED BY <1>2, <1>3, <1>4, <2>1, <2>2, <2>4
<1>10. CASE Starts(t)
  <2>1. PICK new : Fresh(new) /\ calls'[t] = <<new>>
    BY <1>10 DEF Starts
  <2>2. calls'[t][k] = new
    BY <2>1
  <2> QED BY <1>4, <2>1, <2>2
<1> QED BY <1>5, <1>6, <1>7, <1>8, <1>9, <1>10 DEF Stacks

LEMMA ReachedOnReturn ==
  ASSUME ServerInv, StacksSent, [Next]_vars, NEW t \in Thread,
         Len(calls'[t]) < Len(calls[t])
  PROVE  Reached(Top(t))
<1> DEFINE s == calls[t]
<1>1. s \in Seq(Call) /\ Len(s) \in Nat /\ Stacks(t)
  BY StacksStep DEF ServerInv, TypeOK
<1>2. ~Proceeds(t)
  <2> SUFFICES ASSUME Proceeds(t) PROVE FALSE
    OBVIOUS
  <2>1. PICK call : Advanced(t, call) /\ calls'[t] = Append(SubSeq(s, 1, Len(s) - 1), call)
    BY DEF Proceeds, Return
  <2>2. call \in Call /\ s # <<>>
    BY <2>1 DEF Advanced, Proceeds
  <2>3. Len(calls'[t]) = Len(s)
    BY <1>1, <2>1, <2>2, StackElements
  <2> QED BY <1>1, <2>3
<1>3. ~Nests(t)
  <2> SUFFICES ASSUME Nests(t) PROVE FALSE
    OBVIOUS
  <2>1. PICK call, new : /\ Advanced(t, call) /\ Fresh(new)
                         /\ calls'[t] = Append(Append(SubSeq(s, 1, Len(s) - 1), call), new)
    BY DEF Nests, Return
  <2>2. call \in Call /\ new \in Call /\ s # <<>>
    BY <2>1 DEF Advanced, Fresh, Nests
  <2>3. Len(calls'[t]) = Len(s) + 1
    BY <1>1, <2>1, <2>2, StackElements
  <2> QED BY <1>1, <2>3
<1>4. Returns(t)
  <2>1. calls'[t] # s /\ s # <<>>
    BY <1>1, EmptySeq
  <2> QED BY <1>1, <1>2, <1>3, <2>1 DEF Stacks, Starts
<1>5. Top(t) \in Call /\ Top(t).at > Top(t).stop /\ Sent(Top(t))
  <2>1. Len(s) \in 1 .. Len(s)
    BY <1>1, <1>4, EmptySeq DEF Returns
  <2> QED BY <1>4, <2>1, TopCall DEF Returns, StacksSent, Top
<1>6. Top(t).at \in Nat /\ Top(t).stop \in Nat
  BY <1>5, CallType
<1>7. \A i \in 1 .. Top(t).stop : i < Top(t).at
  BY <1>5, <1>6
<1> QED BY <1>5, <1>7 DEF Sent, Reached

LEMMA BoundedNext ==
  ASSUME ServerInv, Announce = "once", StacksBounded, [Next]_vars
  PROVE  StacksBounded'
<1> SUFFICES ASSUME NEW t \in Thread PROVE Len(calls'[t]) <= Cardinality(told') + 1
  BY DEF StacksBounded
<1> DEFINE s == calls[t]
<1>1. s \in Seq(Call) /\ Len(s) \in Nat /\ Stacks(t) /\ Len(s) <= Cardinality(told) + 1
  BY StacksStep DEF ServerInv, TypeOK, StacksBounded
<1>2. IsFiniteSet(told) /\ IsFiniteSet(told')
  <2>1. IsFiniteSet(Client)
    BY BoundsAssumption, FS_Interval DEF Client
  <2>2. told \subseteq Client /\ told' \subseteq Client
    BY ServerNext DEF ServerInv, TypeOK
  <2> QED BY <2>1, <2>2, FS_Subset
<1>3. /\ Cardinality(told) \in Nat /\ Cardinality(told') \in Nat
      /\ Cardinality(told) <= Cardinality(told')
  BY <1>1, <1>2, FS_CardinalityType, FS_Subset DEF Stacks
<1>4. CASE calls'[t] = s
  BY <1>1, <1>3, <1>4
<1>5. CASE Returns(t)
  <2>1. calls'[t] = SubSeq(s, 1, Len(s) - 1) /\ s # <<>>
    BY <1>5 DEF Returns, Return
  <2>2. PICK call \in Call : TRUE
    BY <1>5, TopCall DEF Returns
  <2>3. Len(calls'[t]) = Len(s) - 1
    BY <1>1, <2>1, <2>2, StackElements
  <2> QED BY <1>1, <1>3, <2>3
<1>6. CASE Proceeds(t)
  <2>1. PICK call : Advanced(t, call) /\ calls'[t] = Append(SubSeq(s, 1, Len(s) - 1), call)
    BY <1>6 DEF Proceeds, Return
  <2>2. call \in Call /\ s # <<>>
    BY <1>6, <2>1 DEF Advanced, Proceeds
  <2>3. Len(calls'[t]) = Len(s)
    BY <1>1, <2>1, <2>2, StackElements
  <2> QED BY <1>1, <1>3, <2>3
<1>7. CASE Nests(t)
  <2>1. PICK call, new : /\ Advanced(t, call) /\ Fresh(new)
                         /\ calls'[t] = Append(Append(SubSeq(s, 1, Len(s) - 1), call), new)
    BY <1>7 DEF Nests, Return
  <2>2. call \in Call /\ new \in Call /\ s # <<>>
    BY <1>7, <2>1 DEF Advanced, Fresh, Nests
  <2>3. Len(calls'[t]) = Len(s) + 1
    BY <1>1, <2>1, <2>2, StackElements
  <2>4. Cardinality(told') = Cardinality(told) + 1
    BY <1>2, <1>7, FS_AddElement DEF Nests, Tells
  <2> QED BY <1>1, <1>3, <2>3, <2>4
<1>8. CASE Starts(t)
  BY <1>3, <1>8 DEF Starts
<1> QED BY <1>1, <1>4, <1>5, <1>6, <1>7, <1>8 DEF Stacks

(***************************************************************************)
(* However the threads interleave, callbacks nest and connections come and *)
(* go: a MessageAllClients that returns has sent to all that were listed   *)
(* when it began, except the one to ignore and those closed by now.        *)
(***************************************************************************)
THEOREM BroadcastReachesAll == Spec => AllReached
<1>1. Init => AcceptedOnce /\ StacksSent
  BY DEF Init, AcceptedOnce, StacksSent
<1>2. ServerInv /\ AcceptedOnce /\ StacksSent /\ [Next]_vars =>
        ServerInv' /\ AcceptedOnce' /\ StacksSent'
  BY ServerNext, ConnsPersist, SentNext
<1>3. ServerInv /\ StacksSent /\ [Next]_vars =>
        \A t \in Thread : Len(calls'[t]) < Len(calls[t]) => Reached(calls[t][Len(calls[t])])
  BY ReachedOnReturn DEF Top
<1> QED BY <1>1, <1>2, <1>3, ServerInit, PTL DEF Spec, AllReached

(***************************************************************************)
(* Of an OnClientDisconnect that announces each client once, no more calls *)
(* are nested on a stack than there are clients, whatever the bound on it. *)
(***************************************************************************)
THEOREM AnnouncingOnceEnds ==
  ASSUME Announce = "once"
  PROVE  Spec => []AnnouncementEnds
<1>1. Init => StacksBounded
  <2>1. Cardinality({}) = 0
    BY FS_EmptySet
  <2> QED BY <2>1 DEF Init, StacksBounded
<1>2. ServerInv /\ StacksBounded /\ [Next]_vars => ServerInv' /\ StacksBounded'
  BY ServerNext, BoundedNext
<1>3. ServerInv /\ StacksBounded => AnnouncementEnds
  <2> SUFFICES ASSUME ServerInv, StacksBounded, NEW t \in Thread
               PROVE  Len(calls[t]) <= MaxClients + 1
    BY DEF AnnouncementEnds
  <2>1. IsFiniteSet(Client) /\ Cardinality(Client) = MaxClients
    BY BoundsAssumption, FS_Interval DEF Client
  <2>2. Cardinality(told) <= MaxClients /\ Cardinality(told) \in Nat
    BY <2>1, FS_Subset, FS_CardinalityType DEF ServerInv, TypeOK
  <2> QED BY <2>2, BoundsAssumption DEF StacksBounded, ServerInv, TypeOK
<1> QED BY <1>1, <1>2, <1>3, ServerInit, PTL DEF Spec
=============================================================================
