--------------------------- MODULE ExamplesProofs ---------------------------
(***************************************************************************)
(* Proofs about the parts that MCExamples puts side by side: the client's  *)
(* side of the library, ClientInterface and the Message it sends and       *)
(* receives, and the tic-tac-toe example.                                  *)
(*                                                                         *)
(* ClientInterface: its types, that no queue is popped empty, and that     *)
(* nothing touches a connection once it is given up, nor the queue of a    *)
(* client that is down.  What makes the latter inductive: a handler runs   *)
(* only on the io thread, which has been joined when Disconnect() lets go  *)
(* of the connection; a thread that a later Connect() starts finds the     *)
(* io_context stopped, and what is still posted to it stays there.         *)
(*                                                                         *)
(* Message: its types, and that >> undoes << for any sizes of values, any  *)
(* length of body and any values between the bytes of others.  The         *)
(* invariant is that the history accounts for the end of the body: the     *)
(* bytes of each value lie on what was below it, and on them lies the next *)
(* one, up to the end.  Peel is the arithmetic of one extraction.          *)
(*                                                                         *)
(* TicTacToe: its types, and for any number of players who all answer      *)
(* their challenge rightly, that no move is ever invalid and, while nobody *)
(* leaves, that the boards agree, that one player has the turn and that    *)
(* the winner announced is the one with three in a line.  A wrong answer   *)
(* leaves nothing of this.  While nobody leaves there is a Lobby, where    *)
(* nothing has been sent, and then a Game: two of the clients have the two *)
(* symbols, each client and the messages under way to it together make the *)
(* server's board (Informed), and the turn is in one place, with its       *)
(* holder or on its way (Turns).  Who leaves takes nothing of this from    *)
(* the others, up to the next move the server handles: that one finds the  *)
(* connection closed and clears the board, and on an empty board every     *)
(* move is valid.                                                          *)
(***************************************************************************)
EXTENDS MCExamples, SequenceTheorems, FiniteSetTheorems, TLAPS

(* ClientInterface *)

\* The queue holds what has been received and not been taken out.
Received == qin <= received

\* A handler runs on the io thread.
OnThread == busy => thrContext = "running"

\* After join() there is no io thread.
Joined == pc \in {"release", "down", "gone"} => thrContext = "none"

\* From stop() on the io_context is stopped.
Stopped == pc \in {"join", "release", "down", "gone"} => stopped

\* What has been seen in the queue is there until it is popped.
Tested == pc = "pop" => qin > 0

\* No handler is in progress, and none will be any more.
Still == stopped /\ ~busy

\* A close that may run is that of the connection held, which Disconnect() is
\* about to give up.
Closes == closing = {} \/ Still \/ (pc \in {"stop", "join"} /\ closing = {m_connection})

\* A connection given up has no operation that may complete.
Unheard == \A k \in Conn : GivenUp(k) => Still \/ op[k] = "none"

ClientInv ==
  /\ ClientTypeOK /\ Received /\ OnThread /\ Joined /\ Stopped /\ Tested
  /\ Closes
  /\ crash = "no" => Unheard

-----------------------------------------------------------------------------
LEMMA ClientInitInv == ClientInit => ClientInv
<1> SUFFICES ASSUME ClientInit PROVE ClientInv
  OBVIOUS
<1>1. m_connection \in Conn \cup {NoConn} /\ closing \in SUBSET Conn
  BY DEF ClientInit
<1>2. /\ sock \in [Conn -> {"none", "open", "closed"}]
      /\ op \in [Conn -> {"none", "connect", "validate", "read"}]
  BY DEF ClientInit
<1>3. made \in 0 .. MaxConnects /\ qin \in 0 .. MaxMessages /\ received \in 0 .. MaxMessages
  BY ClientAssumption DEF ClientInit
<1>4. stopped \in BOOLEAN /\ busy \in BOOLEAN
  BY DEF ClientInit
<1>5. /\ thrContext \in {"none", "running", "ended"}
      /\ pc \in AppPC
      /\ crash \in {"no", "terminate", "dangling"}
  BY DEF ClientInit, AppPC
<1>6. Received /\ OnThread /\ Joined /\ Stopped /\ Tested /\ Closes /\ Unheard
  BY ClientAssumption DEF ClientInit, Received, OnThread, Joined, Stopped, Tested, Closes, Unheard,
     GivenUp, NoConn, Conn
<1> QED BY <1>1, <1>2, <1>3, <1>4, <1>5, <1>6 DEF ClientInv, ClientTypeOK

LEMMA ResolveFailsInv ==
  ASSUME ClientInv, ResolveFails
  PROVE  ClientInv'
<1> USE DEF ClientInv, connObject, ioState, ioThread, inbox, ResolveFails, Refused
<1>1. ClientTypeOK'
  BY DEF ClientTypeOK, AppPC, Conn
<1>2. Received' /\ OnThread' /\ Joined' /\ Stopped' /\ Tested'
  BY DEF Received, OnThread, Joined, Stopped, Tested
<1>3. Closes' /\ (crash' = "no" => Unheard')
  BY DEF Closes, Still, Unheard, GivenUp
<1> QED BY <1>1, <1>2, <1>3

\* make_unique: the connection that is replaced has nothing outstanding, or
\* the program has come to its end.
LEMMA ConnectInv ==
  ASSUME ClientInv, Connect
  PROVE  ClientInv'
<1> USE DEF ClientInv, connObject, ioState, ioThread, inbox, Connect
<1>1. made' \in Conn /\ made' = made + 1 /\ made \in Nat /\ m_connection' = made'
  BY ClientAssumption DEF ClientTypeOK, Conn
<1>2. sock' \in [Conn -> {"none", "open", "closed"}]
  BY DEF ClientTypeOK
<1>3. op' \in [Conn -> {"none", "connect", "validate", "read"}]
  BY DEF ClientTypeOK
<1>4. ClientTypeOK'
  BY <1>1, <1>2, <1>3 DEF ClientTypeOK, AppPC, Conn
<1>5. Received' /\ OnThread' /\ Joined' /\ Stopped' /\ Tested'
  BY DEF Received, OnThread, Joined, Stopped, Tested
<1>6. Closes'
  BY DEF Closes, Still
<1>7. ASSUME crash' = "no", NEW k \in Conn, GivenUp(k)' PROVE Still' \/ op'[k] = "none"
  <2>1. crash = "no" /\ (m_connection # NoConn => op[m_connection] = "none")
    BY <1>7
  <2>2. k # made' /\ k <= made
    BY <1>1, <1>7 DEF GivenUp, Conn
  <2>3. op'[k] = op[k] /\ Still' = Still
    BY <2>2 DEF ClientTypeOK, Still
  <2>4. k # NoConn
    BY DEF Conn, NoConn
  <2>5. CASE k = m_connection
    BY <2>1, <2>3, <2>4, <2>5
  <2>6. CASE k # m_connection
    BY <2>1, <2>2, <2>3, <2>6 DEF Unheard, GivenUp
  <2> QED BY <2>5, <2>6
<1> QED BY <1>4, <1>5, <1>6, <1>7 DEF Unheard

\* The application's other actions up to a connection that is up.
LEMMA ConnectingInv ==
  ASSUME ClientInv, StartThread \/ ConnectReturns
  PROVE  ClientInv'
<1> USE DEF ClientInv, connObject, ioState, ioThread, inbox, StartThread, ConnectReturns, Refused
<1>1. ClientTypeOK'
  BY DEF ClientTypeOK, AppPC, Conn
<1>2. Received' /\ OnThread' /\ Joined' /\ Stopped' /\ Tested'
  BY DEF Received, OnThread, Joined, Stopped, Tested
<1>3. Closes' /\ (crash' = "no" => Unheard')
  BY DEF Closes, Still, Unheard, GivenUp
<1> QED BY <1>1, <1>2, <1>3

\* Taking messages out: only this thread does, so what it has seen is there.
LEMMA TakingInv ==
  ASSUME ClientInv, NextMessage \/ PopFront
  PROVE  ClientInv' /\ crash' = crash
<1> USE DEF ClientInv, connObject, ioState, ioThread, inbox, NextMessage, PopFront
<1>1. qin \in Nat /\ received \in Nat /\ qin <= received /\ (pc = "pop" => qin > 0)
  BY ClientAssumption DEF ClientTypeOK, Received, Tested
<1>2. crash' = crash /\ qin' \in 0 .. MaxMessages /\ qin' <= received'
  BY <1>1, ClientAssumption DEF ClientTypeOK
<1>3. ClientTypeOK'
  BY <1>2 DEF ClientTypeOK, AppPC, Conn
<1>4. Received' /\ OnThread' /\ Joined' /\ Stopped' /\ Tested'
  BY <1>1, <1>2 DEF Received, OnThread, Joined, Stopped, Tested
<1>5. Closes' /\ (crash' = "no" => Unheard')
  BY <1>2 DEF Closes, Still, Unheard, GivenUp
<1> QED BY <1>2, <1>3, <1>4, <1>5

\* Disconnect(): the close it posts is that of the connection it holds, and
\* when it gives that up the io thread has come to its end.
LEMMA LeavingInv ==
  ASSUME ClientInv, Disconnect
  PROVE  ClientInv'
<1> USE DEF ClientInv, connObject, ioState, ioThread, inbox
<1>1. CASE DisconnectPost
  <2>1. ClientTypeOK'
    BY <1>1 DEF DisconnectPost, IsConnected, ClientTypeOK, AppPC, NoConn, Conn
  <2>2. Received' /\ OnThread' /\ Joined' /\ Stopped' /\ Tested'
    BY <1>1 DEF DisconnectPost, Received, OnThread, Joined, Stopped, Tested
  <2>3. Closes'
    BY <1>1 DEF DisconnectPost, Closes, Still
  <2>4. crash' = "no" => Unheard'
    BY <1>1 DEF DisconnectPost, Unheard, GivenUp, Still
  <2> QED BY <2>1, <2>2, <2>3, <2>4
<1>2. CASE DisconnectStop
  <2>1. ClientTypeOK'
    BY <1>2 DEF DisconnectStop, ClientTypeOK, AppPC, Conn
  <2>2. Received' /\ OnThread' /\ Joined' /\ Stopped' /\ Tested'
    BY <1>2 DEF DisconnectStop, Received, OnThread, Joined, Stopped, Tested
  <2>3. Closes' /\ (crash' = "no" => Unheard')
    BY <1>2 DEF DisconnectStop, Closes, Still, Unheard, GivenUp
  <2> QED BY <2>1, <2>2, <2>3
<1>3. CASE DisconnectJoin
  <2>1. ClientTypeOK'
    BY <1>3 DEF DisconnectJoin, ClientTypeOK, AppPC, Conn
  <2>2. Still'
    BY <1>3 DEF DisconnectJoin, OnThread, Stopped, Still, ClientTypeOK
  <2>3. Received' /\ OnThread' /\ Joined' /\ Stopped' /\ Tested'
    BY <1>3, <2>2 DEF DisconnectJoin, Received, OnThread, Joined, Stopped, Tested, Still
  <2> QED BY <2>1, <2>2, <2>3 DEF Closes, Unheard
<1>4. CASE DisconnectRelease
  <2>1. ClientTypeOK'
    BY <1>4 DEF DisconnectRelease, ClientTypeOK, AppPC, Conn
  <2>2. Still'
    BY <1>4 DEF DisconnectRelease, OnThread, Joined, Stopped, Still, ClientTypeOK
  <2>3. Received' /\ OnThread' /\ Joined' /\ Stopped' /\ Tested'
    BY <1>4 DEF DisconnectRelease, Received, OnThread, Joined, Stopped, Tested
  <2> QED BY <2>1, <2>2, <2>3 DEF Closes, Unheard
<1> QED BY <1>1, <1>2, <1>3, <1>4 DEF Disconnect

\* A handler at work: it is of the connection held, and leaves the others
\* without an operation.
LEMMA AtWork ==
  ASSUME ClientInv, crash = "no", busy, NEW k \in Conn,
         op[k] # "none" \/ k \in closing
  PROVE  ~GivenUp(k)
BY DEF ClientInv, ClientTypeOK, Unheard, Closes, Still, GivenUp

LEMMA ChainInv ==
  ASSUME ClientInv, crash = "no", NEW k \in Conn,
         NEW from \in {"connect", "validate", "read"},
         NEW to \in {"none", "validate", "read"}, Proceed(k, from, to),
         sock' \in [Conn -> {"none", "open", "closed"}],
         qin' \in 0 .. MaxMessages, received' \in 0 .. MaxMessages,
         qin' <= received', qin <= qin'
  PROVE  ClientInv'
<1> USE DEF ClientInv, connObject, ioThread, Proceed
<1>1. op' \in [Conn -> {"none", "connect", "validate", "read"}]
  BY DEF ClientTypeOK
<1>2. ClientTypeOK'
  BY <1>1 DEF ClientTypeOK
<1>3. Received' /\ OnThread' /\ Joined' /\ Stopped'
  BY DEF Received, OnThread, Joined, Stopped
<1>4. Tested'
  BY ClientAssumption DEF Tested, ClientTypeOK
<1>5. Closes'
  BY DEF Closes, Still
<1>6. ASSUME NEW d \in Conn, GivenUp(d)' PROVE Still' \/ op'[d] = "none"
  <2>1. ~GivenUp(k) /\ GivenUp(d)
    BY <1>6, AtWork DEF GivenUp, ClientTypeOK
  <2>2. op'[d] = op[d]
    BY <2>1 DEF ClientTypeOK
  <2> QED BY <2>1, <2>2 DEF Unheard, Still
<1> QED BY <1>2, <1>3, <1>4, <1>5, <1>6 DEF Unheard

\* The io thread.
LEMMA IOThreadInv ==
  ASSUME ClientInv, crash = "no", TakeUp \/ IOHandler \/ RunReturns
  PROVE  ClientInv'
<1> USE DEF connObject, ioState, ioThread, inbox
<1>1. CASE TakeUp
  <2> USE DEF ClientInv
  <2>1. ClientTypeOK'
    BY <1>1 DEF TakeUp, ClientTypeOK, AppPC, Conn
  <2>2. Received' /\ OnThread' /\ Joined' /\ Stopped' /\ Tested'
    BY <1>1 DEF TakeUp, Received, OnThread, Joined, Stopped, Tested
  <2>3. Closes' /\ (crash' = "no" => Unheard')
    BY <1>1 DEF TakeUp, Closes, Still, Unheard, GivenUp
  <2> QED BY <2>1, <2>2, <2>3
<1>2. ASSUME NEW k \in Conn, Connected(k) \/ ConnectFails(k) \/ Validated(k)
      PROVE  ClientInv'
  <2>1. UNCHANGED <<sock, qin, received>>
    BY <1>2 DEF Connected, ConnectFails, Validated
  <2>2. /\ sock' \in [Conn -> {"none", "open", "closed"}]
        /\ qin' \in 0 .. MaxMessages /\ received' \in 0 .. MaxMessages
        /\ qin' <= received' /\ qin <= qin'
    BY <2>1, ClientAssumption DEF ClientInv, ClientTypeOK, Received
  <2>3. \E from \in {"connect", "validate", "read"}, to \in {"none", "validate", "read"} :
          Proceed(k, from, to)
    BY <1>2 DEF Connected, ConnectFails, Validated
  <2> QED BY <2>2, <2>3, ChainInv
<1>3. ASSUME NEW k \in Conn, Receive(k)
      PROVE  ClientInv'
  <2>1. /\ sock' \in [Conn -> {"none", "open", "closed"}]
        /\ qin' \in 0 .. MaxMessages /\ received' \in 0 .. MaxMessages
        /\ qin' <= received' /\ qin <= qin'
    BY <1>3, ClientAssumption DEF Receive, ClientInv, ClientTypeOK, Received
  <2>2. Proceed(k, "read", "read")
    BY <1>3 DEF Receive
  <2> QED BY <2>1, <2>2, ChainInv
<1>4. ASSUME NEW k \in Conn, ReadFails(k)
      PROVE  ClientInv'
  <2>1. /\ sock' \in [Conn -> {"none", "open", "closed"}]
        /\ qin' \in 0 .. MaxMessages /\ received' \in 0 .. MaxMessages
        /\ qin' <= received' /\ qin <= qin'
    BY <1>4, ClientAssumption DEF ReadFails, ClientInv, ClientTypeOK, Received
  <2>2. \E from \in {"connect", "validate", "read"} : Proceed(k, from, "none")
    BY <1>4 DEF ReadFails
  <2> QED BY <2>1, <2>2, ChainInv
<1>5. ASSUME NEW k \in Conn, PostedClose(k)
      PROVE  ClientInv'
  <2> USE DEF ClientInv
  <2>1. ClientTypeOK'
    BY <1>5 DEF PostedClose, ClientTypeOK
  <2>2. Received' /\ OnThread' /\ Joined' /\ Stopped' /\ Tested'
    BY <1>5 DEF PostedClose, Received, OnThread, Joined, Stopped, Tested
  <2>3. Closes'
    BY <1>5 DEF PostedClose, Closes, Still
  <2>4. Unheard'
    BY <1>5 DEF PostedClose, Unheard, GivenUp, Still
  <2> QED BY <2>1, <2>2, <2>3, <2>4
<1>6. CASE RunReturns
  <2> USE DEF ClientInv
  <2>1. ClientTypeOK'
    BY <1>6 DEF RunReturns, ClientTypeOK, AppPC, Conn
  <2>2. Received' /\ OnThread' /\ Joined' /\ Stopped' /\ Tested'
    BY <1>6 DEF RunReturns, Received, OnThread, Joined, Stopped, Tested
  <2>3. Closes' /\ Unheard'
    BY <1>6 DEF RunReturns, Closes, Unheard, Still
  <2> QED BY <2>1, <2>2, <2>3
<1> QED BY <1>1, <1>2, <1>3, <1>4, <1>5, <1>6 DEF IOHandler

LEMMA ClientNextInv == ClientInv /\ [ClientNext]_clientVars => ClientInv'
<1> SUFFICES ASSUME ClientInv, [ClientNext]_clientVars PROVE ClientInv'
  OBVIOUS
<1>1. CASE ClientNext
  BY <1>1, ResolveFailsInv, ConnectInv, ConnectingInv, TakingInv, LeavingInv, IOThreadInv
     DEF ClientNext, AppThread, Alive
<1>2. CASE UNCHANGED clientVars
  <2> USE <1>2 DEF clientVars, connObject, ioState, ioThread, inbox, ClientInv
  <2>1. ClientTypeOK'
    BY DEF ClientTypeOK
  <2>2. Received' /\ OnThread' /\ Joined' /\ Stopped' /\ Tested'
    BY DEF Received, OnThread, Joined, Stopped, Tested
  <2>3. Closes' /\ (crash' = "no" => Unheard')
    BY DEF Closes, Still, Unheard, GivenUp
  <2> QED BY <2>1, <2>2, <2>3
<1> QED BY <1>1, <1>2

LEMMA ClientInvariant == ClientSpec => []ClientInv
<1> QED BY ClientInitInv, ClientNextInv, PTL DEF ClientSpec

\* Type correctness of the client on its two threads, for any number of calls
\* of Connect and Disconnect and any number of messages.  A pop of an empty
\* queue would be no value of crash: what is_empty() or wait() has seen is
\* still there when NextMessage pops, although the io thread uses the queue in
\* between.
THEOREM ClientTypeCorrect == ClientSpec => []ClientTypeOK
<1>1. ClientInv => ClientTypeOK
  BY DEF ClientInv
<1> QED BY <1>1, ClientInvariant, PTL

-----------------------------------------------------------------------------
\* A step leaves alone the connections that were given up, and the queue of a
\* client that is down.
LEMMA GivenUpIsQuiet ==
  ASSUME ClientInv, [ClientNext]_clientVars
  PROVE  /\ \A k \in Conn : GivenUp(k) => sock'[k] = sock[k] /\ op'[k] = op[k]
         /\ pc \in {"down", "gone"} => qin' = qin
<1> USE DEF connObject, ioState, ioThread, inbox
<1>1. CASE UNCHANGED clientVars
  BY <1>1 DEF clientVars
<1>2. CASE ClientNext /\ Connect
  <2>1. qin' = qin
    BY <1>2 DEF Connect
  <2>2. ASSUME NEW k \in Conn, GivenUp(k) PROVE sock'[k] = sock[k] /\ op'[k] = op[k]
    <3>1. made \in Nat /\ made' = made + 1 /\ k <= made /\ k # m_connection /\ k \in Nat
      BY <1>2, <2>2, ClientAssumption DEF Connect, GivenUp, ClientInv, ClientTypeOK, Conn
    <3>2. k # made'
      BY <3>1
    <3> QED BY <1>2, <3>1, <3>2 DEF Connect, ClientInv, ClientTypeOK
  <2> QED BY <2>1, <2>2
<1>3. CASE ClientNext /\ AppThread /\ ~Connect
  BY <1>3 DEF AppThread, ResolveFails, StartThread, ConnectReturns, NextMessage, PopFront,
     Disconnect, DisconnectPost, DisconnectStop, DisconnectJoin, DisconnectRelease
<1>4. CASE TakeUp \/ RunReturns
  BY <1>4 DEF TakeUp, RunReturns
<1>5. CASE ClientNext /\ IOHandler
  <2>1. crash = "no"
    BY <1>5 DEF ClientNext, Alive
  <2>2. PICK k \in Conn : \/ Connected(k) \/ ConnectFails(k) \/ Validated(k)
                          \/ Receive(k) \/ ReadFails(k) \/ PostedClose(k)
    BY <1>5 DEF IOHandler
  <2>3. busy /\ (op[k] # "none" \/ k \in closing)
    BY <2>2 DEF Connected, ConnectFails, Validated, Receive, ReadFails, PostedClose, Proceed
  <2>4. ~GivenUp(k)
    BY <2>1, <2>3, AtWork
  <2>5. \A d \in Conn : d # k => sock'[d] = sock[d] /\ op'[d] = op[d]
    BY <2>2 DEF Connected, ConnectFails, Validated, Receive, ReadFails, PostedClose, Proceed,
       ClientInv, ClientTypeOK
  <2>6. pc \notin {"down", "gone"}
    BY <2>3 DEF ClientInv, OnThread, Joined
  <2> QED BY <2>4, <2>5, <2>6
<1> QED BY <1>1, <1>2, <1>3, <1>4, <1>5 DEF ClientNext

\* The members of a client can be destroyed after Disconnect(), and it can be
\* connected again, whatever the network was doing: no handler is left to touch
\* what was given up.
THEOREM ClientQuiet == ClientSpec => QuietAfterDisconnect
<1>1. ClientInv /\ [ClientNext]_clientVars
        => [/\ \A k \in Conn : GivenUp(k) => sock'[k] = sock[k] /\ op'[k] = op[k]
            /\ pc \in {"down", "gone"} => qin' = qin]_clientVars
  BY GivenUpIsQuiet
<1> QED BY <1>1, ClientInvariant, PTL DEF ClientSpec, QuietAfterDisconnect

-----------------------------------------------------------------------------
(* Message *)

\* The body that a value was the last part of.
LaidOn(it, n) == it.below \o Layout(it.type, it.value, n)

\* A value of n elements whose bytes end body b.
Stands(it, n, b) ==
  /\ it.type.kind = "plain" => n = 1
  /\ Len(it.value) = n * it.type.size
  /\ n < Base
  /\ b = LaidOn(it, n)

Stacked ==
  \A i \in 1 .. Len(items) :
    \E n \in Nat : Stands(items[i], n, IF i = Len(items) THEN body ELSE items[i + 1].below)

MessageInv == MessageTypeOK /\ Stacked

-----------------------------------------------------------------------------
(* Bytes *)

LEMMA TypeSizes ==
  ASSUME NEW t \in Type
  PROVE  t.kind \in {"plain", "list"} /\ t.size \in Nat \ {0}
  BY SizesAssumption DEF Type

LEMMA TimesSize ==
  ASSUME NEW n \in Nat, NEW s \in Nat \ {0}
  PROVE  n * s \in Nat /\ n <= n * s
<1>1. PICK k \in Nat : s = k + 1
  <2>1. s - 1 \in Nat /\ s = (s - 1) + 1
    OBVIOUS
  <2> QED BY <2>1
<1>2. n * k \in Nat /\ n * (k + 1) = n * k + n
  OBVIOUS
<1> QED BY <1>1, <1>2

LEMMA SizeBytesType ==
  ASSUME NEW n \in 0 .. Base - 1
  PROVE  /\ SizeBytes(n) \in Seq(Byte) /\ Len(SizeBytes(n)) = Word
         /\ \A i \in 1 .. Word : SizeBytes(n)[i] = IF i = 1 THEN n ELSE 0
<1>1. SizeBytes(n) \in [1 .. Word -> Byte]
  BY SizesAssumption DEF SizeBytes, Byte
<1> QED BY <1>1, SizesAssumption DEF SizeBytes

LEMMA LayoutType ==
  ASSUME NEW t \in Type, NEW v \in Seq(Byte), NEW n \in 0 .. Base - 1
  PROVE  /\ Layout(t, v, n) \in Seq(Byte)
         /\ Len(Layout(t, v, n)) = IF t.kind = "plain" THEN Len(v) ELSE Len(v) + Word
<1>1. SizeBytes(n) \in Seq(Byte) /\ Len(SizeBytes(n)) = Word
  BY SizeBytesType
<1> QED BY <1>1 DEF Layout

\* A part of a sequence is what its elements are.
LEMMA Slice ==
  ASSUME NEW S, NEW s \in Seq(S), NEW piece \in Seq(S), NEW k \in Nat,
         k + Len(piece) <= Len(s),
         \A i \in 1 .. Len(piece) : s[k + i] = piece[i]
  PROVE  SubSeq(s, k + 1, k + Len(piece)) = piece
<1> DEFINE m == k + 1
           n == k + Len(piece)
           q == SubSeq(s, m, n)
<1>1. m \in Int /\ n \in Int /\ n - m + 1 = Len(piece) /\ Len(piece) \in Nat
  OBVIOUS
<1>2. \A i \in m .. n : s[i] \in S
  OBVIOUS
<1>3. \A i \in 1 .. Len(piece) : s[m + i - 1] = piece[i]
  OBVIOUS
<1> HIDE DEF m, n
<1>4. /\ q \in Seq(S)
      /\ Len(q) = IF m <= n THEN n - m + 1 ELSE 0
      /\ \A i \in 1 .. n - m + 1 : q[i] = s[m + i - 1]
  BY <1>1, <1>2, SubSeqProperties
<1> HIDE DEF q
<1>5. Len(q) = Len(piece) /\ \A i \in 1 .. Len(q) : q[i] = piece[i]
  BY <1>1, <1>3, <1>4
<1>6. q = piece
  BY <1>4, <1>5, SeqEqual
<1> QED BY <1>6 DEF q, m, n

LEMMA TwoParts ==
  ASSUME NEW S, NEW a \in Seq(S), NEW r \in Seq(S)
  PROVE  /\ a \o r \in Seq(S) /\ Len(a \o r) = Len(a) + Len(r)
         /\ \A i \in 1 .. Len(a) : (a \o r)[i] = a[i]
         /\ \A i \in 1 .. Len(r) : (a \o r)[Len(a) + i] = r[i]
  OBVIOUS

\* What a body is made of is found where it was put.
LEMMA Parts ==
  ASSUME NEW b \in Seq(Byte), NEW v \in Seq(Byte), NEW w \in Seq(Byte),
         NEW s \in Seq(Byte), s = b \o (v \o w)
  PROVE  /\ Len(s) = Len(b) + Len(v) + Len(w)
         /\ SubSeq(s, 1, Len(b)) = b
         /\ SubSeq(s, Len(b) + 1, Len(b) + Len(v)) = v
         /\ \A i \in 1 .. Len(w) : s[Len(b) + Len(v) + i] = w[i]
<1> PICK r \in Seq(Byte) : r = v \o w
  BY TwoParts
<1>1. /\ Len(r) = Len(v) + Len(w)
      /\ \A i \in 1 .. Len(v) : r[i] = v[i]
      /\ \A i \in 1 .. Len(w) : r[Len(v) + i] = w[i]
  BY TwoParts
<1>2. /\ Len(s) = Len(b) + Len(r)
      /\ \A i \in 1 .. Len(b) : s[i] = b[i]
      /\ \A i \in 1 .. Len(r) : s[Len(b) + i] = r[i]
  BY TwoParts
<1>3. /\ Len(b) \in Nat /\ Len(v) \in Nat /\ Len(w) \in Nat
  OBVIOUS
<1>4. Len(s) = Len(b) + Len(v) + Len(w)
  BY <1>1, <1>2, <1>3
<1>5. SubSeq(s, 1, Len(b)) = b
  <2>1. \A i \in 1 .. Len(b) : s[0 + i] = b[i]
    BY <1>2
  <2>2. 0 + Len(b) <= Len(s)
    BY <1>3, <1>4
  <2>3. SubSeq(s, 0 + 1, 0 + Len(b)) = b
    BY <1>3, <2>1, <2>2, Slice
  <2> QED BY <1>3, <2>3
<1>6. \A i \in 1 .. Len(v) : s[Len(b) + i] = v[i]
  BY <1>1, <1>2, <1>3
<1>7. SubSeq(s, Len(b) + 1, Len(b) + Len(v)) = v
  BY <1>3, <1>4, <1>6, Slice
<1>8. ASSUME NEW i \in 1 .. Len(w)
      PROVE  s[Len(b) + Len(v) + i] = w[i]
  <2>1. Len(v) + i \in 1 .. Len(r) /\ Len(b) + Len(v) + i = Len(b) + (Len(v) + i)
    BY <1>1, <1>3
  <2>2. s[Len(b) + (Len(v) + i)] = r[Len(v) + i] /\ r[Len(v) + i] = w[i]
    BY <1>1, <1>2, <2>1
  <2> QED BY <2>1, <2>2
<1> QED BY <1>4, <1>5, <1>7, <1>8

\* A value that ends the body is what >> takes, whole.
LEMMA Peel ==
  ASSUME MessageTypeOK, NEW it \in Item, NEW n \in Nat, Stands(it, n, body)
  PROVE  /\ Fits(it.type)
         /\ Taken(it.type) = Len(body) - Len(it.below)
         /\ SubSeq(body, 1, Len(it.below)) = it.below
         /\ SubSeq(body, Len(it.below) + 1, Len(it.below) + Len(it.value)) = it.value
         /\ it.type.kind = "plain" => Len(it.value) = it.type.size
         /\ it.type.kind = "list" => Len(it.value) = Taken(it.type) - Word
<1> DEFINE t == it.type
           v == it.value
           b == it.below
<1> SUFFICES
      /\ Fits(t)
      /\ Taken(t) = Len(body) - Len(b)
      /\ SubSeq(body, 1, Len(b)) = b
      /\ SubSeq(body, Len(b) + 1, Len(b) + Len(v)) = v
      /\ t.kind = "plain" => Len(v) = t.size
      /\ t.kind = "list" => Len(v) = Taken(t) - Word
  OBVIOUS
<1>1. /\ t \in Type /\ v \in Seq(Byte) /\ b \in Seq(Byte) /\ t.size \in Nat \ {0}
      /\ Len(v) \in Nat /\ Len(b) \in Nat /\ Word \in Nat \ {0}
  BY TypeSizes, SizesAssumption DEF Item
<1>2. /\ t.kind = "plain" => n = 1
      /\ Len(v) = n * t.size
      /\ n \in 0 .. Base - 1
      /\ body = b \o Layout(t, v, n)
  BY SizesAssumption DEF Stands, LaidOn
<1> HIDE DEF t, v, b
<1>3. CASE t.kind = "plain"
  <2>1. Len(v) = t.size
    BY <1>1, <1>2, <1>3
  <2>2. body = b \o v
    BY <1>2, <1>3 DEF Layout
  <2>3. Taken(t) = t.size
    BY <1>3 DEF Taken
  <2>4. /\ Len(body) = Len(b) + Len(v)
        /\ SubSeq(body, 1, Len(b)) = b
        /\ SubSeq(body, Len(b) + 1, Len(b) + Len(v)) = v
    BY <1>1, <2>2
  <2>5. Fits(t)
    BY <1>1, <1>3, <2>1, <2>3, <2>4 DEF Fits
  <2>6. Taken(t) = Len(body) - Len(b)
    BY <1>1, <2>1, <2>3, <2>4
  <2> QED BY <1>3, <2>1, <2>4, <2>5, <2>6
<1>4. CASE t.kind = "list"
  <2> DEFINE w == SizeBytes(n)
             last == SubSeq(body, Len(body) - Word + 1, Len(body))
  <2>1. /\ w \in Seq(Byte) /\ Len(w) = Word
        /\ \A i \in 1 .. Word : w[i] = IF i = 1 THEN n ELSE 0
    BY <1>2, SizeBytesType
  <2>2. body = b \o (v \o w)
    BY <1>2, <1>4 DEF Layout
  <2> HIDE DEF w
  <2>3. /\ Len(body) = Len(b) + Len(v) + Word
        /\ SubSeq(body, 1, Len(b)) = b
        /\ SubSeq(body, Len(b) + 1, Len(b) + Len(v)) = v
        /\ \A i \in 1 .. Word : body[Len(b) + Len(v) + i] = w[i]
    <3>1. body \in Seq(Byte)
      BY DEF MessageTypeOK
    <3>2. w \in Seq(Byte) /\ v \in Seq(Byte) /\ b \in Seq(Byte)
      BY <1>1, <2>1
    <3>3. /\ Len(body) = Len(b) + Len(v) + Len(w)
          /\ SubSeq(body, 1, Len(b)) = b
          /\ SubSeq(body, Len(b) + 1, Len(b) + Len(v)) = v
          /\ \A i \in 1 .. Len(w) : body[Len(b) + Len(v) + i] = w[i]
      BY <2>2, <3>1, <3>2, Parts
    <3> QED BY <2>1, <3>3
  <2>4. Len(last) = Word /\ \A i \in 1 .. Word : last[i] = w[i]
    <3>1. Len(body) - Word = Len(b) + Len(v) /\ Len(body) = (Len(b) + Len(v)) + Word
      BY <1>1, <2>3
    <3>2. w \in Seq(Byte) /\ Len(w) = Word /\ body \in Seq(Byte)
      BY <2>1 DEF MessageTypeOK
    <3>3. SubSeq(body, (Len(b) + Len(v)) + 1, (Len(b) + Len(v)) + Len(w)) = w
      BY <1>1, <2>3, <3>1, <3>2, Slice
    <3> QED BY <2>1, <3>1, <3>2, <3>3
  <2> HIDE DEF last
  <2>5. SizeOf(last) = n
    BY <2>1, <2>4, SizesAssumption DEF SizeOf
  <2>6. Taken(t) = n * t.size + Word
    BY <1>2, <1>4, <2>5 DEF Taken, ListBytes, last
  <2>7. Taken(t) = Len(v) + Word
    BY <1>2, <2>6
  <2>8. Fits(t)
    BY <1>1, <2>3, <2>7, SizesAssumption DEF Fits
  <2> QED BY <1>1, <1>4, <2>3, <2>7, <2>8
<1>5. t.kind \in {"plain", "list"}
  BY <1>1, TypeSizes
<1> QED BY <1>3, <1>4, <1>5

\* The value on top of the history ends the body.
LEMMA TopStands ==
  ASSUME MessageInv, NEW t \in Type, Matches(t)
  PROVE  /\ Top \in Item /\ Top.type = t /\ Len(items) \in 1 .. Len(items)
         /\ \E n \in Nat : Stands(Top, n, body)
<1>1. Len(items) \in 1 .. Len(items) /\ items \in Seq(Item) /\ Top.type = t
  BY DEF MessageInv, MessageTypeOK, Matches
<1>2. Top = items[Len(items)] /\ Top \in Item
  BY <1>1 DEF Top
<1> QED BY <1>1, <1>2 DEF MessageInv, Stacked

\* >> takes no more than its type says, and that is some number of bytes.
LEMMA TakenType ==
  ASSUME MessageTypeOK, NEW t \in Type, Fits(t)
  PROVE  Taken(t) \in 0 .. Len(body)
<1>1. t.kind \in {"plain", "list"} /\ t.size \in Nat \ {0}
  BY TypeSizes
<1>2. Taken(t) <= Len(body) /\ body \in Seq(Byte) /\ Len(body) \in Nat
  BY DEF Fits, MessageTypeOK
<1>3. CASE t.kind = "plain"
  BY <1>1, <1>2, <1>3 DEF Taken
<1>4. CASE t.kind = "list"
  <2> DEFINE last == SubSeq(body, Len(body) - Word + 1, Len(body))
  <2>1. Len(body) >= Word /\ Word \in Nat \ {0} /\ Base \in Nat
    BY <1>4, SizesAssumption DEF Fits
  <2>2. last[1] \in Byte
    BY <1>2, <2>1
  <2> HIDE DEF last
  <2>3. SizeOf(last) \in Nat
    BY <2>1, <2>2 DEF SizeOf, Byte
  <2>4. SizeOf(last) * t.size + Word \in Nat
    BY <1>1, <2>1, <2>3
  <2>5. Taken(t) \in Nat
    BY <1>4, <2>1, <2>4 DEF Taken, ListBytes, last
  <2> QED BY <1>2, <2>5
<1> QED BY <1>1, <1>3, <1>4

-----------------------------------------------------------------------------
(* The operators *)

LEMMA InsertInv ==
  ASSUME MessageInv, NEW t \in Type, NEW n \in Counts(t),
         NEW v \in [1 .. n * t.size -> Content],
         Len(body) + Len(v) + Word <= MaxBody, Insert(t, v, n)
  PROVE  MessageInv'
<1> DEFINE new == [type |-> t, value |-> v, below |-> body]
<1>1. t.kind \in {"plain", "list"} /\ t.size \in Nat \ {0}
  BY TypeSizes
<1>2. n \in Nat /\ (t.kind = "plain" => n = 1)
  BY <1>1, SizesAssumption DEF Counts
<1>3. n * t.size \in Nat /\ n <= n * t.size
  BY <1>1, <1>2, TimesSize
<1>4. v \in Seq(Byte) /\ Len(v) = n * t.size
  <2> DEFINE m == n * t.size
  <2>1. m \in Nat /\ v \in [1 .. m -> Content] /\ Content \subseteq Byte
    BY <1>3, SizesAssumption DEF Byte
  <2> HIDE DEF m
  <2>2. v \in Seq(Byte) /\ Len(v) = m
    BY <2>1
  <2> QED BY <2>2 DEF m
<1>5. body \in Seq(Byte) /\ items \in Seq(Item) /\ Len(body) \in Nat /\ aborted \in BOOLEAN
  BY DEF MessageInv, MessageTypeOK
<1>6. n \in 0 .. Base - 1
  BY <1>2, <1>3, <1>4, <1>5, SizesAssumption
<1>7. /\ body' = body \o Layout(t, v, n) /\ size' = Len(body')
      /\ items' = Append(items, new) /\ extracted' = <<>> /\ aborted' = aborted
  BY DEF Insert
<1>8. Layout(t, v, n) \in Seq(Byte)
  BY <1>4, <1>6, LayoutType
<1>9. body' \in Seq(Byte)
  BY <1>5, <1>7, <1>8
<1>10. new \in Item /\ new.type = t /\ new.value = v /\ new.below = body
  BY <1>4, <1>5 DEF Item
<1>11. Stands(new, n, body')
  BY <1>2, <1>4, <1>6, <1>7, <1>10, SizesAssumption DEF Stands, LaidOn
<1> HIDE DEF new
<1>12. items' \in Seq(Item) /\ Len(items') = Len(items) + 1
  BY <1>5, <1>7, <1>10
<1>13. MessageTypeOK'
  BY <1>5, <1>7, <1>9, <1>12 DEF MessageTypeOK
<1>14. ASSUME NEW i \in 1 .. Len(items')
       PROVE  \E m \in Nat :
                Stands(items'[i], m, IF i = Len(items') THEN body' ELSE items'[i + 1].below)
  <2>1. CASE i = Len(items')
    <3>1. items'[i] = new
      BY <1>5, <1>7, <1>12, <2>1
    <3> QED BY <1>2, <1>11, <2>1, <3>1
  <2>2. CASE i # Len(items')
    <3>1. i \in 1 .. Len(items) /\ items'[i] = items[i]
      BY <1>5, <1>7, <1>12, <2>2
    <3>2. items'[i + 1].below = IF i = Len(items) THEN body ELSE items[i + 1].below
      <4>1. CASE i = Len(items)
        BY <1>5, <1>7, <1>10, <4>1
      <4>2. CASE i # Len(items)
        BY <1>5, <1>7, <3>1, <4>2
      <4> QED BY <4>1, <4>2
    <3>3. PICK m \in Nat :
            Stands(items[i], m, IF i = Len(items) THEN body ELSE items[i + 1].below)
      BY <3>1 DEF MessageInv, Stacked
    <3> QED BY <2>2, <3>1, <3>2, <3>3
  <2> QED BY <2>1, <2>2
<1>15. Stacked'
  BY <1>14 DEF Stacked, Stands, LaidOn
<1> QED BY <1>13, <1>15 DEF MessageInv

\* What >> assigns and leaves when the history has its type on top.
LEMMA ExtractTop ==
  ASSUME MessageInv, NEW t \in Type, Matches(t), Extract(t)
  PROVE  extracted' = Top.value /\ body' = Top.below
<1>1. PICK n \in Nat : Stands(Top, n, body)
  BY TopStands
<1>2. Top \in Item /\ Top.type = t /\ MessageTypeOK
  BY TopStands DEF MessageInv
<1> DEFINE b == Top.below
           v == Top.value
<1>3. /\ b \in Seq(Byte) /\ v \in Seq(Byte) /\ Len(b) \in Nat /\ Len(v) \in Nat
      /\ body \in Seq(Byte) /\ Len(body) \in Nat
  BY <1>2 DEF Item, MessageTypeOK
<1>4. /\ Taken(t) = Len(body) - Len(b)
      /\ SubSeq(body, 1, Len(b)) = b
      /\ SubSeq(body, Len(b) + 1, Len(b) + Len(v)) = v
      /\ t.kind = "plain" => Len(v) = t.size
      /\ t.kind = "list" => Len(v) = Taken(t) - Word
  BY <1>1, <1>2, Peel
<1> HIDE DEF b, v
<1>5. Len(body) - Taken(t) = Len(b)
  BY <1>3, <1>4
<1>6. (IF t.kind = "plain" THEN t.size ELSE Taken(t) - Word) = Len(v)
  BY <1>4, TypeSizes
<1>7. /\ extracted' = SubSeq(body, Len(b) + 1, Len(b) + Len(v))
      /\ body' = SubSeq(body, 1, Len(b))
  BY <1>5, <1>6 DEF Extract
<1> QED BY <1>4, <1>7 DEF b, v

LEMMA ExtractInv ==
  ASSUME MessageInv, NEW t \in Type, Extract(t)
  PROVE  MessageInv'
<1> DEFINE new_size == Len(body) - Taken(t)
           data == IF t.kind = "plain" THEN t.size ELSE Taken(t) - Word
<1>1. /\ Fits(t) /\ extracted' = SubSeq(body, new_size + 1, new_size + data)
      /\ body' = SubSeq(body, 1, new_size) /\ size' = Len(body')
      /\ items' = Untouched(t) /\ aborted' = aborted
  BY DEF Extract
<1>2. body \in Seq(Byte) /\ items \in Seq(Item) /\ Len(body) \in Nat /\ aborted \in BOOLEAN
  BY DEF MessageInv, MessageTypeOK
<1>3. Taken(t) \in 0 .. Len(body)
  BY <1>1, TakenType DEF MessageInv
<1>4. new_size \in 0 .. Len(body) /\ data \in Int /\ new_size + data <= Len(body)
  BY <1>2, <1>3, TypeSizes, SizesAssumption DEF Taken
<1> HIDE DEF new_size, data
<1>5. body' \in Seq(Byte) /\ extracted' \in Seq(Byte)
  <2>1. \A i \in 1 .. new_size : body[i] \in Byte
    BY <1>2, <1>4
  <2>2. \A i \in new_size + 1 .. new_size + data : body[i] \in Byte
    BY <1>2, <1>4
  <2>3. new_size \in Int /\ new_size + 1 \in Int /\ new_size + data \in Int /\ 1 \in Int
    BY <1>4
  <2> QED BY <1>1, <2>1, <2>2, <2>3, SubSeqProperties
<1>6. CASE ~Matches(t)
  <2>1. items' = <<>> /\ items' \in Seq(Item) /\ Len(items') = 0
    BY <1>1, <1>6 DEF Untouched
  <2> QED BY <1>1, <1>2, <1>5, <2>1 DEF MessageInv, MessageTypeOK, Stacked
<1>7. CASE Matches(t)
  <2>1. items' = SubSeq(items, 1, Len(items) - 1) /\ Len(items) \in Nat \ {0}
    BY <1>1, <1>2, <1>7, TopStands DEF Untouched
  <2>2. /\ items' \in Seq(Item) /\ Len(items') = Len(items) - 1
        /\ \A i \in 1 .. Len(items') : items'[i] = items[i]
    <3> DEFINE m == Len(items) - 1
    <3>1. /\ m \in Int /\ 1 \in Int /\ m - 1 + 1 = m /\ m >= 0
          /\ \A i \in 1 .. m : items[i] \in Item /\ items[1 + i - 1] = items[i]
      BY <1>2, <2>1
    <3> HIDE DEF m
    <3>2. /\ SubSeq(items, 1, m) \in Seq(Item)
          /\ Len(SubSeq(items, 1, m)) = IF 1 <= m THEN m - 1 + 1 ELSE 0
          /\ \A i \in 1 .. m - 1 + 1 : SubSeq(items, 1, m)[i] = items[1 + i - 1]
      BY <3>1, SubSeqProperties
    <3>3. items' = SubSeq(items, 1, m)
      BY <2>1 DEF m
    <3>4. items' \in Seq(Item) /\ Len(items') = m /\ \A i \in 1 .. m : items'[i] = items[i]
      BY <3>1, <3>2, <3>3
    <3> QED BY <3>4 DEF m
  <2>3. body' = items[Len(items)].below
    BY <1>7, ExtractTop DEF Top
  <2>4. ASSUME NEW i \in 1 .. Len(items')
        PROVE  \E n \in Nat :
                 Stands(items'[i], n, IF i = Len(items') THEN body' ELSE items'[i + 1].below)
    <3>1. i \in 1 .. Len(items) /\ i # Len(items) /\ items'[i] = items[i]
      BY <2>1, <2>2
    <3>2. (IF i = Len(items') THEN body' ELSE items'[i + 1].below) = items[i + 1].below
      BY <2>1, <2>2, <2>3
    <3>3. PICK n \in Nat : Stands(items[i], n, items[i + 1].below)
      BY <3>1 DEF MessageInv, Stacked
    <3> QED BY <3>1, <3>2, <3>3
  <2>5. Stacked'
    BY <2>4 DEF Stacked, Stands, LaidOn
  <2> QED BY <1>1, <1>2, <1>5, <2>2, <2>5 DEF MessageInv, MessageTypeOK
<1> QED BY <1>6, <1>7

-----------------------------------------------------------------------------
LEMMA MessageInitInv == MessageInit => MessageInv
<1> SUFFICES ASSUME MessageInit PROVE MessageInv
  OBVIOUS
<1>1. body = <<>> /\ extracted = <<>> /\ items = <<>> /\ size = 0 /\ aborted = FALSE
  BY DEF MessageInit
<1>2. body \in Seq(Byte) /\ extracted \in Seq(Byte) /\ items \in Seq(Item)
  BY <1>1, EmptySeq
<1>3. size = Len(body) /\ aborted \in BOOLEAN /\ Len(items) = 0
  BY <1>1
<1>4. MessageTypeOK
  BY <1>2, <1>3 DEF MessageTypeOK
<1>5. Stacked
  BY <1>3 DEF Stacked
<1> QED BY <1>4, <1>5 DEF MessageInv

LEMMA MessageKept ==
  ASSUME MessageInv, UNCHANGED <<body, size, extracted, items>>, aborted' \in BOOLEAN
  PROVE  MessageInv'
<1>1. MessageTypeOK'
  BY DEF MessageInv, MessageTypeOK
<1>2. Stacked'
  BY DEF MessageInv, Stacked, Stands, LaidOn
<1> QED BY <1>1, <1>2 DEF MessageInv

LEMMA MessageNextInv == MessageInv /\ [MessageNext]_messageVars => MessageInv'
<1> SUFFICES ASSUME MessageInv, [MessageNext]_messageVars PROVE MessageInv'
  OBVIOUS
<1>1. CASE Put
  BY <1>1, InsertInv DEF Put
<1>2. CASE Take
  BY <1>2, ExtractInv DEF Take
<1>3. CASE TakeBeyond
  <2>1. UNCHANGED <<body, size, extracted, items>> /\ aborted' = TRUE
    BY <1>3 DEF TakeBeyond, ExtractBeyond
  <2> QED BY <2>1, MessageKept
<1>4. CASE UNCHANGED messageVars
  <2>1. UNCHANGED <<body, size, extracted, items>> /\ aborted' = aborted
    BY <1>4 DEF messageVars
  <2> QED BY <2>1, MessageKept DEF MessageInv, MessageTypeOK
<1> QED BY <1>1, <1>2, <1>3, <1>4 DEF MessageNext

LEMMA MessageInvariant == MessageSpec => []MessageInv
<1> QED BY MessageInitInv, MessageNextInv, PTL DEF MessageSpec

\* Type correctness of messages: header.size is the size of the body after
\* every operator.
THEOREM MessageTypeCorrect == MessageSpec => []MessageTypeOK
<1>1. MessageInv => MessageTypeOK
  BY DEF MessageInv
<1> QED BY <1>1, MessageInvariant, PTL

\* >> gives back what << put in, for values of any types and sizes, in any
\* sequence of insertions and extractions, also wrong ones.
THEOREM LastIn == MessageSpec => LastInFirstOut
<1>1. ASSUME MessageInv, NEW t \in Type, Matches(t)
      PROVE  /\ ~ExtractBeyond(t)
             /\ Extract(t) => extracted' = Top.value /\ body' = Top.below
  <2>1. PICK n \in Nat : Stands(Top, n, body) /\ Top \in Item /\ Top.type = t
    BY <1>1, TopStands
  <2>2. Fits(t)
    BY <1>1, <2>1, Peel DEF MessageInv
  <2> QED BY <1>1, <2>2, ExtractTop DEF ExtractBeyond
<1>2. MessageInv /\ [MessageNext]_messageVars
        => [\A t \in Type : Matches(t) =>
              /\ ~ExtractBeyond(t)
              /\ Extract(t) => extracted' = Top.value /\ body' = Top.below]_messageVars
  BY <1>1
<1> QED BY <1>2, MessageInvariant, PTL DEF MessageSpec, LastInFirstOut

-----------------------------------------------------------------------------
(* TicTacToe: the invariant *)

\* The server's end of a connection is closed when its client has stopped, and
\* who has left has left for good.  Nothing goes to or comes from others than
\* those in m_deqConnections.
Ends ==
  /\ \A c \in Player : /\ link[c] = "closed" <=> client[c].at \in {"over", "left"}
                       /\ c \in left <=> client[c].at = "left"
                       /\ c \notin deqConns => server.net[c] = <<>> /\ client[c].at = "await"
  /\ \A i \in DOMAIN moves : moves[i].from \in deqConns

\* Nobody plays yet: at most one player has a seat.
OneOfEach == [y \in Symbol |-> IF y = None THEN 0 ELSE 1]
OnlyLeft(y) == [z \in Symbol |-> IF z = y THEN 1 ELSE 0]
Lobby ==
  /\ server.board = NoBoard /\ server.round = o /\ moves = <<>>
  /\ \A c \in Player : /\ server.net[c] = <<>>
                       /\ client[c] = [my_symbol |-> None, my_round |-> FALSE,
                                       board |-> NoBoard, at |-> "await"]
                       /\ link[c] # "denied"
  /\ \/ DOMAIN server.players = {} /\ server.symbols_left = OneOfEach
     \/ \E a \in Player : \E y \in {o, x} :
          /\ DOMAIN server.players = {a} /\ server.players[a] = y /\ link[a] = "open"
          /\ server.symbols_left = OnlyLeft(NextRound(y))

\* Two players have the two symbols.
Seated(a, b) ==
  /\ a # b /\ link[a] \in {"open", "closed"} /\ link[b] \in {"open", "closed"}
  /\ server.started /\ server.symbols_left = NoneLeft
  /\ SymbolOf(server, a) = o /\ SymbolOf(server, b) = x
  /\ \A c \in Player \ {a, b} : SymbolOf(server, c) = None

Won == \E i \in DOMAIN Lines : Wins(server.board, Lines[i])
Winner(w) == {s \in {o, x} : HasLine(s)} = {w}

\* A client will have the symbol and the board that the server has for it.
Informed(c) ==
  LET k == client[c]
      n == server.net[c]
  IN  /\ \A i \in DOMAIN n :
           /\ n[i].id = "ServerAccept" => i = 1 /\ n[i].symbol = SymbolOf(server, c)
           /\ n[i].id = "Move" => n[i].symbol # None
           /\ n[i].id = "GameEnd" => Won /\ Winner(n[i].winner)
      /\ \/ k.my_symbol = SymbolOf(server, c)
         \/ k.my_symbol = None /\ n # <<>> /\ n[1].id = "ServerAccept"
      /\ k.at = "over" => Won
      /\ c \in deqConns =>
           \A p \in Position :
             /\ \A i \in MovesTo(c, p) : n[i].symbol = server.board[p]
             /\ MovesTo(c, p) = {} => k.board[p] = server.board[p]

Idle(c) ==
  /\ client[c].at # "move"
  /\ SymbolOf(server, c) # None => ~client[c].my_round
  /\ \A i \in DOMAIN server.net[c] : ~GivesTurn(c, server.net[c][i])

\* The one whose turn it is will be told so last, is choosing a square, or has
\* chosen one.
OnTurn(c) ==
  LET k == client[c]
      n == server.net[c]
  IN  \/ /\ k.at = "await" /\ ~k.my_round /\ moves = <<>>
         /\ n # <<>> /\ GivesTurn(c, n[Len(n)])
         /\ \A i \in 1 .. Len(n) - 1 : ~GivesTurn(c, n[i])
      \/ k.at = "move" /\ n = <<>> /\ moves = <<>>
      \/ k.at = "await" /\ ~k.my_round /\ n = <<>> /\ moves # <<>>

MoveOf(c) ==
  \/ moves = <<>>
  \/ \E p \in Position : server.board[p] = None /\ moves = <<[from |-> c, pos |-> p]>>

Turns(h) ==
  IF Won THEN moves = <<>> /\ \A c \in Player \ left : Idle(c)
  ELSE /\ MoveOf(h) /\ (h \notin left => OnTurn(h))
       /\ \A c \in Player \ left : c # h => Idle(c)

Holder(a, b) == IF server.round = o THEN a ELSE b

GameOf(a, b) ==
  /\ Seated(a, b)
  /\ \A c \in Player \ left : Informed(c)
  /\ Turns(Holder(a, b))

Game == \E a, b \in Player : GameOf(a, b)

TicTacToeInv ==
  /\ TicTacToeTypeOK /\ Ends
  /\ wrong = {} => (left = {} => Lobby \/ Game)
  /\ wrong = {} => (server.board # NoBoard => Game)
  /\ NoInvalidMove
-----------------------------------------------------------------------------
(* Symbols and lines *)

LEMMA SymbolFacts ==
  /\ o # x /\ o # None /\ x # None
  /\ o \cap x # o /\ o \cap x # x /\ o \cap o = o /\ x \cap x = x
  /\ o \cap None = None /\ x \cap None = None /\ None \cap o = None /\ None \cap x = None
  /\ Symbol = {o, x, None} /\ NextRound(o) = x /\ NextRound(x) = o
<1>1. 0 \in o /\ 0 \notin x /\ 4 \in x /\ 4 \notin o /\ 0 \notin None /\ 4 \notin None
  BY DEF o, x, None
<1>2. o \cap o = o /\ x \cap x = x /\ o \cap None = None /\ x \cap None = None
      /\ None \cap o = None /\ None \cap x = None
  BY DEF None
<1>3. NextRound(o) = x /\ NextRound(x) = o
  BY <1>1 DEF NextRound
<1> QED BY <1>1, <1>2, <1>3 DEF Symbol

LEMMA LineSquares ==
  /\ DOMAIN Lines = 1 .. 8
  /\ \A i \in 1 .. 8 : /\ Lines[i][1] \in Position /\ Lines[i][2] \in Position
                       /\ Lines[i][3] \in Position
                       /\ {Lines[i][j] : j \in 1 .. 3} = {Lines[i][1], Lines[i][2], Lines[i][3]}
<1>1. Len(Lines) = 8 /\ DOMAIN Lines = 1 .. 8
  BY DEF Lines
<1>2. ASSUME NEW i \in 1 .. 8
      PROVE  Lines[i][1] \in Position /\ Lines[i][2] \in Position /\ Lines[i][3] \in Position
  BY DEF Lines, Column, Row, Position
<1>3. ASSUME NEW i \in 1 .. 8
      PROVE  {Lines[i][j] : j \in 1 .. 3} = {Lines[i][1], Lines[i][2], Lines[i][3]}
  OBVIOUS
<1> QED BY <1>1, <1>2, <1>3

\* For the two symbols, & is as good as comparing.
LEMMA WinsEqual ==
  ASSUME NEW board \in Board, NEW i \in 1 .. 8
  PROVE  LET p == Lines[i][1]  q == Lines[i][2]  r == Lines[i][3]
         IN  Wins(board, Lines[i]) <=> board[p] # None /\ board[q] = board[p] /\ board[r] = board[p]
<1> DEFINE p == Lines[i][1]
           q == Lines[i][2]
           r == Lines[i][3]
<1>1. p \in Position /\ q \in Position /\ r \in Position
  BY LineSquares
<1>2. board[p] \in {o, x, None} /\ board[q] \in {o, x, None} /\ board[r] \in {o, x, None}
  BY <1>1, SymbolFacts DEF Board
<1>3. Wins(board, Lines[i]) <=> board[p] # None /\ board[p] = board[p] \cap board[q] \cap board[r]
  BY DEF Wins
<1> HIDE DEF p, q, r
<1>4. ASSUME NEW a \in {o, x, None}, NEW b \in {o, x, None}, NEW c \in {o, x, None}
      PROVE  (a # None /\ a = a \cap b \cap c) <=> (a # None /\ b = a /\ c = a)
  BY <1>4, SymbolFacts
<1> QED BY <1>2, <1>3, <1>4 DEF p, q, r

\* check_win() reports a symbol just when there is a line.
LEMMA CheckWin ==
  ASSUME NEW board \in Board
  PROVE  /\ check_win(board) \in Symbol
         /\ check_win(board) = None <=> ~\E i \in DOMAIN Lines : Wins(board, Lines[i])
         /\ check_win(board) # None =>
              \E i \in DOMAIN Lines : Wins(board, Lines[i]) /\ check_win(board) = board[Lines[i][1]]
<1> DEFINE won == {i \in DOMAIN Lines : Wins(board, Lines[i])}
           first == CHOOSE i \in won : \A j \in won : i <= j
<1>1. check_win(board) = IF won = {} THEN None ELSE board[Lines[first][1]]
  BY DEF check_win
<1>2. won \subseteq 1 .. 8
  BY LineSquares
<1>3. ASSUME won # {} PROVE first \in won
  <2>1. \E i \in won : \A j \in won : i <= j
    <3> HIDE DEF won
    <3>1. \A i \in won : i \in {1, 2, 3, 4, 5, 6, 7, 8}
      BY <1>2
    <3>2. CASE 1 \in won
      BY <1>2, <3>2
    <3>3. CASE 1 \notin won /\ 2 \in won
      BY <3>1, <3>3
    <3>4. CASE 1 \notin won /\ 2 \notin won /\ 3 \in won
      BY <3>1, <3>4
    <3>5. CASE 1 \notin won /\ 2 \notin won /\ 3 \notin won /\ 4 \in won
      BY <3>1, <3>5
    <3>6. CASE 1 \notin won /\ 2 \notin won /\ 3 \notin won /\ 4 \notin won /\ 5 \in won
      BY <3>1, <3>6
    <3>7. CASE won \subseteq {6, 7, 8}
      <4>1. CASE 6 \in won
        BY <3>7, <4>1
      <4>2. CASE 6 \notin won /\ 7 \in won
        BY <3>7, <4>2
      <4>3. CASE won = {8}
        BY <4>3
      <4> QED BY <1>3, <3>7, <4>1, <4>2, <4>3
    <3> QED BY <1>3, <3>1, <3>2, <3>3, <3>4, <3>5, <3>6, <3>7
  <2> HIDE DEF won
  <2> QED BY <2>1
<1>4. ASSUME NEW i \in won
      PROVE  i \in 1 .. 8 /\ Wins(board, Lines[i]) /\ board[Lines[i][1]] \in {o, x}
  <2>1. i \in 1 .. 8 /\ Wins(board, Lines[i])
    BY LineSquares
  <2>2. board[Lines[i][1]] # None /\ Lines[i][1] \in Position
    BY <2>1, LineSquares, WinsEqual
  <2> QED BY <2>1, <2>2, SymbolFacts DEF Board
<1> HIDE DEF first
<1>5. CASE won = {}
  <2>1. check_win(board) = None
    BY <1>1, <1>5
  <2>2. ~\E i \in DOMAIN Lines : Wins(board, Lines[i])
    BY <1>5
  <2> QED BY <2>1, <2>2, SymbolFacts
<1>6. CASE won # {}
  <2>1. check_win(board) = board[Lines[first][1]]
    BY <1>1, <1>6
  <2>2. first \in 1 .. 8 /\ Wins(board, Lines[first]) /\ board[Lines[first][1]] \in {o, x}
    BY <1>3, <1>4, <1>6
  <2> HIDE DEF won
  <2>3. first \in DOMAIN Lines
    BY <2>2, LineSquares
  <2> QED BY <2>1, <2>2, <2>3, SymbolFacts
<1> QED BY <1>5, <1>6

-----------------------------------------------------------------------------
(* Values of the server's state *)

Players == UNION {[S -> Symbol] : S \in SUBSET Player}

LEMMA PlayersType ==
  ASSUME NEW f \in Players
  PROVE  DOMAIN f \subseteq Player /\ f \in [DOMAIN f -> Symbol]
BY DEF Players

LEMMA PlayersIntro ==
  ASSUME NEW S \in SUBSET Player, NEW f \in [S -> Symbol]
  PROVE  f \in Players
BY DEF Players

LEMMA SymbolOfType ==
  ASSUME NEW s \in ServerState, NEW c
  PROVE  SymbolOf(s, c) \in Symbol
<1>1. s.players \in [DOMAIN s.players -> Symbol]
  BY PlayersType DEF ServerState, Players
<1>2. None \in Symbol
  BY DEF Symbol
<1> QED BY <1>1, <1>2 DEF SymbolOf

LEMMA PlayersFinite == \A S \in SUBSET Player : IsFiniteSet(S) /\ Cardinality(S) \in Nat
<1>1. IsFiniteSet(Player)
  BY TicTacToeAssumption, FS_Interval DEF Player
<1> QED BY <1>1, FS_Subset, FS_CardinalityType

LEMMA SetEntries ==
  ASSUME NEW s \in ServerState, NEW clients \in SUBSET Player, NEW t, t = Entered(s, clients)
  PROVE  /\ t \in ServerState
         /\ t = [s EXCEPT !.players = t.players]
         /\ DOMAIN t.players = DOMAIN s.players \cup clients
         /\ \A c : SymbolOf(t, c) = SymbolOf(s, c)
<1> DEFINE f == [d \in DOMAIN s.players \cup clients |-> SymbolOf(s, d)]
<1>1. t = [s EXCEPT !.players = f]
  BY DEF Entered
<1>2. DOMAIN s.players \subseteq Player
  BY PlayersType DEF ServerState, Players
<1>3. f \in [DOMAIN s.players \cup clients -> Symbol]
  BY SymbolOfType
<1>4. f \in Players
  BY <1>2, <1>3, PlayersIntro
<1> HIDE DEF f
<1>5. t.players = f /\ t \in ServerState
  BY <1>1, <1>4 DEF ServerState, Players
<1>6. ASSUME NEW c PROVE SymbolOf(t, c) = SymbolOf(s, c)
  BY <1>5 DEF SymbolOf, f
<1> QED BY <1>1, <1>3, <1>5, <1>6 DEF f

LEMMA Disconnecting ==
  ASSUME NEW s \in ServerState, NEW gone \in SUBSET Player, NEW t,
         t = OnClientDisconnect(s, gone)
  PROVE  /\ t \in ServerState /\ t.round = s.round /\ t.net = s.net
         /\ gone # {} => t.board = NoBoard
         /\ gone = {} => t = s
<1> DEFINE l == [y \in Symbol |-> s.symbols_left[y] + Cardinality({c \in gone : SymbolOf(s, c) = y})]
           f == [d \in DOMAIN s.players \ gone |-> s.players[d]]
           g == s.started /\ gone = {}
           b == IF gone = {} THEN s.board ELSE NoBoard
<1>1. t = [s EXCEPT !.symbols_left = l, !.players = f, !.started = g, !.board = b]
  BY DEF OnClientDisconnect
<1>2. s.symbols_left \in [Symbol -> Nat] /\ s.players \in Players /\ s.started \in BOOLEAN
      /\ s.board \in Board
  BY DEF ServerState, Players
<1>3. l \in [Symbol -> Nat] /\ (gone = {} => l = s.symbols_left)
  <2>1. ASSUME NEW y \in Symbol
        PROVE  /\ s.symbols_left[y] + Cardinality({c \in gone : SymbolOf(s, c) = y}) \in Nat
               /\ gone = {} => s.symbols_left[y] + Cardinality({c \in gone : SymbolOf(s, c) = y})
                                 = s.symbols_left[y]
    <3>1. Cardinality({c \in gone : SymbolOf(s, c) = y}) \in Nat
      BY PlayersFinite
    <3>2. gone = {} => Cardinality({c \in gone : SymbolOf(s, c) = y}) = 0
      <4>1. gone = {} => {c \in gone : SymbolOf(s, c) = y} = {}
        OBVIOUS
      <4> QED BY <4>1, FS_EmptySet
    <3>3. s.symbols_left[y] \in Nat
      BY <1>2
    <3> QED BY <3>1, <3>2, <3>3
  <2> QED BY <1>2, <2>1
<1>4. f \in Players /\ (gone = {} => f = s.players)
  <2>1. DOMAIN s.players \subseteq Player /\ s.players \in [DOMAIN s.players -> Symbol]
    BY <1>2, PlayersType
  <2>2. f \in [DOMAIN s.players \ gone -> Symbol]
    BY <2>1
  <2>3. gone = {} => f = s.players
    BY <2>1
  <2> QED BY <2>1, <2>2, <2>3, PlayersIntro
<1>5. g \in BOOLEAN /\ (gone = {} => g = s.started)
  BY <1>2
<1>6. b \in Board /\ (gone = {} => b = s.board) /\ (gone # {} => b = NoBoard)
  <2>1. NoBoard \in Board
    BY DEF NoBoard, Board, Symbol
  <2> QED BY <1>2, <2>1
<1> HIDE DEF l, f, g, b
<1>7. t \in ServerState /\ t.round = s.round /\ t.net = s.net /\ t.board = b
  BY <1>1, <1>3, <1>4, <1>5, <1>6 DEF ServerState, Players
<1>8. gone = {} => t = s
  <2> SUFFICES ASSUME gone = {} PROVE t = s
    OBVIOUS
  <2>1. l = s.symbols_left /\ f = s.players /\ g = s.started /\ b = s.board
    BY <1>3, <1>4, <1>5, <1>6
  <2> QED BY <1>1, <2>1 DEF ServerState
<1> QED BY <1>6, <1>7, <1>8

Gone == {c \in deqConns : ~IsOpen(c)}

LEMMA Sending ==
  ASSUME NEW s \in ServerState, NEW msgs \in [Player -> Message], NEW t, t = SendEach(s, msgs)
  PROVE  /\ t \in ServerState /\ t.round = s.round
         /\ Gone # {} => t.board = NoBoard
         /\ Gone = {} => t = [s EXCEPT !.net = t.net]
         /\ \A c \in Player : t.net[c] = IF c \in deqConns /\ IsOpen(c)
                                         THEN Append(s.net[c], msgs[c]) ELSE s.net[c]
<1> DEFINE u == OnClientDisconnect(s, Gone)
           n == [c \in Player |-> IF c \in deqConns /\ IsOpen(c)
                                  THEN Append(u.net[c], msgs[c]) ELSE u.net[c]]
<1>1. t = [u EXCEPT !.net = n]
  BY DEF SendEach, Gone
<1>2. Gone \in SUBSET Player
  BY DEF Gone, deqConns
<1> HIDE DEF u
<1>3. /\ u \in ServerState /\ u.round = s.round /\ u.net = s.net
      /\ Gone # {} => u.board = NoBoard
      /\ Gone = {} => u = s
  BY <1>2, Disconnecting DEF u
<1>4. n \in [Player -> Seq(Message)]
  <2>1. u.net \in [Player -> Seq(Message)]
    BY <1>3 DEF ServerState
  <2> QED BY <2>1
<1>5. \A c \in Player : n[c] = IF c \in deqConns /\ IsOpen(c)
                               THEN Append(s.net[c], msgs[c]) ELSE s.net[c]
  BY <1>3
<1> HIDE DEF n
<1>6. t \in ServerState /\ t.round = u.round /\ t.board = u.board /\ t.net = n
  BY <1>1, <1>3, <1>4 DEF ServerState
<1> QED BY <1>1, <1>3, <1>5, <1>6

LEMMA MessageTypes ==
  ASSUME NEW y \in Symbol, NEW z \in Symbol, NEW p \in Position
  PROVE  ServerAccept(y) \in Message /\ MoveMsg(p, y, z) \in Message /\ GameEnd(y) \in Message
BY DEF ServerAccept, MoveMsg, GameEnd, Message

LEMMA Seating ==
  ASSUME NEW s \in ServerState, NEW c \in Player, NEW y \in Symbol, s.symbols_left[y] > 0
  PROVE  LET u == Seat(s, c, y)
         IN  /\ u \in ServerState /\ u.round = s.round /\ u.board = s.board /\ u.net = s.net
             /\ u.started = s.started
             /\ u.symbols_left[y] = s.symbols_left[y] - 1
             /\ \A z \in Symbol \ {y} : u.symbols_left[z] = s.symbols_left[z]
             /\ c \notin DOMAIN s.players =>
                  /\ DOMAIN u.players = DOMAIN s.players \cup {c}
                  /\ u.players[c] = y
                  /\ \A d \in DOMAIN s.players : u.players[d] = s.players[d]
<1> DEFINE f == IF c \in DOMAIN s.players THEN s.players ELSE
                  [d \in DOMAIN s.players \cup {c} |-> IF d = c THEN y ELSE s.players[d]]
           l == [s.symbols_left EXCEPT ![y] = @ - 1]
           u == Seat(s, c, y)
<1>1. s.symbols_left \in [Symbol -> Nat] /\ s.players \in Players
  BY DEF ServerState, Players
<1>2. u = [s EXCEPT !.players = f, !.symbols_left = l]
  BY DEF Seat
<1>3. l \in [Symbol -> Nat]
  BY <1>1
<1>4. f \in Players
  <2>1. DOMAIN s.players \subseteq Player /\ s.players \in [DOMAIN s.players -> Symbol]
    BY <1>1, PlayersType
  <2>2. CASE c \notin DOMAIN s.players
    <3>1. f \in [DOMAIN s.players \cup {c} -> Symbol]
      BY <2>1, <2>2
    <3> HIDE DEF f
    <3> QED BY <2>1, <3>1, PlayersIntro
  <2> QED BY <1>1, <2>2
<1>5. c \notin DOMAIN s.players =>
        DOMAIN f = DOMAIN s.players \cup {c} /\ f[c] = y
        /\ \A d \in DOMAIN s.players : f[d] = s.players[d]
  OBVIOUS
<1> HIDE DEF f, l, u
<1>6. u \in ServerState /\ u.round = s.round /\ u.board = s.board /\ u.net = s.net
      /\ u.started = s.started /\ u.symbols_left = l /\ u.players = f
  BY <1>2, <1>3, <1>4 DEF ServerState, Players
<1>7. l[y] = s.symbols_left[y] - 1 /\ \A z \in Symbol \ {y} : l[z] = s.symbols_left[z]
  BY <1>1 DEF l
<1> QED BY <1>5, <1>6, <1>7 DEF u

\* OnClientValidated: the clients are told their symbols when none is left.
LEMMA Validating ==
  ASSUME NEW s \in ServerState, NEW c \in Player, NEW y \in Symbol, s.symbols_left[y] > 0,
         NEW t, t = OnClientValidated(s, c, y), NEW u, u = Seat(s, c, y)
  PROVE  /\ t \in ServerState /\ t.round = s.round
         /\ s.board = NoBoard => t.board = NoBoard
         /\ \A d \in Player \ deqConns : t.net[d] = s.net[d]
         /\ u.symbols_left # NoneLeft => t = u
         /\ u.symbols_left = NoneLeft /\ Gone = {} =>
              /\ t.started /\ t.symbols_left = NoneLeft /\ t.board = s.board
              /\ \A d : SymbolOf(t, d) = SymbolOf(u, d)
              /\ \A d \in Player : t.net[d] =
                   IF d \in deqConns /\ IsOpen(d)
                   THEN Append(s.net[d], ServerAccept(SymbolOf(u, d))) ELSE s.net[d]
<1> DEFINE accepts == [d \in Player |-> ServerAccept(SymbolOf(u, d))]
           e == Entered(u, deqConns)
           v == SendEach(e, accepts)
<1>1. t = IF u.symbols_left # NoneLeft THEN u ELSE [v EXCEPT !.started = TRUE]
  BY Zenon DEF OnClientValidated
<1>2. u \in ServerState /\ u.round = s.round /\ u.board = s.board /\ u.net = s.net
  <2> HIDE DEF v, e, accepts
  <2> QED BY Seating
<1>3. CASE u.symbols_left # NoneLeft
  BY <1>1, <1>2, <1>3
<1>4. CASE u.symbols_left = NoneLeft
  <2>1. accepts \in [Player -> Message] /\ \A d \in Player : accepts[d] = ServerAccept(SymbolOf(u, d))
    <3>1. \A d \in Player : ServerAccept(SymbolOf(u, d)) \in Message
      BY <1>2, SymbolOfType DEF ServerAccept, Message
    <3> QED BY <3>1
  <2>2. deqConns \in SUBSET Player
    BY DEF deqConns
  <2> HIDE DEF e, accepts, v
  <2>3. /\ e \in ServerState /\ e = [u EXCEPT !.players = e.players]
        /\ \A d : SymbolOf(e, d) = SymbolOf(u, d)
    BY <1>2, <2>2, SetEntries DEF e
  <2>4. e.round = u.round /\ e.board = u.board /\ e.net = u.net /\ e.symbols_left = u.symbols_left
    BY <1>2, <2>3 DEF ServerState
  <2>5. /\ v \in ServerState /\ v.round = e.round
        /\ Gone # {} => v.board = NoBoard
        /\ Gone = {} => v = [e EXCEPT !.net = v.net]
        /\ \A d \in Player : v.net[d] = IF d \in deqConns /\ IsOpen(d)
                                        THEN Append(e.net[d], accepts[d]) ELSE e.net[d]
    BY <2>1, <2>3, Sending DEF v
  <2>6. t = [v EXCEPT !.started = TRUE]
    BY <1>1, <1>4
  <2>7. /\ t \in ServerState /\ t.started /\ t.round = v.round /\ t.board = v.board /\ t.net = v.net
        /\ t.symbols_left = v.symbols_left /\ t.players = v.players
    BY <2>5, <2>6 DEF ServerState
  <2>8. Gone = {} => v.board = e.board /\ v.symbols_left = e.symbols_left /\ v.players = e.players
    BY <2>3, <2>5 DEF ServerState
  <2>9. Gone = {} => \A d : SymbolOf(t, d) = SymbolOf(u, d)
    <3>1. Gone = {} => \A d : SymbolOf(t, d) = SymbolOf(e, d)
      BY <2>7, <2>8 DEF SymbolOf
    <3> QED BY <2>3, <3>1
  <2>10. \A d \in Player : t.net[d] =
           IF d \in deqConns /\ IsOpen(d)
           THEN Append(s.net[d], ServerAccept(SymbolOf(u, d))) ELSE s.net[d]
    BY <1>2, <2>1, <2>4, <2>5, <2>7
  <2>11. s.board = NoBoard => t.board = NoBoard
    BY <1>2, <2>4, <2>5, <2>7, <2>8
  <2>12. Gone = {} => t.symbols_left = NoneLeft /\ t.board = s.board
    BY <1>2, <1>4, <2>4, <2>7, <2>8
  <2>13. t.round = s.round
    BY <1>2, <2>4, <2>5, <2>7
  <2> HIDE DEF Gone
  <2> QED BY <1>4, <2>7, <2>9, <2>10, <2>11, <2>12, <2>13
<1> QED BY <1>3, <1>4

\* OnMessage: the move is passed on to everybody, and the winner if there is one.
LEMMA Moving ==
  ASSUME NEW s \in ServerState, NEW c \in Player, NEW p \in Position, NEW t, t = OnMove(s, c, p),
         NEW y, y = SymbolOf(s, c), NEW b, b = apply_move(s.board, p, y),
         NEW w, w = check_win(b),
         NEW m, m = MoveMsg(p, y, IF w = None THEN NextRound(s.round) ELSE None)
  PROVE  /\ t \in ServerState /\ t.round = NextRound(s.round) /\ b \in Board
         /\ Gone # {} => t.board = NoBoard
         /\ \A d \in Player \ deqConns : t.net[d] = s.net[d]
         /\ Gone = {} =>
              /\ t.board = b /\ t.started = s.started /\ t.symbols_left = s.symbols_left
              /\ \A d : SymbolOf(t, d) = SymbolOf(s, d)
              /\ \A d \in Player : t.net[d] =
                   IF d \in deqConns /\ IsOpen(d)
                   THEN IF w = None THEN Append(s.net[d], m)
                                    ELSE Append(Append(s.net[d], m), GameEnd(w))
                   ELSE s.net[d]
<1> DEFINE e == Entered(s, {c})
           moved == [e EXCEPT !.board = b, !.round = NextRound(s.round)]
           told == SendToAll(moved, m)
<1>1. y \in Symbol /\ s.board \in Board /\ s.round \in {o, x} /\ NextRound(s.round) \in {o, x}
      /\ NextRound(s.round) \in Symbol /\ None \in Symbol
  <2>1. s.board \in Board /\ s.round \in {o, x}
    BY DEF ServerState
  <2> QED BY <2>1, SymbolOfType, SymbolFacts
<1>2. b \in Board
  BY <1>1 DEF apply_move, Board
<1> HIDE DEF e
<1>3. /\ e \in ServerState /\ e = [s EXCEPT !.players = e.players]
      /\ \A d : SymbolOf(e, d) = SymbolOf(s, d)
  <2>1. {c} \in SUBSET Player
    OBVIOUS
  <2> QED BY <2>1, SetEntries DEF e
<1>4. /\ e.round = s.round /\ e.board = s.board /\ e.net = s.net /\ e.symbols_left = s.symbols_left
      /\ e.started = s.started
  BY <1>3 DEF ServerState
<1>5. /\ moved \in ServerState /\ moved.round = NextRound(s.round) /\ moved.board = b
      /\ moved.net = s.net /\ moved.symbols_left = s.symbols_left /\ moved.started = s.started
      /\ moved.players = e.players
  <2>1. moved \in ServerState
    BY <1>1, <1>2, <1>3 DEF ServerState
  <2> QED BY <1>3, <1>4, <2>1 DEF ServerState
<1>6. t = IF w = None THEN told ELSE SendToAll(told, GameEnd(w))
  <2>1. moved = [e EXCEPT !.board = apply_move(@, p, y), !.round = NextRound(@)]
    BY <1>4
  <2>2. moved.board = b /\ moved.round = NextRound(s.round)
    BY <1>5
  <2> DEFINE raw == [e EXCEPT !.board = apply_move(@, p, SymbolOf(s, c)), !.round = NextRound(@)]
  <2>3. raw = moved
    BY <2>1
  <2>4. t = IF check_win(raw.board) = None
            THEN SendToAll(raw, MoveMsg(p, SymbolOf(s, c), IF check_win(raw.board) = None
                                                           THEN raw.round ELSE None))
            ELSE SendToAll(SendToAll(raw, MoveMsg(p, SymbolOf(s, c),
                                              IF check_win(raw.board) = None
                                              THEN raw.round ELSE None)),
                           GameEnd(check_win(raw.board)))
    BY Zenon DEF OnMove, e
  <2> HIDE DEF raw, moved
  <2> QED BY <2>2, <2>3, <2>4
<1>7. w \in Symbol
  BY <1>2, CheckWin
<1>8. m \in Message /\ GameEnd(w) \in Message
  BY <1>1, <1>7, MessageTypes
<1> HIDE DEF moved
<1>9. /\ told \in ServerState /\ told.round = moved.round
      /\ Gone # {} => told.board = NoBoard
      /\ Gone = {} => told = [moved EXCEPT !.net = told.net]
      /\ \A d \in Player : told.net[d] = IF d \in deqConns /\ IsOpen(d)
                                         THEN Append(moved.net[d], m) ELSE moved.net[d]
  <2> DEFINE msgs == [d \in Player |-> m]
  <2>1. msgs \in [Player -> Message] /\ \A d \in Player : msgs[d] = m
    BY <1>8
  <2>2. told = SendEach(moved, msgs)
    BY DEF SendToAll
  <2> HIDE DEF told, msgs
  <2> QED BY <1>5, <2>1, <2>2, Sending
<1> HIDE DEF told
<1>10. Gone = {} =>
         /\ told.board = b /\ told.started = s.started /\ told.symbols_left = s.symbols_left
         /\ told.players = e.players
  BY <1>5, <1>9 DEF ServerState
<1>11. ASSUME NEW q, q \in ServerState, q.players = e.players, NEW d
       PROVE  SymbolOf(q, d) = SymbolOf(s, d)
  <2>1. SymbolOf(q, d) = SymbolOf(e, d)
    BY <1>11 DEF SymbolOf
  <2> QED BY <1>3, <2>1
<1>12. CASE w = None
  <2>1. t = told
    BY <1>6, <1>12
  <2>2. \A d \in Player : t.net[d] = IF d \in deqConns /\ IsOpen(d)
                                     THEN Append(s.net[d], m) ELSE s.net[d]
    BY <1>5, <1>9, <2>1
  <2>3. Gone = {} => \A d : SymbolOf(t, d) = SymbolOf(s, d)
    BY <1>9, <1>10, <1>11, <2>1
  <2> HIDE DEF Gone
  <2> QED BY <1>2, <1>5, <1>9, <1>10, <1>12, <2>1, <2>2, <2>3
<1>13. CASE w # None
  <2> DEFINE msgs == [d \in Player |-> GameEnd(w)]
  <2>1. msgs \in [Player -> Message] /\ \A d \in Player : msgs[d] = GameEnd(w)
    BY <1>8
  <2>2. t = SendEach(told, msgs)
    BY <1>6, <1>13 DEF SendToAll
  <2> HIDE DEF msgs
  <2>3. /\ t \in ServerState /\ t.round = told.round
        /\ Gone # {} => t.board = NoBoard
        /\ Gone = {} => t = [told EXCEPT !.net = t.net]
        /\ \A d \in Player : t.net[d] = IF d \in deqConns /\ IsOpen(d)
                                        THEN Append(told.net[d], msgs[d]) ELSE told.net[d]
    BY <1>9, <2>1, <2>2, Sending
  <2>4. \A d \in Player : t.net[d] = IF d \in deqConns /\ IsOpen(d)
                                     THEN Append(Append(s.net[d], m), GameEnd(w)) ELSE s.net[d]
    BY <1>5, <1>9, <2>1, <2>3
  <2>5. Gone = {} => /\ t.board = b /\ t.started = s.started /\ t.symbols_left = s.symbols_left
                     /\ t.players = e.players
    BY <1>9, <1>10, <2>3 DEF ServerState
  <2>6. Gone = {} => \A d : SymbolOf(t, d) = SymbolOf(s, d)
    BY <1>11, <2>3, <2>5
  <2> HIDE DEF Gone
  <2> QED BY <1>2, <1>5, <1>9, <1>13, <2>3, <2>4, <2>5, <2>6
<1> QED BY <1>12, <1>13

LEMMA Handling ==
  ASSUME NEW s \in ServerState, NEW c \in Player, NEW p \in Position, NEW t, t = Handled(s, c, p)
  PROVE  /\ t \in ServerState
         /\ \A d \in Player \ deqConns : t.net[d] = s.net[d]
         /\ Gone # {} /\ (s.started \/ s.board = NoBoard) => t.board = NoBoard
         /\ c \in deqConns /\ Gone = {} => t = IF s.started THEN OnMove(s, c, p) ELSE s
<1> DEFINE q == IF s.started THEN OnMove(s, c, p) ELSE s
<1>1. t = IF IsOpen(c) THEN q ELSE OnClientDisconnect(q, {c})
  BY DEF Handled
<1>2. /\ q \in ServerState
      /\ \A d \in Player \ deqConns : q.net[d] = s.net[d]
      /\ Gone # {} /\ (s.started \/ s.board = NoBoard) => q.board = NoBoard
  BY Moving
<1> HIDE DEF q
<1>3. CASE IsOpen(c)
  <2>1. t = q
    BY <1>1, <1>3
  <2> QED BY <1>2, <2>1 DEF q
<1>4. CASE ~IsOpen(c)
  <2>1. {c} \in SUBSET Player /\ {c} # {}
    OBVIOUS
  <2>2. t \in ServerState /\ t.board = NoBoard /\ t.net = q.net
    BY <1>1, <1>2, <1>4, <2>1, Disconnecting
  <2>3. c \in deqConns => Gone # {}
    BY <1>4 DEF Gone
  <2> QED BY <1>2, <2>2, <2>3
<1> QED BY <1>3, <1>4

-----------------------------------------------------------------------------
(* Types, and who is where *)

LEMMA TookType ==
  ASSUME NEW k \in ClientState, NEW m \in Message
  PROVE  Took(k, m) \in ClientState
<1>1. CASE m.id = "ServerAccept"
  <2>1. m.symbol \in Symbol
    BY <1>1 DEF Message
  <2>2. Took(k, m) = [k EXCEPT !.my_symbol = m.symbol, !.my_round = (m.symbol = o) \/ @]
    BY <1>1 DEF Took
  <2> QED BY <2>1, <2>2 DEF ClientState
<1>2. CASE m.id = "Move"
  <2>1. m.symbol \in Symbol /\ m.pos \in Position
    BY <1>2 DEF Message
  <2>2. Took(k, m) = [k EXCEPT !.board = apply_move(@, m.pos, m.symbol),
                               !.my_round = (m.next = k.my_symbol)]
    BY <1>2 DEF Took
  <2>3. apply_move(k.board, m.pos, m.symbol) \in Board
    BY <2>1 DEF apply_move, Board, ClientState
  <2> QED BY <2>2, <2>3 DEF ClientState
<1>3. CASE m.id = "GameEnd"
  <2>1. Took(k, m) = [k EXCEPT !.at = "over"]
    BY <1>3 DEF Took
  <2> QED BY <2>1 DEF ClientState
<1> QED BY <1>1, <1>2, <1>3 DEF Message

\* What a client is after one message, and whether it goes on to a square.
Reads(k, m) ==
  LET t == Took(k, m)
  IN  IF t.at = "await" /\ t.my_symbol # None /\ t.my_round THEN [t EXCEPT !.at = "move"] ELSE t

LEMMA Reading ==
  ASSUME TicTacToeTypeOK, NEW c \in Player, ReceiveMsg(c)
  PROVE  LET m == Head(server.net[c])
             k == client'[c]
         IN  /\ m \in Message /\ server.net[c] \in Seq(Message) /\ client[c].at = "await"
             /\ k = Reads(client[c], m) /\ k \in ClientState
             /\ client' = [client EXCEPT ![c] = k]
             /\ k.at \in {"await", "move", "over"}
             /\ k.at = "over" <=> m.id = "GameEnd"
             /\ link' = IF k.at = "over" THEN [link EXCEPT ![c] = "closed"] ELSE link
             /\ server' = [server EXCEPT !.net[c] = Tail(@)]
             /\ moves' = moves /\ left' = left /\ end' = end
<1> DEFINE m == Head(server.net[c])
           t == Took(client[c], m)
           k == Reads(client[c], m)
<1>1. server.net[c] \in Seq(Message) /\ server.net[c] # <<>> /\ client[c] \in ClientState
      /\ client[c].at = "await"
  BY DEF TicTacToeTypeOK, ServerState, ReceiveMsg
<1>2. m \in Message
  BY <1>1, HeadTailProperties
<1>3. t \in ClientState
  BY <1>1, <1>2, TookType
<1>4. t.at = (IF m.id = "GameEnd" THEN "over" ELSE "await")
  <2>1. CASE m.id = "ServerAccept"
    BY <1>1, <2>1 DEF Took, ClientState
  <2>2. CASE m.id = "Move"
    BY <1>1, <2>2 DEF Took, ClientState
  <2>3. CASE m.id = "GameEnd"
    BY <1>1, <2>3 DEF Took, ClientState
  <2> QED BY <1>2, <2>1, <2>2, <2>3 DEF Message
<1>5. k = IF t.at = "await" /\ t.my_symbol # None /\ t.my_round THEN [t EXCEPT !.at = "move"] ELSE t
  BY DEF Reads
<1>6. /\ client' = [client EXCEPT ![c] = k]
      /\ link' = IF t.at = "over" THEN [link EXCEPT ![c] = "closed"] ELSE link
      /\ server' = [server EXCEPT !.net[c] = Tail(@)]
      /\ moves' = moves /\ left' = left /\ end' = end
  BY DEF ReceiveMsg, Reads
<1> HIDE DEF t, k, m
<1>7. k \in ClientState /\ (k.at = IF t.at = "await" /\ t.my_symbol # None /\ t.my_round
                                   THEN "move" ELSE t.at)
  BY <1>3, <1>5 DEF ClientState
<1>8. k.at \in {"await", "move", "over"} /\ (k.at = "over" <=> m.id = "GameEnd")
      /\ (k.at = "over" <=> t.at = "over")
  BY <1>4, <1>7
<1>9. client'[c] = k
  BY <1>6 DEF TicTacToeTypeOK
<1> QED BY <1>1, <1>2, <1>6, <1>7, <1>8, <1>9 DEF m, k

LEMMA NetAfter ==
  ASSUME TicTacToeTypeOK, NEW c \in Player, server.net[c] # <<>>,
         server' = [server EXCEPT !.net[c] = Tail(@)]
  PROVE  /\ server' \in ServerState
         /\ server'.symbols_left = server.symbols_left /\ server'.players = server.players
         /\ server'.started = server.started /\ server'.round = server.round
         /\ server'.board = server.board
         /\ server'.net[c] = Tail(server.net[c])
         /\ \A d \in Player \ {c} : server'.net[d] = server.net[d]
<1> DEFINE n == [server.net EXCEPT ![c] = Tail(@)]
<1>1. server \in ServerState /\ server.net \in [Player -> Seq(Message)]
  BY DEF TicTacToeTypeOK, ServerState
<1>2. Tail(server.net[c]) \in Seq(Message)
  BY <1>1, HeadTailProperties
<1>3. n \in [Player -> Seq(Message)] /\ n[c] = Tail(server.net[c])
      /\ \A d \in Player \ {c} : n[d] = server.net[d]
  BY <1>1, <1>2
<1>4. server' = [server EXCEPT !.net = n]
  OBVIOUS
<1> HIDE DEF n
<1> QED BY <1>1, <1>3, <1>4 DEF ServerState

LEMMA MoveTypes ==
  ASSUME TicTacToeTypeOK, moves # <<>>
  PROVE  /\ Head(moves) \in [from : Player, pos : Position]
         /\ Tail(moves) \in Seq([from : Player, pos : Position])
         /\ Head(moves) = moves[1] /\ 1 \in DOMAIN moves
         /\ \A i \in DOMAIN Tail(moves) : i + 1 \in DOMAIN moves /\ Tail(moves)[i] = moves[i + 1]
<1> DEFINE T == [from : Player, pos : Position]
<1>1. moves \in Seq(T)
  BY DEF TicTacToeTypeOK
<1> HIDE DEF T
<1>2. Head(moves) \in T /\ Tail(moves) \in Seq(T)
  BY <1>1, HeadTailProperties
<1>3. Head(moves) = moves[1] /\ 1 \in DOMAIN moves
  BY <1>1
<1>4. \A i \in DOMAIN Tail(moves) : i + 1 \in DOMAIN moves /\ Tail(moves)[i] = moves[i + 1]
  BY <1>1
<1> QED BY <1>2, <1>3, <1>4 DEF T

LEMMA HandleMoveTypes ==
  ASSUME TicTacToeTypeOK, HandleMove
  PROVE  /\ server' \in ServerState
         /\ \A d \in Player \ deqConns : server'.net[d] = server.net[d]
<1>1. server \in ServerState /\ moves # <<>>
  BY DEF TicTacToeTypeOK, HandleMove
<1>2. Head(moves).from \in Player /\ Head(moves).pos \in Position
  BY <1>1, MoveTypes
<1>3. CASE server' = Handled(server, Head(moves).from, Head(moves).pos)
  BY <1>1, <1>2, <1>3, Handling
<1> QED BY <1>1, <1>3 DEF HandleMove

LEMMA ValidateTypes ==
  ASSUME TicTacToeTypeOK, NEW c \in Player, ValidatePlayer(c)
  PROVE  /\ server' \in ServerState
         /\ \A d \in Player \ deqConns : server'.net[d] = server.net[d]
         /\ server.board = NoBoard => server'.board = NoBoard
<1>1. server \in ServerState
  BY DEF TicTacToeTypeOK
<1>2. CASE UNCHANGED server
  BY <1>1, <1>2
<1>3. ASSUME NEW y \in Symbol, server.symbols_left[y] > 0,
             server' = OnClientValidated(server, c, y)
      PROVE  /\ server' \in ServerState
             /\ \A d \in Player \ deqConns : server'.net[d] = server.net[d]
             /\ server.board = NoBoard => server'.board = NoBoard
  <2> DEFINE u == Seat(server, c, y)
  <2>1. u = Seat(server, c, y)
    OBVIOUS
  <2> HIDE DEF u
  <2> QED BY <1>1, <1>3, <2>1, Validating
<1> QED BY <1>2, <1>3 DEF ValidatePlayer

LEMMA SquaresInside == SquaresNow \subseteq Position
<1>1. {d \in Player : link[d] # "none"} \in SUBSET Player
  OBVIOUS
<1>2. Cardinality({d \in Player : link[d] # "none"}) \in 0 .. MaxPlayers
  <2>1. IsFiniteSet(Player) /\ Cardinality(Player) = MaxPlayers
    BY TicTacToeAssumption, FS_Interval DEF Player
  <2> QED BY <1>1, <2>1, TicTacToeAssumption, PlayersFinite, FS_Subset
<1> QED BY <1>2, TicTacToeAssumption DEF SquaresNow

LEMMA TicTacToeTypes == TicTacToeTypeOK /\ [TicTacToeNext]_tttVars => TicTacToeTypeOK'
<1> SUFFICES ASSUME TicTacToeTypeOK, [TicTacToeNext]_tttVars PROVE TicTacToeTypeOK'
  OBVIOUS
<1>1. /\ server \in ServerState /\ moves \in Seq([from : Player, pos : Position])
      /\ link \in [Player -> {"none", "pending", "open", "failed", "closed", "denied"}]
      /\ client \in [Player -> ClientState] /\ left \in SUBSET Player
      /\ wrong \in SUBSET Player /\ late \in SUBSET (Player \cup {Server})
      /\ end \in {"no", "exit(1)", "undefined", "race"}
  BY DEF TicTacToeTypeOK
<1>2. CASE HandleMove
  <2>1. server' \in ServerState
    BY <1>2, HandleMoveTypes
  <2>2. moves' \in Seq([from : Player, pos : Position])
    BY <1>2, MoveTypes DEF HandleMove
  <2>3. end' \in {"no", "exit(1)", "undefined", "race"} /\ UNCHANGED <<link, client, left, wrong>>
        /\ late' \in SUBSET (Player \cup {Server})
    BY <1>1, <1>2 DEF HandleMove
  <2> QED BY <1>1, <2>1, <2>2, <2>3 DEF TicTacToeTypeOK
<1>3. ASSUME NEW c \in Player, AcceptPlayer(c) PROVE TicTacToeTypeOK'
  BY <1>1, <1>3 DEF AcceptPlayer, TicTacToeTypeOK
<1>4. ASSUME NEW c \in Player, ValidatePlayer(c) PROVE TicTacToeTypeOK'
  <2>1. server' \in ServerState
    BY <1>4, ValidateTypes
  <2>2. link' = [link EXCEPT ![c] = "open"] /\ UNCHANGED <<moves, client, left, wrong, late>>
        /\ end' \in {"no", "exit(1)", "undefined", "race"}
    BY <1>1, <1>4 DEF ValidatePlayer
  <2> QED BY <1>1, <2>1, <2>2 DEF TicTacToeTypeOK
<1>5. ASSUME NEW c \in Player, ReceiveMsg(c) PROVE TicTacToeTypeOK'
  <2> DEFINE k == client'[c]
  <2>1. /\ k \in ClientState /\ client' = [client EXCEPT ![c] = k]
        /\ link' = IF k.at = "over" THEN [link EXCEPT ![c] = "closed"] ELSE link
        /\ server' = [server EXCEPT !.net[c] = Tail(@)]
        /\ moves' = moves /\ left' = left /\ end' = end
    BY <1>5, Reading
  <2>2. server' \in ServerState
    BY <1>5, <2>1, NetAfter DEF ReceiveMsg
  <2>3. client' \in [Player -> ClientState]
    <3> HIDE DEF k
    <3> QED BY <1>1, <2>1
  <2>4. link' \in [Player -> {"none", "pending", "open", "failed", "closed", "denied"}]
    BY <1>1, <2>1
  <2>5. wrong' = wrong /\ late' \in SUBSET (Player \cup {Server})
    BY <1>1, <1>5 DEF ReceiveMsg
  <2> QED BY <1>1, <2>1, <2>2, <2>3, <2>4, <2>5 DEF TicTacToeTypeOK
<1>6. ASSUME NEW c \in Player, NEW p \in SquaresNow, Place(c, p) PROVE TicTacToeTypeOK'
  <2>1. p \in Position
    BY SquaresInside
  <2>2. moves' \in Seq([from : Player, pos : Position])
    <3> DEFINE T == [from : Player, pos : Position]
               m == [from |-> c, pos |-> p]
    <3>1. m \in T /\ moves \in Seq(T) /\ moves' = Append(moves, m)
      BY <1>1, <1>6, <2>1 DEF Place
    <3> HIDE DEF T, m
    <3>2. moves' \in Seq(T)
      BY <3>1
    <3> QED BY <3>2 DEF T
  <2>3. client' \in [Player -> ClientState]
    <3> DEFINE k == [client[c] EXCEPT !.at = "await", !.my_round = FALSE]
    <3>1. client' = [client EXCEPT ![c] = k]
      BY <1>1, <1>6 DEF Place
    <3>2. k \in ClientState
      <4>1. client[c] \in ClientState
        BY <1>1
      <4> QED BY <4>1 DEF ClientState
    <3> HIDE DEF k
    <3> QED BY <1>1, <3>1, <3>2
  <2>4. server' = server /\ link' = link /\ left' = left /\ end' = end
        /\ wrong' = wrong /\ late' = late
    BY <1>6 DEF Place
  <2> QED BY <1>1, <2>2, <2>3, <2>4 DEF TicTacToeTypeOK
<1>7. ASSUME NEW c \in Player, Quit(c) PROVE TicTacToeTypeOK'
  <2>1. client' \in [Player -> ClientState]
    BY <1>1, <1>7 DEF Quit, ClientState
  <2>2. link' \in [Player -> {"none", "pending", "open", "failed", "closed", "denied"}]
        /\ left' \in SUBSET Player /\ UNCHANGED <<server, moves, wrong, end, late>>
    BY <1>1, <1>7 DEF Quit
  <2> QED BY <1>1, <2>1, <2>2 DEF TicTacToeTypeOK
<1>8. CASE UNCHANGED tttVars
  BY <1>1, <1>8 DEF TicTacToeTypeOK, tttVars
<1>9. ASSUME NEW c \in Player, FailPlayer(c) PROVE TicTacToeTypeOK'
  <2>1. server' \in ServerState
    BY <1>1, <1>9, Disconnecting DEF FailPlayer
  <2>2. wrong' \in SUBSET Player /\ UNCHANGED <<moves, client, left, end, late>>
        /\ link' = [link EXCEPT ![c] = "failed"]
    BY <1>1, <1>9 DEF FailPlayer
  <2> QED BY <1>1, <2>1, <2>2 DEF TicTacToeTypeOK
<1>10. ASSUME NEW c \in Player, Overlap(c) PROVE TicTacToeTypeOK'
  BY <1>1, <1>10 DEF Overlap, TicTacToeTypeOK
<1>11. ASSUME NEW k \in Player \cup {Server}, MissWakeup(k) PROVE TicTacToeTypeOK'
  BY <1>1, <1>11 DEF MissWakeup, TicTacToeTypeOK
<1> QED BY <1>2, <1>3, <1>4, <1>5, <1>6, <1>7, <1>8, <1>9, <1>10, <1>11 DEF TicTacToeNext

LEMMA EndsNext == TicTacToeTypeOK /\ Ends /\ [TicTacToeNext]_tttVars => Ends'
<1> SUFFICES ASSUME TicTacToeTypeOK, Ends, [TicTacToeNext]_tttVars PROVE Ends'
  OBVIOUS
<1>1. /\ moves \in Seq([from : Player, pos : Position])
      /\ link \in [Player -> {"none", "pending", "open", "failed", "closed", "denied"}]
      /\ client \in [Player -> ClientState] /\ left \in SUBSET Player
  BY DEF TicTacToeTypeOK
<1>2. CASE HandleMove
  <2>1. UNCHANGED <<link, client, left>> /\ moves # <<>> /\ moves' = Tail(moves) /\ deqConns' = deqConns
    BY <1>2 DEF HandleMove, deqConns
  <2>2. \A d \in Player \ deqConns : server'.net[d] = server.net[d]
    BY <1>2, HandleMoveTypes
  <2>3. \A i \in DOMAIN moves' : moves'[i].from \in deqConns
    BY <2>1, MoveTypes DEF Ends
  <2> QED BY <2>1, <2>2, <2>3 DEF Ends
<1>3. ASSUME NEW c \in Player, AcceptPlayer(c) PROVE Ends'
  <2>1. /\ link[c] = "none" /\ UNCHANGED <<server, moves, client, left>>
        /\ link'[c] \in {"pending", "denied"}
        /\ \A d \in Player \ {c} : link'[d] = link[d]
    BY <1>1, <1>3 DEF AcceptPlayer, Arrives
  <2>2. deqConns \subseteq deqConns'
    BY <2>1 DEF deqConns
  <2>3. \A i \in DOMAIN moves' : moves'[i].from \in deqConns'
    BY <2>1, <2>2 DEF Ends
  <2>4. ASSUME NEW d \in Player
        PROVE  /\ link'[d] = "closed" <=> client'[d].at \in {"over", "left"}
               /\ d \in left' <=> client'[d].at = "left"
               /\ d \notin deqConns' => server'.net[d] = <<>> /\ client'[d].at = "await"
    <3>1. link'[d] = "closed" <=> link[d] = "closed"
      BY <2>1
    <3> QED BY <2>1, <2>2, <3>1 DEF Ends
  <2> QED BY <2>3, <2>4 DEF Ends
<1>4. ASSUME NEW c \in Player, ValidatePlayer(c) PROVE Ends'
  <2>1. /\ link[c] = "pending" /\ link'[c] = "open" /\ UNCHANGED <<moves, client, left>>
        /\ \A d \in Player \ {c} : link'[d] = link[d]
    BY <1>1, <1>4 DEF ValidatePlayer
  <2>2. \A d \in Player \ deqConns : server'.net[d] = server.net[d]
    BY <1>4, ValidateTypes
  <2>3. deqConns' = deqConns
    BY <2>1 DEF deqConns
  <2>4. ASSUME NEW d \in Player PROVE link'[d] = "closed" <=> link[d] = "closed"
    BY <2>1
  <2> QED BY <2>1, <2>2, <2>3, <2>4 DEF Ends
<1>5. ASSUME NEW c \in Player, ReceiveMsg(c) PROVE Ends'
  <2> DEFINE k == client'[c]
  <2>1. /\ client' = [client EXCEPT ![c] = k] /\ client[c].at = "await"
        /\ k.at \in {"await", "move", "over"}
        /\ link' = IF k.at = "over" THEN [link EXCEPT ![c] = "closed"] ELSE link
        /\ server' = [server EXCEPT !.net[c] = Tail(@)]
        /\ moves' = moves /\ left' = left
    BY <1>5, Reading
  <2>2. server.net[c] # <<>> /\ c \in deqConns
    BY <1>5 DEF ReceiveMsg, Ends
  <2>3. \A d \in Player \ {c} : server'.net[d] = server.net[d]
    BY <2>1, <2>2, NetAfter
  <2>4. \A d \in Player \ {c} : client'[d] = client[d] /\ link'[d] = link[d]
    BY <1>1, <2>1
  <2>5. link'[c] = (IF k.at = "over" THEN "closed" ELSE link[c])
    BY <1>1, <2>1
  <2>6. link[c] # "closed" /\ c \notin left
    BY <2>1 DEF Ends
  <2>7. deqConns' = deqConns
    BY <2>2, <2>4, <2>5 DEF deqConns
  <2> HIDE DEF k
  <2>8. ASSUME NEW d \in Player
        PROVE  /\ link'[d] = "closed" <=> client'[d].at \in {"over", "left"}
               /\ d \in left' <=> client'[d].at = "left"
               /\ d \notin deqConns' => server'.net[d] = <<>> /\ client'[d].at = "await"
    <3>1. CASE d = c
      <4>1. client'[c].at = k.at
        BY DEF k
      <4> QED BY <2>1, <2>2, <2>5, <2>6, <2>7, <3>1, <4>1
    <3>2. CASE d # c
      BY <2>1, <2>3, <2>4, <2>7, <3>2 DEF Ends
    <3> QED BY <3>1, <3>2
  <2> QED BY <2>1, <2>7, <2>8 DEF Ends
<1>6. ASSUME NEW c \in Player, NEW p \in SquaresNow, Place(c, p) PROVE Ends'
  <2>1. /\ client[c].at = "move" /\ UNCHANGED <<server, link, left>>
        /\ client'[c].at = "await" /\ \A d \in Player \ {c} : client'[d] = client[d]
        /\ moves' = Append(moves, [from |-> c, pos |-> p]) /\ deqConns' = deqConns
    BY <1>1, <1>6 DEF Place, deqConns, ClientState
  <2>2. c \in deqConns /\ link[c] # "closed" /\ c \notin left
    BY <2>1 DEF Ends
  <2>3. \A i \in DOMAIN moves' : moves'[i].from \in deqConns
    <3> DEFINE T == [from : Player, pos : Position]
    <3>1. ASSUME NEW i \in DOMAIN moves'
          PROVE  (i \in DOMAIN moves /\ moves'[i] = moves[i]) \/ moves'[i] = [from |-> c, pos |-> p]
      BY <1>1, <2>1
    <3> QED BY <2>2, <3>1 DEF Ends
  <2>4. ASSUME NEW d \in Player
        PROVE  /\ link'[d] = "closed" <=> client'[d].at \in {"over", "left"}
               /\ d \in left' <=> client'[d].at = "left"
               /\ d \notin deqConns' => server'.net[d] = <<>> /\ client'[d].at = "await"
    <3>1. CASE d = c
      BY <2>1, <2>2, <3>1
    <3>2. CASE d # c
      BY <2>1, <3>2 DEF Ends
    <3> QED BY <3>1, <3>2
  <2> QED BY <2>1, <2>3, <2>4 DEF Ends
<1>7. ASSUME NEW c \in Player, Quit(c) PROVE Ends'
  <2>1. /\ IsOpen(c) /\ UNCHANGED <<server, moves>> /\ left' = left \cup {c}
        /\ client'[c].at = "left" /\ \A d \in Player \ {c} : client'[d] = client[d]
        /\ link'[c] = "closed" /\ \A d \in Player \ {c} : link'[d] = link[d]
    BY <1>1, <1>7 DEF Quit, ClientState
  <2>2. deqConns' = deqConns
    BY <2>1 DEF deqConns, IsOpen
  <2>3. c \in deqConns
    BY <2>1 DEF deqConns, IsOpen
  <2>4. ASSUME NEW d \in Player
        PROVE  /\ link'[d] = "closed" <=> client'[d].at \in {"over", "left"}
               /\ d \in left' <=> client'[d].at = "left"
               /\ d \notin deqConns' => server'.net[d] = <<>> /\ client'[d].at = "await"
    <3>1. CASE d = c
      BY <2>1, <2>2, <2>3, <3>1
    <3>2. CASE d # c
      BY <2>1, <2>2, <3>2 DEF Ends
    <3> QED BY <3>1, <3>2
  <2> QED BY <2>1, <2>2, <2>4 DEF Ends
<1>8. CASE UNCHANGED tttVars
  BY <1>8 DEF Ends, deqConns, tttVars
<1>9. ASSUME NEW c \in Player, FailPlayer(c) PROVE Ends'
  <2>1. /\ link[c] = "pending" /\ link'[c] = "failed" /\ UNCHANGED <<moves, client, left>>
        /\ \A d \in Player \ {c} : link'[d] = link[d]
    BY <1>1, <1>9 DEF FailPlayer
  <2>2. server'.net = server.net
    BY <1>9, Disconnecting DEF FailPlayer, TicTacToeTypeOK
  <2>3. deqConns' = deqConns
    BY <2>1 DEF deqConns
  <2>4. ASSUME NEW d \in Player PROVE link'[d] = "closed" <=> link[d] = "closed"
    BY <2>1
  <2> QED BY <2>1, <2>2, <2>3, <2>4 DEF Ends
<1>10. ASSUME NEW c \in Player, Overlap(c) PROVE Ends'
  BY <1>10 DEF Ends, deqConns, Overlap
<1>11. ASSUME NEW k \in Player \cup {Server}, MissWakeup(k) PROVE Ends'
  BY <1>11 DEF Ends, deqConns, MissWakeup
<1> QED BY <1>2, <1>3, <1>4, <1>5, <1>6, <1>7, <1>8, <1>9, <1>10, <1>11 DEF TicTacToeNext

-----------------------------------------------------------------------------
(* Steps that leave a game going *)

LEMMA WonKept ==
  ASSUME server'.board = server.board
  PROVE  Won' = Won /\ \A w : Winner(w)' = Winner(w)
BY DEF Won, Winner, HasLine

LEMMA SymbolKept ==
  ASSUME server'.players = server.players
  PROVE  \A d : SymbolOf(server', d) = SymbolOf(server, d)
BY DEF SymbolOf

\* What is known of a client that a step does not concern stays true.
LEMMA OthersKept ==
  ASSUME NEW d \in Player, client'[d] = client[d], server'.net[d] = server.net[d],
         SymbolOf(server', d) = SymbolOf(server, d)
  PROVE  /\ Idle(d) => Idle(d)'
         /\ OnTurn(d) /\ (moves' = <<>> <=> moves = <<>>) => OnTurn(d)'
         /\ Informed(d) /\ server'.board = server.board /\ (d \in deqConns' <=> d \in deqConns)
              => Informed(d)'
<1>1. \A m : GivesTurn(d, m)' <=> GivesTurn(d, m)
  BY DEF GivesTurn
<1>2. Idle(d) => Idle(d)'
  BY <1>1 DEF Idle
<1>3. OnTurn(d) /\ (moves' = <<>> <=> moves = <<>>) => OnTurn(d)'
  BY <1>1 DEF OnTurn
<1>4. Informed(d) /\ server'.board = server.board /\ (d \in deqConns' <=> d \in deqConns)
        => Informed(d)'
  BY WonKept DEF Informed, MovesTo
<1> QED BY <1>2, <1>3, <1>4

LEMMA GameAccept ==
  ASSUME TicTacToeTypeOK, Ends, NEW a \in Player, NEW b \in Player, GameOf(a, b),
         NEW c \in Player, AcceptPlayer(c)
  PROVE  GameOf(a, b)'
<1>1. /\ link[c] = "none" /\ link' = [link EXCEPT ![c] = "denied"]
      /\ server' = server /\ moves' = moves /\ client' = client /\ left' = left
  BY DEF GameOf, Seated, AcceptPlayer, Arrives
<1>2. link'[c] = "denied" /\ \A d \in Player \ {c} : link'[d] = link[d]
  BY <1>1 DEF TicTacToeTypeOK
<1>3. deqConns' = deqConns
  BY <1>1, <1>2 DEF deqConns
<1>4. Seated(a, b)'
  BY <1>1, <1>2 DEF GameOf, Seated
<1>5. \A d \in Player : (Informed(d) => Informed(d)') /\ (Idle(d) => Idle(d)')
                        /\ (OnTurn(d) => OnTurn(d)')
  BY <1>1, <1>3, OthersKept
<1>6. Turns(Holder(a, b))'
  BY <1>1, <1>5, WonKept DEF GameOf, Turns, Holder, MoveOf
<1> QED BY <1>1, <1>4, <1>5, <1>6 DEF GameOf

LEMMA GameValidate ==
  ASSUME TicTacToeTypeOK, Ends, NEW a \in Player, NEW b \in Player, GameOf(a, b),
         NEW c \in Player, ValidatePlayer(c)
  PROVE  GameOf(a, b)'
<1>1. /\ link[c] = "pending" /\ link' = [link EXCEPT ![c] = "open"]
      /\ moves' = moves /\ client' = client /\ left' = left
  BY DEF ValidatePlayer
<1>2. server' = server
  <2>1. \A y \in Symbol : ~(server.symbols_left[y] > 0)
    BY DEF GameOf, Seated, NoneLeft
  <2> QED BY <2>1 DEF ValidatePlayer
<1>3. link'[c] = "open" /\ \A d \in Player \ {c} : link'[d] = link[d]
  BY <1>1 DEF TicTacToeTypeOK
<1>4. deqConns' = deqConns
  BY <1>1, <1>3 DEF deqConns
<1>5. Seated(a, b)'
  BY <1>1, <1>2, <1>3 DEF GameOf, Seated
<1>6. \A d \in Player : (Informed(d) => Informed(d)') /\ (Idle(d) => Idle(d)')
                        /\ (OnTurn(d) => OnTurn(d)')
  BY <1>1, <1>2, <1>4, OthersKept
<1>7. Turns(Holder(a, b))'
  BY <1>1, <1>2, <1>6, WonKept DEF GameOf, Turns, Holder, MoveOf
<1> QED BY <1>1, <1>5, <1>6, <1>7 DEF GameOf

LEMMA GameQuit ==
  ASSUME TicTacToeTypeOK, Ends, NEW a \in Player, NEW b \in Player, GameOf(a, b),
         NEW c \in Player, Quit(c)
  PROVE  GameOf(a, b)'
<1>1. /\ IsOpen(c) /\ server' = server /\ moves' = moves /\ left' = left \cup {c}
      /\ link'[c] = "closed" /\ \A d \in Player \ {c} : link'[d] = link[d]
      /\ \A d \in Player \ {c} : client'[d] = client[d]
  BY DEF Quit, TicTacToeTypeOK
<1>2. deqConns' = deqConns
  BY <1>1 DEF deqConns, IsOpen
<1>3. Seated(a, b)'
  BY <1>1 DEF GameOf, Seated
<1>4. \A d \in Player \ {c} : (Informed(d) => Informed(d)') /\ (Idle(d) => Idle(d)')
                              /\ (OnTurn(d) => OnTurn(d)')
  BY <1>1, <1>2, OthersKept
<1>5. Turns(Holder(a, b))'
  <2>1. Holder(a, b)' = Holder(a, b) /\ Won' = Won
    BY <1>1, WonKept DEF Holder
  <2>2. PICK h \in Player : h = Holder(a, b)
    BY DEF Holder
  <2>3. MoveOf(h) => MoveOf(h)'
    BY <1>1, <2>1 DEF MoveOf
  <2>4. Turns(h)
    BY <2>2 DEF GameOf
  <2>5. Turns(h)'
    BY <1>1, <1>4, <2>1, <2>3, <2>4 DEF Turns
  <2> QED BY <2>1, <2>2, <2>5
<1> QED BY <1>1, <1>3, <1>4, <1>5 DEF GameOf

LEMMA ReadsFacts ==
  ASSUME NEW k \in ClientState, k.at = "await", NEW m \in Message, NEW r, r = Reads(k, m)
  PROVE  /\ m.id = "ServerAccept" => /\ r.my_symbol = m.symbol /\ r.board = k.board
                                     /\ r.my_round <=> (m.symbol = o \/ k.my_round)
         /\ m.id = "Move" => /\ r.my_symbol = k.my_symbol
                             /\ r.board = apply_move(k.board, m.pos, m.symbol)
                             /\ r.my_round <=> m.next = k.my_symbol
         /\ m.id = "GameEnd" => /\ r.my_symbol = k.my_symbol /\ r.board = k.board
                                /\ r.my_round = k.my_round /\ r.at = "over"
         /\ m.id # "GameEnd" =>
              r.at = IF r.my_symbol # None /\ r.my_round THEN "move" ELSE "await"
<1> DEFINE t == Took(k, m)
<1>1. r = IF t.at = "await" /\ t.my_symbol # None /\ t.my_round THEN [t EXCEPT !.at = "move"] ELSE t
  BY DEF Reads
<1>2. t \in ClientState
  BY TookType
<1>3. /\ m.id = "ServerAccept" => /\ t.my_symbol = m.symbol /\ t.board = k.board /\ t.at = "await"
                                  /\ t.my_round <=> (m.symbol = o \/ k.my_round)
      /\ m.id = "Move" => /\ t.my_symbol = k.my_symbol /\ t.at = "await"
                          /\ t.board = apply_move(k.board, m.pos, m.symbol)
                          /\ t.my_round <=> m.next = k.my_symbol
      /\ m.id = "GameEnd" => /\ t.my_symbol = k.my_symbol /\ t.board = k.board
                             /\ t.my_round = k.my_round /\ t.at = "over"
  <2>1. CASE m.id = "ServerAccept"
    BY <2>1 DEF Took, ClientState
  <2>2. CASE m.id = "Move"
    BY <2>2 DEF Took, ClientState
  <2>3. CASE m.id = "GameEnd"
    BY <2>3 DEF Took, ClientState
  <2> QED BY <2>1, <2>2, <2>3 DEF Message
<1> HIDE DEF t
<1>4. r.my_symbol = t.my_symbol /\ r.board = t.board /\ r.my_round = t.my_round
      /\ r.at = IF t.at = "await" /\ t.my_symbol # None /\ t.my_round THEN "move" ELSE t.at
  BY <1>1, <1>2 DEF ClientState
<1>5. m.id \in {"ServerAccept", "Move", "GameEnd"}
  BY DEF Message
<1> QED BY <1>3, <1>4, <1>5

\* The effect of one message on what is known of its client.
LEMMA ReceiveEffect ==
  ASSUME TicTacToeTypeOK, Ends, NEW c \in Player, ReceiveMsg(c)
  PROVE  LET k == client[c]
             r == client'[c]
             n == server.net[c]
             m == n[1]
         IN  /\ k \in ClientState /\ k.at = "await" /\ m \in Message /\ r = Reads(k, m)
             /\ n \in Seq(Message) /\ n # <<>> /\ server'.net[c] = Tail(n)
             /\ Len(n) \in Nat \ {0} /\ Len(Tail(n)) = Len(n) - 1
             /\ \A i \in 1 .. Len(n) - 1 : Tail(n)[i] = n[i + 1]
             /\ c \in deqConns /\ c \notin left /\ deqConns' = deqConns
             /\ \A d \in Player \ {c} : client'[d] = client[d] /\ server'.net[d] = server.net[d]
             /\ \A d \in Player : link'[d] # link[d] => link'[d] = "closed"
             /\ \A d : SymbolOf(server', d) = SymbolOf(server, d)
             /\ server'.board = server.board /\ server'.round = server.round
             /\ server'.started = server.started /\ server'.symbols_left = server.symbols_left
             /\ moves' = moves /\ left' = left
<1> DEFINE k == client[c]
           r == client'[c]
           n == server.net[c]
           m == Head(n)
<1>1. /\ m \in Message /\ n \in Seq(Message) /\ k.at = "await"
      /\ r = Reads(k, m)
      /\ client' = [client EXCEPT ![c] = r]
      /\ r.at \in {"await", "move", "over"}
      /\ link' = IF r.at = "over" THEN [link EXCEPT ![c] = "closed"] ELSE link
      /\ server' = [server EXCEPT !.net[c] = Tail(@)]
      /\ moves' = moves /\ left' = left
  BY Reading
<1>2. n # <<>> /\ c \in deqConns /\ c \notin left
  BY <1>1 DEF ReceiveMsg, Ends
<1>3. /\ server'.symbols_left = server.symbols_left /\ server'.players = server.players
      /\ server'.started = server.started /\ server'.round = server.round
      /\ server'.board = server.board
      /\ server'.net[c] = Tail(n)
      /\ \A d \in Player \ {c} : server'.net[d] = server.net[d]
  BY <1>1, <1>2, NetAfter
<1>4. k \in ClientState /\ link \in [Player -> {"none", "pending", "open", "failed", "closed", "denied"}]
      /\ client \in [Player -> ClientState]
  BY DEF TicTacToeTypeOK
<1> HIDE DEF r
<1>5. /\ \A d \in Player \ {c} : client'[d] = client[d]
      /\ \A d \in Player : link'[d] # link[d] => link'[d] = "closed" /\ d = c
      /\ link'[c] \in {link[c], "closed"}
  BY <1>1, <1>4
<1>6. deqConns' = deqConns
  <2>1. \A d \in Player : d \in deqConns' <=> d \in deqConns
    BY <1>2, <1>5 DEF deqConns
  <2> QED BY <2>1 DEF deqConns
<1>7. \A d : SymbolOf(server', d) = SymbolOf(server, d)
  BY <1>3, SymbolKept
<1>8. m = n[1] /\ Len(n) \in Nat \ {0} /\ Len(Tail(n)) = Len(n) - 1
      /\ \A i \in 1 .. Len(n) - 1 : Tail(n)[i] = n[i + 1]
  BY <1>1, <1>2
<1> HIDE DEF m, n, k
<1> QED BY <1>1, <1>2, <1>3, <1>4, <1>5, <1>6, <1>7, <1>8 DEF r, m, n, k

LEMMA ReceiveInformed ==
  ASSUME TicTacToeTypeOK, Ends, NEW c \in Player, ReceiveMsg(c), Informed(c)
  PROVE  Informed(c)'
<1> DEFINE k == client[c]
           r == client'[c]
           n == server.net[c]
           q == Tail(n)
           m == n[1]
           y == SymbolOf(server, c)
<1>1. /\ k \in ClientState /\ k.at = "await" /\ m \in Message /\ r = Reads(k, m)
      /\ n \in Seq(Message) /\ n # <<>> /\ server'.net[c] = q
      /\ Len(n) \in Nat \ {0} /\ Len(q) = Len(n) - 1
      /\ \A i \in 1 .. Len(n) - 1 : q[i] = n[i + 1]
      /\ c \in deqConns /\ deqConns' = deqConns /\ server'.board = server.board
      /\ SymbolOf(server', c) = y
  BY ReceiveEffect
<1>2. DOMAIN n = 1 .. Len(n) /\ DOMAIN q = 1 .. Len(n) - 1
  <2>1. q \in Seq(Message)
    BY <1>1
  <2> QED BY <1>1, <2>1
<1>3. /\ \A i \in 1 .. Len(n) :
           /\ n[i].id = "ServerAccept" => i = 1 /\ n[i].symbol = y
           /\ n[i].id = "Move" => n[i].symbol # None
           /\ n[i].id = "GameEnd" => Won /\ Winner(n[i].winner)
      /\ k.my_symbol = y \/ (k.my_symbol = None /\ m.id = "ServerAccept")
      /\ \A p \in Position :
           /\ \A i \in MovesTo(c, p) : n[i].symbol = server.board[p]
           /\ MovesTo(c, p) = {} => k.board[p] = server.board[p]
  BY <1>1, <1>2 DEF Informed
<1>4. Won' = Won /\ {s \in {o, x} : HasLine(s)'} = {s \in {o, x} : HasLine(s)}
  BY <1>1, WonKept DEF HasLine
<1>5. /\ m.id = "ServerAccept" => r.my_symbol = m.symbol /\ r.board = k.board
      /\ m.id = "Move" => /\ r.my_symbol = k.my_symbol
                          /\ r.board = apply_move(k.board, m.pos, m.symbol)
      /\ m.id = "GameEnd" => r.my_symbol = k.my_symbol /\ r.board = k.board
      /\ r.at = "over" => m.id = "GameEnd"
      /\ m.id \in {"ServerAccept", "Move", "GameEnd"}
  <2>1. m.id \in {"ServerAccept", "Move", "GameEnd"}
    BY <1>1 DEF Message
  <2> HIDE DEF k, m, r
  <2> QED BY <1>1, <2>1, ReadsFacts
<1>6. 1 \in 1 .. Len(n)
  BY <1>1
<1> HIDE DEF q
<1>7. ASSUME NEW i \in DOMAIN q
      PROVE  /\ q[i].id = "ServerAccept" => i = 1 /\ q[i].symbol = y
             /\ q[i].id = "Move" => q[i].symbol # None
             /\ q[i].id = "GameEnd" => Won' /\ {s \in {o, x} : HasLine(s)'} = {q[i].winner}
  <2>1. i + 1 \in 1 .. Len(n) /\ i + 1 # 1 /\ q[i] = n[i + 1]
    BY <1>1, <1>2
  <2> HIDE DEF n
  <2>2. /\ q[i].id = "ServerAccept" => i + 1 = 1
        /\ q[i].id = "Move" => q[i].symbol # None
        /\ q[i].id = "GameEnd" => Won /\ Winner(q[i].winner)
    BY <1>3, <2>1
  <2> QED BY <1>4, <2>1, <2>2 DEF Winner
<1>8. r.my_symbol = y
  BY <1>3, <1>5, <1>6
<1>9. r.at = "over" => Won'
  BY <1>3, <1>4, <1>5, <1>6
<1>10. ASSUME NEW p \in Position
       PROVE  /\ \A i \in MovesTo(c, p)' : q[i].symbol = server'.board[p]
              /\ MovesTo(c, p)' = {} => r.board[p] = server'.board[p]
  <2>1. MovesTo(c, p)' = {i \in DOMAIN q : q[i].id = "Move" /\ q[i].pos = p}
    BY <1>1 DEF MovesTo
  <2>2. MovesTo(c, p) = {i \in DOMAIN n : n[i].id = "Move" /\ n[i].pos = p}
    BY DEF MovesTo
  <2>3. ASSUME NEW i \in DOMAIN q PROVE i + 1 \in 1 .. Len(n) /\ q[i] = n[i + 1]
    BY <1>1, <1>2, <2>3
  <2>4. ASSUME NEW i \in MovesTo(c, p)' PROVE q[i].symbol = server'.board[p]
    <3>1. i \in DOMAIN q /\ q[i].id = "Move" /\ q[i].pos = p
      BY <2>1, <2>4
    <3>2. i + 1 \in MovesTo(c, p)
      BY <1>2, <2>2, <2>3, <3>1
    <3> QED BY <1>1, <1>3, <2>3, <3>1, <3>2
  <2>5. ASSUME MovesTo(c, p)' = {} PROVE r.board[p] = server.board[p]
    <3>1. ASSUME NEW j \in MovesTo(c, p) PROVE j = 1
      <4>1. j \in 1 .. Len(n) /\ n[j].id = "Move" /\ n[j].pos = p
        BY <1>2, <2>2, <3>1
      <4>2. ASSUME j # 1 PROVE FALSE
        <5>1. PICK i \in 1 .. Len(n) - 1 : i + 1 = j
          <6>1. j - 1 \in 1 .. Len(n) - 1 /\ (j - 1) + 1 = j
            BY <1>1, <4>1, <4>2
          <6> QED BY <6>1
        <5>2. i \in DOMAIN q /\ q[i] = n[j]
          BY <1>1, <1>2, <5>1
        <5> QED BY <2>1, <2>5, <4>1, <5>2
      <4> QED BY <4>2
    <3>2. CASE m.id = "Move" /\ m.pos = p
      <4>1. 1 \in MovesTo(c, p)
        BY <1>2, <1>6, <2>2, <3>2
      <4>2. m.symbol = server.board[p]
        BY <1>3, <4>1
      <4>3. r.board[p] = m.symbol
        <5>1. k.board \in [Position -> Symbol]
          BY <1>1 DEF ClientState, Board
        <5> QED BY <1>5, <3>2, <5>1 DEF apply_move
      <4> QED BY <4>2, <4>3
    <3>3. CASE ~(m.id = "Move" /\ m.pos = p)
      <4>1. MovesTo(c, p) = {}
        <5>1. 1 \notin MovesTo(c, p)
          BY <2>2, <3>3
        <5> QED BY <3>1, <5>1
      <4>2. k.board[p] = server.board[p]
        BY <1>3, <4>1
      <4>3. r.board[p] = k.board[p]
        <5>1. k.board \in [Position -> Symbol]
          BY <1>1 DEF ClientState, Board
        <5> HIDE DEF k, m, r
        <5>2. CASE m.id = "Move"
          BY <1>5, <3>3, <5>1, <5>2 DEF apply_move
        <5>3. CASE m.id # "Move"
          BY <1>5, <5>3
        <5> QED BY <5>2, <5>3
      <4> QED BY <4>2, <4>3
    <3> QED BY <3>2, <3>3
  <2> QED BY <1>1, <2>4, <2>5
<1>11. server'.net[c] = q /\ c \in deqConns' /\ SymbolOf(server', c) = y
  BY <1>1
<1> HIDE DEF n, m, k, y
<1> QED BY <1>7, <1>8, <1>9, <1>10, <1>11 DEF Informed, Winner, r

LEMMA ReceiveIdle ==
  ASSUME TicTacToeTypeOK, Ends, NEW c \in Player, ReceiveMsg(c), Informed(c),
         ~GivesTurn(c, server.net[c][1]),
         SymbolOf(server, c) # None => ~client[c].my_round
  PROVE  /\ client'[c].at # "move"
         /\ SymbolOf(server, c) # None => ~client'[c].my_round
<1> DEFINE k == client[c]
           r == client'[c]
           m == server.net[c][1]
           y == SymbolOf(server, c)
<1>1. /\ k \in ClientState /\ k.at = "await" /\ m \in Message /\ r = Reads(k, m)
      /\ server.net[c] # <<>> /\ server.net[c] \in Seq(Message)
  BY ReceiveEffect
<1>2. 1 \in DOMAIN server.net[c]
  BY <1>1
<1>3. /\ m.id = "ServerAccept" => m.symbol = y
      /\ k.my_symbol = y \/ (k.my_symbol = None /\ m.id = "ServerAccept")
  BY <1>2 DEF Informed
<1>4. ~(m.id = "ServerAccept" /\ m.symbol = o) /\ ~(m.id = "Move" /\ m.next # None /\ m.next = y)
  BY DEF GivesTurn
<1>5. m.id \in {"ServerAccept", "Move", "GameEnd"}
  BY <1>1 DEF Message
<1> HIDE DEF m, r, k, y
<1>6. /\ m.id = "ServerAccept" => /\ r.my_symbol = m.symbol
                                  /\ r.my_round <=> (m.symbol = o \/ k.my_round)
      /\ m.id = "Move" => /\ r.my_symbol = k.my_symbol
                          /\ r.my_round <=> m.next = k.my_symbol
      /\ m.id = "GameEnd" => r.at = "over" /\ r.my_round = k.my_round
      /\ m.id # "GameEnd" =>
           r.at = IF r.my_symbol # None /\ r.my_round THEN "move" ELSE "await"
  BY <1>1, ReadsFacts
<1> QED BY <1>3, <1>4, <1>5, <1>6 DEF m, r, k, y

LEMMA GameReceive ==
  ASSUME TicTacToeTypeOK, Ends, NEW a \in Player, NEW b \in Player, GameOf(a, b),
         NEW c \in Player, ReceiveMsg(c)
  PROVE  GameOf(a, b)'
<1>0. PICK n, q : n = server.net[c] /\ q = Tail(n)
  OBVIOUS
<1>1. /\ n \in Seq(Message) /\ n # <<>> /\ server'.net[c] = q /\ q \in Seq(Message)
      /\ Len(n) \in Nat \ {0} /\ Len(q) = Len(n) - 1
      /\ \A i \in 1 .. Len(n) - 1 : q[i] = n[i + 1]
      /\ c \in deqConns /\ c \notin left /\ deqConns' = deqConns
      /\ \A d \in Player \ {c} : client'[d] = client[d] /\ server'.net[d] = server.net[d]
      /\ \A d \in Player : link'[d] # link[d] => link'[d] = "closed"
      /\ \A d : SymbolOf(server', d) = SymbolOf(server, d)
      /\ server'.board = server.board /\ server'.round = server.round
      /\ server'.started = server.started /\ server'.symbols_left = server.symbols_left
      /\ moves' = moves /\ left' = left
      /\ client[c].at = "await" /\ client[c] \in ClientState
  <2>1. n \in Seq(Message) /\ n # <<>>
    BY <1>0, ReceiveEffect
  <2>2. q \in Seq(Message)
    BY <1>0, <2>1
  <2> QED BY <1>0, <2>1, <2>2, ReceiveEffect
<1>2. Seated(a, b)'
  BY <1>1 DEF GameOf, Seated
<1>3. \A d \in Player \ {c} : (Informed(d) => Informed(d)') /\ (Idle(d) => Idle(d)')
                              /\ (OnTurn(d) => OnTurn(d)')
  BY <1>1, OthersKept
<1>4. Informed(c) /\ Informed(c)'
  BY <1>1, ReceiveInformed DEF GameOf
<1>5. \A m : GivesTurn(c, m)' <=> GivesTurn(c, m)
  BY <1>1 DEF GivesTurn
<1>6. DOMAIN n = 1 .. Len(n) /\ DOMAIN q = 1 .. Len(n) - 1 /\ 1 \in 1 .. Len(n)
  BY <1>1
<1>7. Idle(c) => Idle(c)'
  <2> SUFFICES ASSUME Idle(c) PROVE Idle(c)'
    OBVIOUS
  <2>1. ~GivesTurn(c, n[1]) /\ \A i \in 1 .. Len(n) : ~GivesTurn(c, n[i])
    BY <1>0, <1>6 DEF Idle
  <2>2. /\ client'[c].at # "move"
        /\ SymbolOf(server, c) # None => ~client'[c].my_round
    BY <1>0, <1>4, <2>1, ReceiveIdle DEF Idle
  <2>3. ASSUME NEW i \in DOMAIN q PROVE ~GivesTurn(c, q[i])'
    <3>1. i + 1 \in 1 .. Len(n) /\ q[i] = n[i + 1]
      BY <1>1, <1>6
    <3>2. ~GivesTurn(c, q[i])
      BY <2>1, <3>1
    <3> QED BY <1>5, <3>2
  <2> QED BY <1>1, <2>2, <2>3 DEF Idle
<1>8. Holder(a, b)' = Holder(a, b) /\ Won' = Won
  BY <1>1, WonKept DEF Holder
<1>9. PICK h \in Player : h = Holder(a, b) /\ SymbolOf(server, h) # None
  BY SymbolFacts DEF Holder, GameOf, Seated
<1>10. Turns(h)
  BY <1>9 DEF GameOf
<1>11. ASSUME c = h, ~Won, OnTurn(c) PROVE OnTurn(c)'
  <2>1. /\ ~client[c].my_round /\ moves = <<>> /\ GivesTurn(c, n[Len(n)])
        /\ \A i \in 1 .. Len(n) - 1 : ~GivesTurn(c, n[i])
    BY <1>0, <1>1, <1>11 DEF OnTurn
  <2>2. CASE Len(n) = 1
    <3> DEFINE k == client[c]
               r == client'[c]
               m == n[1]
    <3>1. q = <<>> /\ GivesTurn(c, m)
      <4>1. Len(q) = 0
        BY <1>1, <2>2
      <4> QED BY <1>1, <2>1, <2>2, <4>1
    <3>2. /\ m.id = "ServerAccept" => m.symbol = SymbolOf(server, c)
          /\ k.my_symbol = SymbolOf(server, c) \/ m.id = "ServerAccept"
      BY <1>0, <1>4, <1>6 DEF Informed
    <3>3. m \in Message /\ r = Reads(k, m) /\ k \in ClientState /\ k.at = "await"
      BY <1>0, ReceiveEffect
    <3> HIDE DEF k, r, m
    <3>4. /\ m.id = "ServerAccept" => /\ r.my_symbol = m.symbol
                                      /\ r.my_round <=> (m.symbol = o \/ k.my_round)
          /\ m.id = "Move" => /\ r.my_symbol = k.my_symbol
                              /\ r.my_round <=> m.next = k.my_symbol
          /\ m.id # "GameEnd" =>
               r.at = IF r.my_symbol # None /\ r.my_round THEN "move" ELSE "await"
      BY <3>3, ReadsFacts
    <3>5. r.at = "move"
      BY <1>9, <1>11, <3>1, <3>2, <3>4 DEF GivesTurn
    <3> QED BY <1>1, <2>1, <3>1, <3>5 DEF OnTurn, r
  <2>3. CASE Len(n) # 1
    <3>1. 1 \in 1 .. Len(n) - 1
      BY <1>1, <2>3
    <3>2. ~GivesTurn(c, n[1])
      BY <2>1, <3>1
    <3>3. client'[c].at # "move" /\ ~client'[c].my_round
      BY <1>0, <1>4, <1>9, <1>11, <2>1, <3>2, ReceiveIdle
    <3>4. client'[c].at = "await"
      <4>1. client'[c].at # "over"
        BY <1>4, <1>8, <1>11 DEF Informed
      <4>2. client'[c].at \in {"await", "move", "over"}
        BY Reading
      <4> QED BY <3>3, <4>1, <4>2
    <3>5. Len(q) \in 1 .. Len(n) - 1 /\ Len(q) + 1 = Len(n) /\ Len(q) # 0
      BY <1>1, <2>3
    <3>6. q # <<>> /\ q[Len(q)] = n[Len(n)]
      <4>1. q[Len(q)] = n[Len(q) + 1]
        BY <1>1, <3>5
      <4> QED BY <3>5, <4>1
    <3>7. ASSUME NEW i \in 1 .. Len(q) - 1 PROVE ~GivesTurn(c, q[i])'
      <4>1. i \in 1 .. Len(n) - 1 /\ i + 1 \in 1 .. Len(n) - 1
        BY <1>1, <3>7
      <4>2. q[i] = n[i + 1]
        BY <1>1, <4>1
      <4>3. ~GivesTurn(c, q[i])
        BY <2>1, <4>1, <4>2
      <4> QED BY <1>5, <4>3
    <3>8. GivesTurn(c, q[Len(q)])'
      BY <1>5, <2>1, <3>6
    <3>9. server'.net[c] = q /\ moves' = <<>>
      BY <1>1, <2>1
    <3> QED BY <3>3, <3>4, <3>6, <3>7, <3>8, <3>9 DEF OnTurn
  <2> QED BY <2>2, <2>3
<1>12. MoveOf(h) => MoveOf(h)'
  BY <1>1 DEF MoveOf
<1>13. Turns(h)'
  BY <1>1, <1>3, <1>7, <1>8, <1>10, <1>11, <1>12 DEF Turns
<1>14. Turns(Holder(a, b))'
  BY <1>8, <1>9, <1>13
<1> QED BY <1>1, <1>2, <1>3, <1>4, <1>14 DEF GameOf

LEMMA GamePlace ==
  ASSUME TicTacToeTypeOK, Ends, NEW a \in Player, NEW b \in Player, GameOf(a, b),
         NEW c \in Player, NEW p \in Position, Place(c, p)
  PROVE  GameOf(a, b)'
<1>1. /\ client[c].at = "move" /\ client[c].board[p] = None
      /\ client' = [client EXCEPT ![c].at = "await", ![c].my_round = FALSE]
      /\ moves' = Append(moves, [from |-> c, pos |-> p])
      /\ server' = server /\ link' = link /\ left' = left
  BY DEF Place, check_valid_move
<1>2. /\ \A d \in Player \ {c} : client'[d] = client[d]
      /\ client'[c].at = "await" /\ ~client'[c].my_round
      /\ client'[c].my_symbol = client[c].my_symbol /\ client'[c].board = client[c].board
  BY <1>1 DEF TicTacToeTypeOK, ClientState
<1>3. c \notin left /\ c \in deqConns /\ deqConns' = deqConns
  BY <1>1 DEF Ends, deqConns
<1>4. PICK h \in Player : h = Holder(a, b)
  BY DEF Holder
<1>5. Turns(h) /\ Informed(c)
  BY <1>3, <1>4 DEF GameOf
<1>6. c = h /\ ~Won
  BY <1>1, <1>3, <1>5 DEF Turns, Idle
<1>7. server.net[c] = <<>> /\ moves = <<>>
  BY <1>1, <1>3, <1>5, <1>6 DEF Turns, OnTurn
<1>8. server.board[p] = None
  <2>1. MovesTo(c, p) = {}
    BY <1>7 DEF MovesTo
  <2> QED BY <1>1, <1>3, <1>5, <2>1 DEF Informed
<1>9. moves' = <<[from |-> c, pos |-> p]>>
  BY <1>1, <1>7
<1>10. MoveOf(h)'
  BY <1>1, <1>6, <1>8, <1>9 DEF MoveOf
<1>11. OnTurn(h)'
  BY <1>1, <1>2, <1>6, <1>7, <1>9 DEF OnTurn
<1>12. \A d \in Player \ {c} : (Informed(d) => Informed(d)') /\ (Idle(d) => Idle(d)')
  BY <1>1, <1>2, <1>3, OthersKept
<1>13. Informed(c)'
  <2>1. Won' = Won /\ \A w : Winner(w)' = Winner(w)
    BY <1>1, WonKept
  <2>2. \A q : MovesTo(c, q)' = {} /\ MovesTo(c, q) = {}
    BY <1>1, <1>7 DEF MovesTo
  <2>3. /\ client[c].my_symbol = SymbolOf(server, c)
        /\ \A q \in Position : client[c].board[q] = server.board[q]
    BY <1>3, <1>5, <1>7, <2>2 DEF Informed
  <2>4. SymbolOf(server', c) = SymbolOf(server, c) /\ server'.net[c] = <<>>
    BY <1>1, <1>7
  <2>5. DOMAIN server'.net[c] = {}
    BY <2>4
  <2> QED BY <1>1, <1>2, <2>2, <2>3, <2>4, <2>5 DEF Informed
<1>14. Turns(h)'
  BY <1>1, <1>5, <1>6, <1>10, <1>11, <1>12, WonKept DEF Turns
<1>15. Holder(a, b)' = Holder(a, b)
  BY <1>1 DEF Holder
<1>16. Seated(a, b)'
  BY <1>1 DEF GameOf, Seated
<1>17. \A d \in Player \ left' : Informed(d)'
  BY <1>1, <1>12, <1>13 DEF GameOf
<1> QED BY <1>4, <1>14, <1>15, <1>16, <1>17 DEF GameOf

-----------------------------------------------------------------------------
(* A move *)

\* The first line there is, is one of the player that has just moved.
LEMMA WinnerIs ==
  ASSUME NEW board \in Board, NEW p \in Position, board[p] = None, NEW y \in {o, x},
         ~\E i \in DOMAIN Lines : Wins(board, Lines[i]),
         NEW b, b = apply_move(board, p, y), check_win(b) # None
  PROVE  /\ check_win(b) = y
         /\ \A s \in {o, x} : (\E i \in DOMAIN Lines : \A q \in {Lines[i][j] : j \in 1 .. 3} : b[q] = s)
                              <=> s = y
<1>1. b \in Board /\ b[p] = y /\ \A q \in Position \ {p} : b[q] = board[q]
  BY SymbolFacts DEF apply_move, Board
<1>2. ASSUME NEW i \in 1 .. 8, Wins(b, Lines[i])
      PROVE  b[Lines[i][1]] = y /\ b[Lines[i][2]] = y /\ b[Lines[i][3]] = y
  <2> DEFINE q == Lines[i][1]
             r == Lines[i][2]
             t == Lines[i][3]
  <2>1. q \in Position /\ r \in Position /\ t \in Position
    BY LineSquares
  <2>2. b[q] # None /\ b[r] = b[q] /\ b[t] = b[q]
    BY <1>1, <1>2, WinsEqual
  <2>3. ~(board[q] # None /\ board[r] = board[q] /\ board[t] = board[q])
    <3>1. ~Wins(board, Lines[i])
      BY LineSquares
    <3> QED BY <3>1, WinsEqual
  <2> HIDE DEF q, r, t
  <2>4. q = p \/ r = p \/ t = p
    BY <1>1, <2>1, <2>2, <2>3
  <2>5. b[q] = y /\ b[r] = y /\ b[t] = y
    BY <1>1, <2>2, <2>4
  <2> QED BY <2>5 DEF q, r, t
<1>3. PICK i \in 1 .. 8 : Wins(b, Lines[i]) /\ check_win(b) = b[Lines[i][1]]
  BY <1>1, CheckWin, LineSquares
<1>4. check_win(b) = y
  BY <1>2, <1>3
<1>5. \A q \in {Lines[i][j] : j \in 1 .. 3} : b[q] = y
  <2>1. {Lines[i][j] : j \in 1 .. 3} = {Lines[i][1], Lines[i][2], Lines[i][3]}
    BY LineSquares
  <2> QED BY <1>2, <1>3, <2>1
<1>6. ASSUME NEW s \in {o, x}, NEW k \in DOMAIN Lines,
             \A q \in {Lines[k][j] : j \in 1 .. 3} : b[q] = s
      PROVE  s = y
  <2>1. k \in 1 .. 8
    BY LineSquares
  <2>2. {Lines[k][j] : j \in 1 .. 3} = {Lines[k][1], Lines[k][2], Lines[k][3]}
    BY <2>1, LineSquares
  <2>3. b[Lines[k][1]] = s /\ b[Lines[k][2]] = s /\ b[Lines[k][3]] = s
    BY <1>6, <2>2
  <2>4. Wins(b, Lines[k])
    <3>1. s # None
      BY <1>6, SymbolFacts
    <3> QED BY <1>1, <2>1, <2>3, <3>1, WinsEqual
  <2> QED BY <1>2, <2>1, <2>3, <2>4
<1>7. i \in DOMAIN Lines
  BY LineSquares
<1> QED BY <1>4, <1>5, <1>6, <1>7

\* While nobody has left, the connections are open until the game is over.
LEMMA AllThere ==
  ASSUME TicTacToeTypeOK, Ends, left = {}, NEW a, NEW b, GameOf(a, b), ~Won
  PROVE  Gone = {} /\ \A c \in Player : client[c].at \in {"await", "move"}
<1>1. ASSUME NEW c \in Player PROVE client[c].at \in {"await", "move"}
  <2>1. Informed(c)
    BY DEF GameOf
  <2>2. client[c].at # "over" /\ client[c].at # "left"
    BY <2>1 DEF Informed, Ends
  <2> QED BY <2>2 DEF TicTacToeTypeOK, ClientState
<1>2. \A c \in Player : link[c] # "closed"
  BY <1>1 DEF Ends
<1> QED BY <1>1, <1>2 DEF Gone, deqConns, IsOpen

\* What a move adds to the messages under way to a client.
LEMMA NetMove ==
  ASSUME NEW n \in Seq(Message), NEW m \in Message, NEW w \in Symbol, NEW q,
         q = IF w = None THEN Append(n, m) ELSE Append(Append(n, m), GameEnd(w))
  PROVE  /\ q \in Seq(Message) /\ q # <<>>
         /\ DOMAIN n = 1 .. Len(n) /\ Len(n) \in Nat
         /\ \A i \in DOMAIN n : i \in DOMAIN q /\ q[i] = n[i]
         /\ Len(n) + 1 \in DOMAIN q /\ q[Len(n) + 1] = m
         /\ \A i \in DOMAIN q : \/ i \in DOMAIN n
                                \/ i = Len(n) + 1
                                \/ (w # None /\ q[i] = GameEnd(w))
         /\ w = None => Len(q) = Len(n) + 1
<1>1. GameEnd(w) \in Message
  BY DEF GameEnd, Message
<1>2. CASE w = None
  BY <1>2
<1>3. CASE w # None
  <2> DEFINE u == Append(n, m)
             e == GameEnd(w)
  <2>1. u \in Seq(Message) /\ Len(u) = Len(n) + 1 /\ u[Len(n) + 1] = m
        /\ \A i \in 1 .. Len(n) : u[i] = n[i]
    OBVIOUS
  <2>2. Len(n) \in Nat /\ DOMAIN n = 1 .. Len(n) /\ q = Append(u, e) /\ e \in Message
    BY <1>1, <1>3
  <2> HIDE DEF u, e
  <2>3. /\ q \in Seq(Message) /\ Len(q) = Len(u) + 1 /\ DOMAIN q = 1 .. Len(u) + 1
        /\ q[Len(u) + 1] = e /\ \A i \in 1 .. Len(u) : q[i] = u[i]
    BY <2>1, <2>2
  <2>4. Len(n) + 1 \in 1 .. Len(u) /\ \A i \in 1 .. Len(n) : i \in 1 .. Len(u) /\ i \in 1 .. Len(u) + 1
    BY <2>1, <2>2
  <2>5. q[Len(n) + 1] = m /\ Len(n) + 1 \in DOMAIN q
    BY <2>1, <2>3, <2>4
  <2>6. \A i \in DOMAIN n : i \in DOMAIN q /\ q[i] = n[i]
    BY <2>1, <2>2, <2>3, <2>4
  <2>7. \A i \in 1 .. Len(u) + 1 : i \in 1 .. Len(n) \/ i = Len(n) + 1 \/ i = Len(u) + 1
    BY <2>1, <2>2
  <2>8. q # <<>>
    BY <2>3
  <2> QED BY <1>3, <2>2, <2>3, <2>5, <2>6, <2>7, <2>8 DEF e
<1> QED BY <1>2, <1>3

LEMMA GameHandle ==
  ASSUME TicTacToeTypeOK, Ends, left = {}, NEW a \in Player, NEW b \in Player, GameOf(a, b),
         HandleMove
  PROVE  GameOf(a, b)'
<1>1. PICK h \in Player : h = Holder(a, b)
  BY DEF Holder
<1>2. moves # <<>> /\ Turns(h)
  BY <1>1 DEF HandleMove, GameOf
<1>3. ~Won /\ MoveOf(h) /\ OnTurn(h) /\ \A c \in Player : c # h => Idle(c)
  BY <1>2 DEF Turns
<1>4. PICK p \in Position : server.board[p] = None /\ moves = <<[from |-> h, pos |-> p]>>
  BY <1>2, <1>3 DEF MoveOf
<1>5. Gone = {} /\ \A c \in Player : client[c].at \in {"await", "move"}
  BY <1>3, AllThere
<1>6. /\ Head(moves).from = h /\ Head(moves).pos = p /\ moves' = <<>>
      /\ link' = link /\ client' = client /\ left' = left
  BY <1>4 DEF HandleMove
<1>7. /\ a # b /\ SymbolOf(server, a) = o /\ SymbolOf(server, b) = x
      /\ link[a] \in {"open", "closed"} /\ link[b] \in {"open", "closed"}
      /\ \A c \in Player \ {a, b} : SymbolOf(server, c) = None
      /\ server.started /\ server.symbols_left = NoneLeft
  BY DEF GameOf, Seated
<1>8. h \in deqConns /\ server \in ServerState
  BY <1>1, <1>7 DEF Holder, deqConns, TicTacToeTypeOK
<1>9. server' = OnMove(server, h, p)
  <2>1. check_valid_move(server.board, p)
    BY <1>4 DEF check_valid_move
  <2>2. server' = Handled(server, h, p)
    BY <1>6, <2>1 DEF HandleMove
  <2> QED BY <1>5, <1>7, <1>8, <2>2, Handling
<1>10. PICK y, B, w, m :
         /\ y = SymbolOf(server, h) /\ B = apply_move(server.board, p, y) /\ w = check_win(B)
         /\ m = MoveMsg(p, y, IF w = None THEN NextRound(server.round) ELSE None)
  OBVIOUS
<1>11. /\ server'.round = NextRound(server.round) /\ B \in Board
       /\ server'.board = B /\ server'.started = server.started
       /\ server'.symbols_left = server.symbols_left
       /\ \A d : SymbolOf(server', d) = SymbolOf(server, d)
       /\ \A d \in Player : d \in deqConns => server'.net[d] =
            IF w = None THEN Append(server.net[d], m)
                        ELSE Append(Append(server.net[d], m), GameEnd(w))
       /\ \A d \in Player : d \notin deqConns => server'.net[d] = server.net[d]
  <2>1. /\ server'.round = NextRound(server.round) /\ B \in Board
        /\ server'.board = B /\ server'.started = server.started
        /\ server'.symbols_left = server.symbols_left
        /\ \A d : SymbolOf(server', d) = SymbolOf(server, d)
        /\ \A d \in Player : server'.net[d] =
              IF d \in deqConns /\ IsOpen(d)
              THEN IF w = None THEN Append(server.net[d], m)
                               ELSE Append(Append(server.net[d], m), GameEnd(w))
              ELSE server.net[d]
    BY <1>5, <1>8, <1>9, <1>10, Moving
  <2>2. \A d \in deqConns : IsOpen(d)
    BY <1>5 DEF Gone
  <2> QED BY <2>1, <2>2
<1>12. y \in {o, x} /\ y # None /\ y = server.round /\ NextRound(server.round) \in {o, x}
       /\ NextRound(server.round) # y
  <2>1. server.round \in {o, x}
    BY <1>8 DEF ServerState
  <2> QED BY <1>1, <1>7, <1>10, <2>1, SymbolFacts DEF Holder
<1>13. PICK g \in Player : g = Holder(a, b)' /\ g # h /\ SymbolOf(server, g) = NextRound(server.round)
  BY <1>1, <1>7, <1>11, <1>12, SymbolFacts DEF Holder
<1>14. Won' <=> w # None
  <2>1. w = None <=> ~\E i \in DOMAIN Lines : Wins(B, Lines[i])
    BY <1>10, <1>11, CheckWin
  <2> QED BY <1>11, <2>1 DEF Won
<1>15. w # None => {s \in {o, x} : HasLine(s)'} = {w}
  <2> SUFFICES ASSUME w # None PROVE {s \in {o, x} : HasLine(s)'} = {w}
    OBVIOUS
  <2>1. /\ w = y
        /\ \A s \in {o, x} : (\E i \in DOMAIN Lines : \A q \in {Lines[i][j] : j \in 1 .. 3} : B[q] = s)
                             <=> s = y
    <3>1. server.board \in Board /\ ~\E i \in DOMAIN Lines : Wins(server.board, Lines[i])
      BY <1>3, <1>8 DEF ServerState, Won
    <3> QED BY <1>4, <1>10, <1>12, <3>1, WinnerIs
  <2>2. \A s \in {o, x} : HasLine(s)' <=> s = y
    BY <1>11, <2>1 DEF HasLine
  <2> QED BY <1>12, <2>1, <2>2
<1>16. Seated(a, b)'
  BY <1>6, <1>7, <1>11 DEF Seated
<1>17. deqConns' = deqConns
  BY <1>6 DEF deqConns
<1>18. /\ m \in Message /\ m.id = "Move" /\ m.pos = p /\ m.symbol = y
      /\ m.next = (IF w = None THEN NextRound(server.round) ELSE None)
      /\ w \in Symbol /\ GameEnd(w).id = "GameEnd" /\ GameEnd(w).winner = w
  <2>1. w \in Symbol
    BY <1>10, <1>11, CheckWin
  <2>2. y \in Symbol /\ NextRound(server.round) \in Symbol /\ None \in Symbol
    BY <1>12, SymbolFacts
  <2> QED BY <1>10, <2>1, <2>2, MessageTypes DEF MoveMsg, GameEnd
<1>19. \A d \in Player : server.net[d] \in Seq(Message)
  BY <1>8 DEF ServerState
<1>20. \A q \in Position : B[q] = IF q = p THEN y ELSE server.board[q]
  BY <1>8, <1>10 DEF apply_move, ServerState, Board
<1>21. ASSUME NEW c \in Player
      PROVE  /\ c \notin deqConns => server'.net[c] = server.net[c]
             /\ c \in deqConns =>
                  /\ server'.net[c] \in Seq(Message) /\ server'.net[c] # <<>>
                  /\ DOMAIN server.net[c] = 1 .. Len(server.net[c]) /\ Len(server.net[c]) \in Nat
                  /\ \A i \in DOMAIN server.net[c] :
                       i \in DOMAIN server'.net[c] /\ server'.net[c][i] = server.net[c][i]
                  /\ Len(server.net[c]) + 1 \in DOMAIN server'.net[c]
                  /\ server'.net[c][Len(server.net[c]) + 1] = m
                  /\ \A i \in DOMAIN server'.net[c] :
                       \/ i \in DOMAIN server.net[c]
                       \/ i = Len(server.net[c]) + 1
                       \/ w # None /\ server'.net[c][i] = GameEnd(w)
                  /\ w = None => Len(server'.net[c]) = Len(server.net[c]) + 1
  <2>1. PICK n, q : n = server.net[c] /\ q = server'.net[c]
    OBVIOUS
  <2>2. n \in Seq(Message)
    BY <1>19, <2>1
  <2>3. c \notin deqConns => q = n
    BY <1>11, <2>1
  <2>4. c \in deqConns => q = IF w = None THEN Append(n, m) ELSE Append(Append(n, m), GameEnd(w))
    BY <1>11, <2>1
  <2>5. m \in Message /\ w \in Symbol
    BY <1>18
  <2>6. c \in deqConns =>
          /\ q \in Seq(Message) /\ q # <<>>
          /\ DOMAIN n = 1 .. Len(n) /\ Len(n) \in Nat
          /\ \A i \in DOMAIN n : i \in DOMAIN q /\ q[i] = n[i]
          /\ Len(n) + 1 \in DOMAIN q /\ q[Len(n) + 1] = m
          /\ \A i \in DOMAIN q : \/ i \in DOMAIN n
                                 \/ i = Len(n) + 1
                                 \/ (w # None /\ q[i] = GameEnd(w))
          /\ w = None => Len(q) = Len(n) + 1
    BY <2>2, <2>4, <2>5, NetMove
  <2> QED BY <2>1, <2>3, <2>6
<1>22. ASSUME NEW c \in Player PROVE Informed(c)'
  <2>1. PICK n, q : n = server.net[c] /\ q = server'.net[c]
    OBVIOUS
  <2>2. /\ \A i \in DOMAIN n :
              /\ n[i].id = "ServerAccept" => i = 1 /\ n[i].symbol = SymbolOf(server, c)
              /\ n[i].id = "Move" => n[i].symbol # None
              /\ n[i].id # "GameEnd"
        /\ \/ client[c].my_symbol = SymbolOf(server, c)
           \/ client[c].my_symbol = None /\ n # <<>> /\ n[1].id = "ServerAccept"
        /\ c \in deqConns =>
             \A z \in Position :
               /\ \A i \in MovesTo(c, z) : n[i].symbol = server.board[z]
               /\ MovesTo(c, z) = {} => client[c].board[z] = server.board[z]
    <3>1. Informed(c)
      BY DEF GameOf
    <3> QED BY <1>3, <2>1, <3>1 DEF Informed
  <2>3. client'[c] = client[c] /\ client[c].at # "over" /\ SymbolOf(server', c) = SymbolOf(server, c)
    BY <1>5, <1>6, <1>11
  <2>4. CASE c \notin deqConns
    <3>1. q = n
      BY <1>11, <2>1, <2>4
    <3> QED BY <1>17, <2>1, <2>2, <2>3, <2>4, <3>1 DEF Informed
  <2>5. CASE c \in deqConns
    <3>1. /\ q \in Seq(Message) /\ q # <<>>
          /\ DOMAIN n = 1 .. Len(n) /\ Len(n) \in Nat
          /\ \A i \in DOMAIN n : i \in DOMAIN q /\ q[i] = n[i]
          /\ Len(n) + 1 \in DOMAIN q /\ q[Len(n) + 1] = m
          /\ \A i \in DOMAIN q : \/ i \in DOMAIN n
                                 \/ i = Len(n) + 1
                                 \/ (w # None /\ q[i] = GameEnd(w))
      BY <1>21, <2>1, <2>5
    <3>2. ASSUME NEW i \in DOMAIN q
          PROVE  /\ q[i].id = "ServerAccept" => i = 1 /\ q[i].symbol = SymbolOf(server', c)
                 /\ q[i].id = "Move" => q[i].symbol # None
                 /\ q[i].id = "GameEnd" => Won' /\ {s \in {o, x} : HasLine(s)'} = {q[i].winner}
      <4>1. CASE i \in DOMAIN n
        BY <2>2, <2>3, <3>1, <4>1
      <4>2. CASE i = Len(n) + 1
        BY <1>12, <1>18, <3>1, <4>2
      <4>3. CASE w # None /\ q[i] = GameEnd(w)
        BY <1>14, <1>15, <1>18, <4>3
      <4> QED BY <3>1, <4>1, <4>2, <4>3
    <3>3. client[c].my_symbol = SymbolOf(server, c)
          \/ (client[c].my_symbol = None /\ q[1].id = "ServerAccept")
      <4>1. n # <<>> => 1 \in DOMAIN n
        BY <1>19, <2>1
      <4> QED BY <2>2, <3>1, <4>1
    <3>4. ASSUME NEW z \in Position
          PROVE  /\ \A i \in MovesTo(c, z)' : q[i].symbol = B[z]
                 /\ MovesTo(c, z)' = {} => client[c].board[z] = B[z]
      <4>1. MovesTo(c, z)' = {i \in DOMAIN q : q[i].id = "Move" /\ q[i].pos = z}
        BY <2>1 DEF MovesTo
      <4>2. MovesTo(c, z) = {i \in DOMAIN n : n[i].id = "Move" /\ n[i].pos = z}
        BY <2>1 DEF MovesTo
      <4>3. CASE z = p
        <5>1. MovesTo(c, p) = {}
          BY <1>4, <2>2, <2>5, <4>2, <4>3
        <5>2. ASSUME NEW i \in MovesTo(c, z)' PROVE q[i].symbol = y
          <6>1. i \in DOMAIN q /\ q[i].id = "Move" /\ q[i].pos = z
            BY <4>1, <5>2
          <6>2. i \notin DOMAIN n
            BY <3>1, <4>2, <4>3, <5>1, <6>1
          <6> QED BY <1>18, <3>1, <6>1, <6>2
        <5>3. Len(n) + 1 \in MovesTo(c, z)'
          BY <1>18, <3>1, <4>1, <4>3
        <5> QED BY <1>20, <4>3, <5>2, <5>3
      <4>4. CASE z # p
        <5>1. ASSUME NEW i \in MovesTo(c, z)' PROVE i \in MovesTo(c, z) /\ q[i] = n[i]
          <6>1. i \in DOMAIN q /\ q[i].id = "Move" /\ q[i].pos = z
            BY <4>1, <5>1
          <6>2. i \in DOMAIN n
            BY <1>18, <3>1, <4>4, <6>1
          <6> QED BY <3>1, <4>2, <6>1, <6>2
        <5>2. ASSUME MovesTo(c, z)' = {} PROVE MovesTo(c, z) = {}
          BY <3>1, <4>1, <4>2, <5>2
        <5> QED BY <1>20, <2>2, <2>5, <4>4, <5>1, <5>2
      <4> QED BY <4>3, <4>4
    <3>5. server'.net[c] = q /\ server'.board = B /\ c \in deqConns'
      BY <1>11, <1>17, <2>1, <2>5
    <3> HIDE DEF MovesTo
    <3>6. \A z \in Position :
             /\ \A i \in MovesTo(c, z)' : q[i].symbol = B[z]
             /\ MovesTo(c, z)' = {} => client[c].board[z] = B[z]
      BY <3>4
    <3> QED BY <2>3, <3>1, <3>2, <3>3, <3>5, <3>6 DEF Informed, Winner
  <2> QED BY <2>4, <2>5
<1>23. \A d \in Player : \A z : GivesTurn(d, z)' <=> GivesTurn(d, z)
  BY <1>11 DEF GivesTurn
\* Nobody else has been given the turn before.
<1>24. ASSUME NEW c \in Player
      PROVE  /\ SymbolOf(server, c) # None => ~client[c].my_round
             /\ client[c].at = "await"
             /\ \A i \in DOMAIN server.net[c] : ~GivesTurn(c, server.net[c][i])
  <2>1. CASE c = h
    BY <1>2, <1>3, <2>1 DEF OnTurn
  <2>2. CASE c # h
    BY <1>3, <1>5, <2>2 DEF Idle
  <2> QED BY <2>1, <2>2
<1>25. ASSUME NEW c \in Player, w # None \/ c # g PROVE Idle(c)'
  <2>1. PICK n, q : n = server.net[c] /\ q = server'.net[c]
    OBVIOUS
  <2>2. ASSUME NEW i \in DOMAIN q PROVE ~GivesTurn(c, q[i])'
    <3>1. CASE c \notin deqConns
      BY <1>23, <1>24, <1>21, <2>1, <2>2, <3>1
    <3>2. CASE c \in deqConns /\ i \in DOMAIN n
      <4>1. q[i] = n[i] /\ ~GivesTurn(c, n[i])
        BY <1>24, <1>21, <2>1, <3>2
      <4> QED BY <1>23, <4>1
    <3>3. CASE c \in deqConns /\ i = Len(n) + 1
      <4>1. q[i] = m
        BY <1>21, <2>1, <3>3
      <4>2. m.next # SymbolOf(server, c) \/ m.next = None
        BY <1>1, <1>7, <1>11, <1>12, <1>13, <1>18, <1>25, SymbolFacts DEF Holder
      <4>3. ~GivesTurn(c, m)
        BY <1>18, <4>2 DEF GivesTurn
      <4> QED BY <1>23, <4>1, <4>3
    <3>4. CASE q[i] = GameEnd(w)
      <4>1. ~GivesTurn(c, GameEnd(w))
        BY <1>18 DEF GivesTurn
      <4> QED BY <1>23, <3>4, <4>1
    <3> QED BY <1>21, <2>1, <2>2, <3>1, <3>2, <3>3, <3>4
  <2>3. client'[c] = client[c] /\ SymbolOf(server', c) = SymbolOf(server, c)
    BY <1>6, <1>11
  <2> QED BY <1>24, <2>1, <2>2, <2>3 DEF Idle
<1>26. ASSUME w = None PROVE OnTurn(g)'
  <2>1. PICK n, q : n = server.net[g] /\ q = server'.net[g]
    OBVIOUS
  <2>2. g \in deqConns /\ SymbolOf(server, g) # None
    BY <1>7, <1>12, <1>13, SymbolFacts DEF Holder, deqConns
  <2>3. /\ q \in Seq(Message) /\ q # <<>> /\ Len(q) = Len(n) + 1 /\ Len(n) \in Nat
        /\ DOMAIN n = 1 .. Len(n) /\ q[Len(n) + 1] = m /\ \A i \in DOMAIN n : q[i] = n[i]
    BY <1>21, <1>26, <2>1, <2>2
  <2>4. GivesTurn(g, q[Len(q)])'
    <3>1. GivesTurn(g, m)
      BY <1>13, <1>18, <1>26, <2>2 DEF GivesTurn
    <3> QED BY <1>23, <2>3, <3>1
  <2>5. ASSUME NEW i \in 1 .. Len(q) - 1 PROVE ~GivesTurn(g, q[i])'
    <3>1. i \in DOMAIN n /\ q[i] = n[i]
      BY <2>3, <2>5
    <3> QED BY <1>23, <1>24, <2>1, <3>1
  <2>6. client'[g].at = "await" /\ ~client'[g].my_round
    BY <1>6, <1>24, <2>2
  <2> QED BY <1>6, <2>1, <2>3, <2>4, <2>5, <2>6 DEF OnTurn
<1>27. Turns(g)'
  <2>1. MoveOf(g)'
    BY <1>6 DEF MoveOf
  <2> QED BY <1>6, <1>14, <1>25, <1>26, <2>1 DEF Turns
<1> QED BY <1>6, <1>13, <1>16, <1>22, <1>27 DEF GameOf


-----------------------------------------------------------------------------
(* Until the second player is seated *)

LEMMA SymbolsLeft ==
  /\ OneOfEach[o] = 1 /\ OneOfEach[x] = 1 /\ OneOfEach[None] = 0
  /\ \A y \in {o, x} : \A z \in Symbol : OnlyLeft(y)[z] = IF z = y THEN 1 ELSE 0
  /\ OneOfEach # NoneLeft /\ \A y \in {o, x} : OnlyLeft(y) # NoneLeft
<1>1. o \in Symbol /\ x \in Symbol /\ None \in Symbol
  BY DEF Symbol
<1>2. OneOfEach[o] = 1 /\ OneOfEach[x] = 1 /\ OneOfEach[None] = 0
  BY <1>1, SymbolFacts DEF OneOfEach
<1>3. \A y \in {o, x} : \A z \in Symbol : OnlyLeft(y)[z] = IF z = y THEN 1 ELSE 0
  BY DEF OnlyLeft
<1>4. \A z \in Symbol : NoneLeft[z] = 0
  BY DEF NoneLeft
<1>5. ASSUME NEW y \in {o, x} PROVE OnlyLeft(y)[y] = 1 /\ NoneLeft[y] = 0
  BY <1>1, <1>3, <1>4
<1>6. \A y \in {o, x} : OnlyLeft(y) # NoneLeft
  BY <1>5
<1>7. OneOfEach # NoneLeft
  BY <1>1, <1>2, <1>4
<1> QED BY <1>2, <1>3, <1>6, <1>7

LEMMA NobodyWon == \A i \in DOMAIN Lines : ~Wins(NoBoard, Lines[i])
<1> SUFFICES ASSUME NEW i \in 1 .. 8, Wins(NoBoard, Lines[i]) PROVE FALSE
  BY LineSquares
<1>1. Lines[i][1] \in Position /\ NoBoard[Lines[i][1]] # None
  BY LineSquares DEF Wins
<1> QED BY <1>1 DEF NoBoard

LEMMA LobbyAccept ==
  ASSUME TicTacToeTypeOK, Lobby, NEW c \in Player, AcceptPlayer(c)
  PROVE  Lobby'
<1>1. server.symbols_left # NoneLeft
  BY SymbolsLeft, SymbolFacts DEF Lobby
<1>2. /\ link[c] = "none" /\ link'[c] = "pending" /\ \A d \in Player \ {c} : link'[d] = link[d]
      /\ server' = server /\ moves' = moves /\ client' = client
  BY <1>1 DEF AcceptPlayer, Arrives, TicTacToeTypeOK
<1> QED BY <1>2 DEF Lobby

\* The messages under way when the game begins tell the players their symbols.
LEMMA GameBegins ==
  ASSUME TicTacToeTypeOK, Ends, Lobby, left = {}, NEW a \in Player, NEW b \in Player, a # b,
         a \in deqConns, b \in deqConns, deqConns' = deqConns,
         UNCHANGED <<moves, client, left>>, Seated(a, b)',
         server'.board = NoBoard, server'.round = o,
         \A d \in Player : server'.net[d] =
           IF d \in deqConns THEN <<ServerAccept(SymbolOf(server', d))>> ELSE <<>>
  PROVE  GameOf(a, b)'
<1>1. ASSUME NEW c \in Player
      PROVE  /\ client'[c].my_symbol = None /\ ~client'[c].my_round
             /\ client'[c].board = NoBoard /\ client'[c].at = "await"
  BY DEF Lobby
<1>2. SymbolOf(server', a) = o /\ SymbolOf(server', b) = x
      /\ \A c \in Player \ {a, b} : SymbolOf(server', c) = None
  BY DEF Seated
<1>3. ASSUME NEW c \in Player
      PROVE  /\ c \in deqConns => Len(server'.net[c]) = 1 /\ DOMAIN server'.net[c] = {1}
                                  /\ server'.net[c] # <<>>
                                  /\ server'.net[c][1].id = "ServerAccept"
                                  /\ server'.net[c][1].symbol = SymbolOf(server', c)
             /\ c \notin deqConns => DOMAIN server'.net[c] = {} /\ SymbolOf(server', c) = None
  <2>1. ServerAccept(SymbolOf(server', c)).id = "ServerAccept"
        /\ ServerAccept(SymbolOf(server', c)).symbol = SymbolOf(server', c)
    BY DEF ServerAccept
  <2>2. CASE c \in deqConns
    <3>1. server'.net[c] = <<ServerAccept(SymbolOf(server', c))>>
      BY <2>2
    <3> QED BY <2>1, <2>2, <3>1
  <2>3. CASE c \notin deqConns
    <3>1. server'.net[c] = <<>> /\ c # a /\ c # b
      BY <2>3
    <3> QED BY <1>2, <2>3, <3>1
  <2> QED BY <2>2, <2>3
<1>4. ~Won'
  BY NobodyWon DEF Won
<1>5. ASSUME NEW c \in Player PROVE Informed(c)'
  <2>1. \A i \in DOMAIN server'.net[c] :
          /\ i = 1 /\ server'.net[c][i].id = "ServerAccept"
          /\ server'.net[c][i].symbol = SymbolOf(server', c)
    BY <1>3
  <2>2. \A p \in Position : MovesTo(c, p)' = {}
    BY <2>1 DEF MovesTo
  <2>3. client'[c].my_symbol = SymbolOf(server', c)
        \/ (client'[c].my_symbol = None /\ server'.net[c] # <<>>
            /\ server'.net[c][1].id = "ServerAccept")
    BY <1>1, <1>3
  <2>4. \A p \in Position : client'[c].board[p] = server'.board[p]
    BY <1>1
  <2> QED BY <1>1, <2>1, <2>2, <2>3, <2>4 DEF Informed
<1>6. ASSUME NEW c \in Player, NEW i \in DOMAIN server'.net[c]
      PROVE  GivesTurn(c, server.net[c][i])' <=> c = a
  <2>1. PICK m : m = server'.net[c][i]
    OBVIOUS
  <2>2. m.id = "ServerAccept" /\ m.symbol = SymbolOf(server', c)
    BY <1>3, <1>6, <2>1
  <2>3. m.symbol = o <=> c = a
    BY <1>2, <2>2, SymbolFacts
  <2> QED BY <2>1, <2>2, <2>3 DEF GivesTurn
<1>7. /\ \A c \in Player : c # a => Idle(c)'
      /\ OnTurn(a)'
  <2>1. ASSUME NEW c \in Player, c # a PROVE Idle(c)'
    BY <1>1, <1>6, <2>1 DEF Idle
  <2>2. OnTurn(a)'
    <3>1. PICK q : q = server'.net[a]
      OBVIOUS
    <3>2. q # <<>> /\ Len(q) = 1 /\ 1 \in DOMAIN q
      BY <1>3, <3>1
    <3>3. GivesTurn(a, server.net[a][1])'
      BY <1>6, <3>1, <3>2
    <3> QED BY <1>1, <3>1, <3>2, <3>3 DEF OnTurn, Lobby
  <2> QED BY <2>1, <2>2
<1>8. Turns(a)'
  <2>1. MoveOf(a)'
    BY DEF MoveOf, Lobby
  <2> QED BY <1>4, <1>7, <2>1 DEF Turns
<1>9. Holder(a, b)' = a
  BY DEF Holder
<1> QED BY <1>5, <1>8, <1>9 DEF GameOf

LEMMA LobbyValidate ==
  ASSUME TicTacToeTypeOK, Ends, Lobby, left = {}, NEW c \in Player, ValidatePlayer(c)
  PROVE  Lobby' \/ Game'
<1>1. /\ link[c] = "pending" /\ link'[c] = "open" /\ \A d \in Player \ {c} : link'[d] = link[d]
      /\ moves' = moves /\ client' = client /\ left' = left
  BY DEF ValidatePlayer, TicTacToeTypeOK
<1>2. \A d \in Player : /\ link[d] # "closed" /\ server.net[d] = <<>>
                        /\ link[d] \in {"none", "pending", "open", "failed", "denied"}
  BY DEF Lobby, Ends, TicTacToeTypeOK
<1>3. Gone = {} /\ deqConns' = deqConns /\ c \in deqConns /\ \A d \in deqConns : IsOpen(d)
  <2>1. \A d \in deqConns : IsOpen(d)
    BY <1>2 DEF deqConns, IsOpen
  <2>2. \A d \in Player : d \in deqConns' <=> d \in deqConns
    BY <1>1 DEF deqConns
  <2>3. deqConns' = deqConns
    BY <2>2 DEF deqConns
  <2> QED BY <1>1, <2>1, <2>3 DEF Gone, deqConns
<1>4. server.symbols_left # NoneLeft
  BY SymbolsLeft, SymbolFacts DEF Lobby
<1>5. PICK y \in Symbol : server.symbols_left[y] > 0 /\ server' = OnClientValidated(server, c, y)
  BY <1>4 DEF ValidatePlayer
<1>6. PICK u : u = Seat(server, c, y)
  OBVIOUS
<1>7. server \in ServerState /\ server.board = NoBoard /\ server.round = o
  BY DEF TicTacToeTypeOK, Lobby
<1>8. /\ u \in ServerState /\ u.round = o /\ u.board = NoBoard /\ u.net = server.net
      /\ u.symbols_left[y] = server.symbols_left[y] - 1
      /\ \A z \in Symbol \ {y} : u.symbols_left[z] = server.symbols_left[z]
      /\ c \notin DOMAIN server.players =>
           /\ DOMAIN u.players = DOMAIN server.players \cup {c}
           /\ u.players[c] = y
           /\ \A d \in DOMAIN server.players : u.players[d] = server.players[d]
      /\ u.symbols_left \in [Symbol -> Nat]
  <2>1. u \in ServerState => u.symbols_left \in [Symbol -> Nat]
    BY DEF ServerState
  <2> QED BY <1>5, <1>6, <1>7, <2>1, Seating
<1>9. /\ server' \in ServerState /\ server'.round = o
      /\ u.symbols_left # NoneLeft => server' = u
      /\ u.symbols_left = NoneLeft =>
           /\ server'.started /\ server'.symbols_left = NoneLeft /\ server'.board = NoBoard
           /\ \A d : SymbolOf(server', d) = SymbolOf(u, d)
           /\ \A d \in Player : server'.net[d] =
                IF d \in deqConns THEN Append(server.net[d], ServerAccept(SymbolOf(u, d)))
                ELSE server.net[d]
  BY <1>3, <1>5, <1>6, <1>7, Validating
<1>10. CASE DOMAIN server.players = {} /\ server.symbols_left = OneOfEach
  <2>1. y \in {o, x} /\ NextRound(y) \in {o, x} /\ NextRound(y) # y
    BY <1>5, <1>10, SymbolsLeft, SymbolFacts
  <2>2. u.symbols_left = OnlyLeft(NextRound(y))
    <3>1. ASSUME NEW z \in Symbol PROVE u.symbols_left[z] = OnlyLeft(NextRound(y))[z]
      <4>1. z \in {o, x, None}
        BY SymbolFacts
      <4> QED BY <1>8, <1>10, <2>1, <4>1, SymbolsLeft, SymbolFacts
    <3> QED BY <1>8, <3>1 DEF OnlyLeft
  <2>3. server' = u
    BY <1>9, <2>1, <2>2, SymbolsLeft
  <2>4. DOMAIN server'.players = {c} /\ server'.players[c] = y
    BY <1>8, <1>10, <2>3
  <2>5. server'.board = NoBoard /\ server'.round = o /\ moves' = <<>>
    BY <1>1, <1>8, <2>3 DEF Lobby
  <2>6. ASSUME NEW d \in Player
        PROVE  /\ server'.net[d] = <<>> /\ link'[d] # "denied"
               /\ client'[d] = [my_symbol |-> None, my_round |-> FALSE,
                                board |-> NoBoard, at |-> "await"]
    <3>1. client'[d] = client[d] /\ server'.net[d] = server.net[d]
          /\ (link'[d] = link[d] \/ link'[d] = "open")
      BY <1>1, <1>8, <2>3
    <3> QED BY <3>1 DEF Lobby
  <2>7. server'.symbols_left = OnlyLeft(NextRound(y)) /\ link'[c] = "open"
    BY <1>1, <2>2, <2>3
  <2>8. Lobby'
    BY <2>1, <2>4, <2>5, <2>6, <2>7 DEF Lobby
  <2> QED BY <2>8
<1>11. ASSUME NEW a \in Player, NEW z \in {o, x},
              DOMAIN server.players = {a}, server.players[a] = z, link[a] = "open",
              server.symbols_left = OnlyLeft(NextRound(z))
       PROVE  Game'
  <2>1. a # c /\ c \notin DOMAIN server.players /\ a \in deqConns
    BY <1>1, <1>11 DEF deqConns
  <2>2. NextRound(z) \in {o, x} /\ NextRound(z) # z
    BY SymbolFacts
  <2>3. y = NextRound(z)
    BY <1>5, <1>11, <2>2, SymbolsLeft
  <2>4. u.symbols_left = NoneLeft
    <3>1. ASSUME NEW v \in Symbol PROVE u.symbols_left[v] = 0
      BY <1>8, <1>11, <2>2, <2>3, SymbolsLeft
    <3> QED BY <1>8, <3>1 DEF NoneLeft
  <2>5. SymbolOf(u, a) = z /\ SymbolOf(u, c) = NextRound(z)
        /\ \A d \in Player \ {a, c} : SymbolOf(u, d) = None
    BY <1>8, <1>11, <2>1, <2>3 DEF SymbolOf
  <2>6. \A d \in Player : server'.net[d] =
          IF d \in deqConns THEN <<ServerAccept(SymbolOf(server', d))>> ELSE <<>>
    <3>1. \A m : Append(<<>>, m) = <<m>>
      OBVIOUS
    <3> QED BY <1>2, <1>9, <2>4, <3>1
  <2>7. ASSUME NEW f \in {a, c}, NEW g \in {a, c}, f # g,
               SymbolOf(u, f) = o, SymbolOf(u, g) = x
        PROVE  Game'
    <3>1. link'[f] = "open" /\ link'[g] = "open" /\ f \in deqConns /\ g \in deqConns
          /\ {a, c} = {f, g}
      BY <1>1, <1>3, <1>11, <2>1, <2>7
    <3>2. Seated(f, g)'
      BY <1>9, <2>4, <2>5, <2>7, <3>1 DEF Seated
    <3>3. GameOf(f, g)'
      BY <1>1, <1>3, <1>9, <2>4, <2>6, <2>7, <3>1, <3>2, GameBegins
    <3> QED BY <3>3 DEF Game
  <2>8. CASE z = o
    BY <2>1, <2>5, <2>7, <2>8, SymbolFacts
  <2>9. CASE z = x
    BY <2>1, <2>5, <2>7, <2>9, SymbolFacts
  <2> QED BY <2>8, <2>9
<1> QED BY <1>10, <1>11 DEF Lobby

-----------------------------------------------------------------------------
(* The invariant *)

LEMMA TicTacToeInitInv == TicTacToeInit => TicTacToeInv
<1> SUFFICES ASSUME TicTacToeInit PROVE TicTacToeInv
  OBVIOUS
<1> DEFINE nobody == [c \in {} |-> None]
<1>1. NoBoard \in Board /\ o \in Symbol /\ x \in Symbol /\ None \in Symbol
  BY DEF NoBoard, Board, Symbol
<1>2. server = [symbols_left |-> OneOfEach, players |-> nobody, started |-> FALSE,
                round |-> o, board |-> NoBoard, net |-> [c \in Player |-> <<>>]]
  BY Zenon DEF TicTacToeInit, OneOfEach
<1>3. nobody \in Players /\ DOMAIN nobody = {}
  <2>1. nobody \in [{} -> Symbol] /\ {} \in SUBSET Player
    OBVIOUS
  <2> HIDE DEF nobody
  <2> QED BY <2>1, PlayersIntro
<1>4. OneOfEach \in [Symbol -> Nat]
  BY DEF OneOfEach
<1>5. [c \in Player |-> <<>>] \in [Player -> Seq(Message)]
  OBVIOUS
<1> HIDE DEF nobody
<1>6. server \in ServerState
  BY <1>1, <1>2, <1>3, <1>4, <1>5 DEF ServerState, Players
<1>7. TicTacToeTypeOK
  <2>1. client \in [Player -> ClientState]
    BY <1>1 DEF TicTacToeInit, ClientState
  <2>2. link \in [Player -> {"none", "pending", "open", "failed", "closed", "denied"}]
    BY DEF TicTacToeInit
  <2>3. moves = <<>> /\ left = {} /\ wrong = {} /\ end = "no" /\ late = {}
    BY DEF TicTacToeInit
  <2>4. moves \in Seq([from : Player, pos : Position])
    BY <2>3
  <2> QED BY <1>6, <2>1, <2>2, <2>3, <2>4 DEF TicTacToeTypeOK
<1>8. Ends
  BY <1>2 DEF TicTacToeInit, Ends
<1>9. Lobby
  BY <1>2, <1>3 DEF TicTacToeInit, Lobby
<1> QED BY <1>2, <1>7, <1>8, <1>9 DEF TicTacToeInit, TicTacToeInv, NoInvalidMove

\* An overlap of callbacks, or a wakeup missed, changes nothing in a game.
LEMMA SameGame ==
  ASSUME server' = server, moves' = moves, link' = link, client' = client, left' = left
  PROVE  (Game => Game') /\ (Lobby => Lobby')
<1>1. deqConns' = deqConns
  BY DEF deqConns
<1>2. \A d \in Player : (Informed(d) => Informed(d)') /\ (Idle(d) => Idle(d)')
                        /\ (OnTurn(d) => OnTurn(d)')
  BY <1>1, OthersKept
<1>3. Game => Game'
  <2> SUFFICES ASSUME NEW a \in Player, NEW b \in Player, GameOf(a, b) PROVE GameOf(a, b)'
    BY DEF Game
  <2>1. Seated(a, b)'
    BY DEF GameOf, Seated
  <2>2. Turns(Holder(a, b))'
    BY <1>2, WonKept DEF GameOf, Turns, Holder, MoveOf
  <2> QED BY <1>2, <2>1, <2>2 DEF GameOf
<1>4. Lobby => Lobby'
  BY DEF Lobby
<1> QED BY <1>3, <1>4

\* A step of a game with two players is a step of that game, unless the server
\* finds that one of them is gone: it then clears the board.
LEMMA GameNext ==
  ASSUME TicTacToeInv, Game, TicTacToeNext, wrong' = {}, HandleMove => left = {}
  PROVE  Game'
<1>1. PICK a, b \in Player : GameOf(a, b)
  BY DEF Game
<1>2. TicTacToeTypeOK /\ Ends
  BY DEF TicTacToeInv
<1>3. CASE HandleMove
  BY <1>1, <1>2, <1>3, GameHandle DEF Game
<1>4. ASSUME NEW c \in Player, AcceptPlayer(c) PROVE Game'
  BY <1>1, <1>2, <1>4, GameAccept DEF Game
<1>5. ASSUME NEW c \in Player, ValidatePlayer(c) PROVE Game'
  BY <1>1, <1>2, <1>5, GameValidate DEF Game
<1>6. ASSUME NEW c \in Player, ReceiveMsg(c) PROVE Game'
  BY <1>1, <1>2, <1>6, GameReceive DEF Game
<1>7. ASSUME NEW c \in Player, Quit(c) PROVE Game'
  BY <1>1, <1>2, <1>7, GameQuit DEF Game
<1>8. ASSUME NEW c \in Player, NEW p \in SquaresNow, Place(c, p) PROVE Game'
  <2>1. p \in Position
    BY SquaresInside
  <2> QED BY <1>1, <1>2, <1>8, <2>1, GamePlace DEF Game
<1>9. ASSUME NEW c \in Player PROVE ~FailPlayer(c)
  BY DEF FailPlayer
<1>10. ASSUME NEW c \in Player, Overlap(c) PROVE Game'
  BY <1>10, SameGame DEF Overlap
<1>11. ASSUME NEW k \in Player \cup {Server}, MissWakeup(k) PROVE Game'
  BY <1>11, SameGame DEF MissWakeup
<1> QED BY <1>3, <1>4, <1>5, <1>6, <1>7, <1>8, <1>9, <1>10, <1>11 DEF TicTacToeNext

\* Before it nobody sends anything.
LEMMA LobbyNext ==
  ASSUME TicTacToeInv, Lobby, left' = {}, wrong' = {}, TicTacToeNext
  PROVE  Lobby' \/ Game'
<1>1. TicTacToeTypeOK /\ Ends
  BY DEF TicTacToeInv
<1>2. ~HandleMove
  BY DEF Lobby, HandleMove
<1>3. ASSUME NEW c \in Player, AcceptPlayer(c) PROVE Lobby'
  BY <1>1, <1>3, LobbyAccept
<1>4. ASSUME NEW c \in Player, ValidatePlayer(c) PROVE Lobby' \/ Game'
  <2>1. left = {}
    BY <1>4 DEF ValidatePlayer
  <2> QED BY <1>1, <1>4, <2>1, LobbyValidate
<1>5. ASSUME NEW c \in Player PROVE ~ReceiveMsg(c)
  BY DEF Lobby, ReceiveMsg
<1>6. ASSUME NEW c \in Player PROVE ~Quit(c)
  BY DEF Quit
<1>7. ASSUME NEW c \in Player, NEW p PROVE ~Place(c, p)
  <2>1. client[c].at = "await"
    BY DEF Lobby
  <2> QED BY <2>1 DEF Place
<1>8. ASSUME NEW c \in Player PROVE ~FailPlayer(c)
  BY DEF FailPlayer
<1>9. ASSUME NEW c \in Player PROVE ~Overlap(c)
  BY DEF Lobby, Overlap
<1>10. ASSUME NEW k \in Player \cup {Server}, MissWakeup(k) PROVE Lobby'
  BY <1>10, SameGame DEF MissWakeup
<1> QED BY <1>2, <1>3, <1>4, <1>5, <1>6, <1>7, <1>8, <1>9, <1>10 DEF TicTacToeNext

\* A move that the server handles is on a board of a game, and one whose
\* connections are gone leaves an empty board.
LEMMA MoveHandled ==
  ASSUME TicTacToeInv, HandleMove, end = "no", wrong = {}
  PROVE  end' = "no" /\ (left # {} => server'.board = NoBoard)
<1>1. TicTacToeTypeOK /\ Ends /\ server \in ServerState /\ moves # <<>>
  BY DEF TicTacToeInv, TicTacToeTypeOK, HandleMove
<1>2. Head(moves) = moves[1] /\ Head(moves).from \in Player /\ Head(moves).pos \in Position
      /\ 1 \in DOMAIN moves /\ Head(moves).from \in deqConns
  BY <1>1, MoveTypes DEF Ends
<1>3. server.board # NoBoard => server.started /\ check_valid_move(server.board, Head(moves).pos)
  <2> SUFFICES ASSUME server.board # NoBoard
               PROVE  server.started /\ check_valid_move(server.board, Head(moves).pos)
    OBVIOUS
  <2>1. PICK a, b \in Player : GameOf(a, b)
    BY DEF TicTacToeInv, Game
  <2>2. PICK h : h = Holder(a, b)
    OBVIOUS
  <2>3. Turns(h) /\ server.started
    BY <2>1, <2>2 DEF GameOf, Seated
  <2>4. MoveOf(h)
    BY <1>1, <2>3 DEF Turns
  <2>5. PICK p \in Position : server.board[p] = None /\ moves = <<[from |-> h, pos |-> p]>>
    BY <1>1, <2>4 DEF MoveOf
  <2> QED BY <1>2, <2>3, <2>5 DEF check_valid_move
<1>4. check_valid_move(server.board, Head(moves).pos)
  <2>1. CASE server.board = NoBoard
    BY <1>2, <2>1 DEF check_valid_move, NoBoard
  <2> QED BY <1>3, <2>1
<1>5. end' = end /\ server' = Handled(server, Head(moves).from, Head(moves).pos)
  BY <1>4 DEF HandleMove
<1>6. ASSUME left # {} PROVE server'.board = NoBoard
  <2>1. PICK c \in Player : c \in left
    BY <1>1, <1>6 DEF TicTacToeTypeOK
  <2>2. link[c] = "closed"
    BY <1>1, <2>1 DEF Ends
  <2>3. Gone # {}
    BY <2>2 DEF Gone, deqConns, IsOpen
  <2> QED BY <1>1, <1>2, <1>3, <1>5, <2>3, Handling
<1> QED BY <1>5, <1>6

LEMMA TicTacToeInvNext == TicTacToeInv /\ [TicTacToeNext]_tttVars => TicTacToeInv'
<1> SUFFICES ASSUME TicTacToeInv, [TicTacToeNext]_tttVars PROVE TicTacToeInv'
  OBVIOUS
<1>1. TicTacToeTypeOK' /\ Ends'
  BY TicTacToeTypes, EndsNext DEF TicTacToeInv
<1>2. CASE TicTacToeNext /\ wrong' = {}
  <2>1. left \subseteq left' /\ wrong = {}
    BY <1>2 DEF TicTacToeNext, HandleMove, AcceptPlayer, ValidatePlayer, FailPlayer, Overlap,
       MissWakeup, ReceiveMsg, Quit, Place
  <2>2. left' = {} => Lobby' \/ Game'
    <3> SUFFICES ASSUME left' = {} PROVE Lobby' \/ Game'
      OBVIOUS
    <3>1. left = {} /\ (Lobby \/ Game)
      BY <2>1 DEF TicTacToeInv
    <3> QED BY <1>2, <3>1, LobbyNext, GameNext
  <2>3. server'.board # NoBoard => Game'
    <3> SUFFICES ASSUME server'.board # NoBoard PROVE Game'
      OBVIOUS
    <3>1. CASE HandleMove
      <4>1. left = {} /\ left' = left
        BY <1>2, <2>1, <3>1, MoveHandled DEF TicTacToeNext, HandleMove
      <4>2. ~Lobby
        BY <3>1 DEF Lobby, HandleMove
      <4>3. Game
        BY <2>1, <4>1, <4>2 DEF TicTacToeInv
      <4> QED BY <1>2, <4>1, <4>3, GameNext
    <3>2. CASE ~HandleMove
      <4>1. server.board # NoBoard
        <5>1. ASSUME NEW c \in Player, ValidatePlayer(c) PROVE server.board # NoBoard
          BY <5>1, ValidateTypes DEF TicTacToeInv
        <5>2. ASSUME NEW c \in Player, ReceiveMsg(c) PROVE server.board # NoBoard
          BY <5>2, ReceiveEffect DEF TicTacToeInv
        <5>3. ASSUME NEW c \in Player, AcceptPlayer(c) \/ Overlap(c) \/ Quit(c)
              PROVE  server.board # NoBoard
          BY <5>3 DEF AcceptPlayer, Overlap, Quit
        <5>4. ASSUME NEW c \in Player, NEW p \in SquaresNow, Place(c, p)
              PROVE  server.board # NoBoard
          BY <5>4 DEF Place
        <5>5. ASSUME NEW c \in Player PROVE ~FailPlayer(c)
          BY <1>2 DEF FailPlayer
        <5>6. ASSUME NEW k, MissWakeup(k) PROVE server.board # NoBoard
          BY <5>6 DEF MissWakeup
        <5> QED BY <1>2, <3>2, <5>1, <5>2, <5>3, <5>4, <5>5, <5>6 DEF TicTacToeNext
      <4> QED BY <1>2, <2>1, <3>2, <4>1, GameNext DEF TicTacToeInv
    <3> QED BY <3>1, <3>2
  <2>4. end' # "exit(1)"
    <3>1. CASE HandleMove
      BY <1>2, <2>1, <3>1, MoveHandled DEF TicTacToeNext
    <3>2. CASE ~HandleMove
      BY <1>2, <3>2 DEF TicTacToeNext, AcceptPlayer, ValidatePlayer, FailPlayer, Overlap,
                        MissWakeup, ReceiveMsg, Quit, Place
    <3> QED BY <3>1, <3>2
  <2> QED BY <1>1, <2>2, <2>3, <2>4 DEF TicTacToeInv, NoInvalidMove
<1>3. CASE UNCHANGED tttVars
  <2>1. /\ server' = server /\ moves' = moves /\ link' = link /\ client' = client
        /\ left' = left /\ wrong' = wrong /\ end' = end
    BY <1>3 DEF tttVars
  <2>2. (Game => Game') /\ (Lobby => Lobby')
    BY <2>1, SameGame
  <2> QED BY <1>1, <2>1, <2>2 DEF TicTacToeInv, NoInvalidMove
<1>4. CASE wrong' # {}
  BY <1>1, <1>4 DEF TicTacToeInv, NoInvalidMove
<1> QED BY <1>2, <1>3, <1>4

LEMMA TicTacToeAlways == TicTacToeSpec => []TicTacToeInv
BY TicTacToeInitInv, TicTacToeInvNext, PTL DEF TicTacToeSpec

-----------------------------------------------------------------------------
(* What players can rely on *)

\* The state of the server and of the clients keeps its types.
THEOREM TicTacToeTypeCorrect == TicTacToeSpec => []TicTacToeTypeOK
<1>1. TicTacToeInv => TicTacToeTypeOK
  BY DEF TicTacToeInv
<1> QED BY <1>1, TicTacToeAlways, PTL

\* However many clients connect, leave and are told their symbols again, the
\* server never gets a move to a square that is taken on its board, so it never
\* exits for one (server.cpp, OnMessage), as long as no client answers its
\* challenge wrongly.
THEOREM NeverInvalid == TicTacToeSpec => []NoInvalidMove
<1>1. TicTacToeInv => NoInvalidMove
  BY DEF TicTacToeInv
<1> QED BY <1>1, TicTacToeAlways, PTL

\* In an undisturbed game the board of each client is the server's but for the
\* moves under way to it: spectators' boards too.
THEOREM BoardsStayEqual == TicTacToeSpec => []BoardsAgree
<1>1. ASSUME TicTacToeInv, Undisturbed, NEW c \in Player, Playing(c), NEW p \in Position
      PROVE  /\ \A i \in MovesTo(c, p) : server.net[c][i].symbol = server.board[p]
             /\ MovesTo(c, p) = {} => client[c].board[p] = server.board[p]
  <2> USE DEF Undisturbed
  <2>1. c \in deqConns
    BY <1>1 DEF TicTacToeInv, Ends, Playing, IsOpen, deqConns
  <2>2. CASE Lobby
    <3>1. server.net[c] = <<>> /\ client[c].board = NoBoard /\ server.board = NoBoard
      BY <2>2 DEF Lobby
    <3>2. MovesTo(c, p) = {}
      BY <3>1 DEF MovesTo
    <3> QED BY <3>1, <3>2
  <2>3. CASE Game
    <3>1. Informed(c)
      BY <1>1, <2>3 DEF Game, GameOf
    <3> QED BY <1>1, <2>1, <3>1 DEF Informed
  <2> QED BY <1>1, <2>2, <2>3 DEF TicTacToeInv
<1>2. TicTacToeInv => BoardsAgree
  BY <1>1 DEF BoardsAgree
<1> QED BY <1>2, TicTacToeAlways, PTL

\* In an undisturbed game no two clients have the turn, whatever is under way
\* to the server and to them.
THEOREM OneMoves == TicTacToeSpec => []OneMover
<1> USE DEF Undisturbed
<1>1. ASSUME TicTacToeInv, Undisturbed, Lobby, NEW c \in Player PROVE ~HasTurn(c)
  <2>1. server.net[c] = <<>> /\ moves = <<>> /\ client[c].at = "await"
    BY <1>1 DEF Lobby
  <2> QED BY <2>1 DEF HasTurn
<1>2. ASSUME NEW c \in Player, Idle(c), \A i \in DOMAIN moves : moves[i].from # c
      PROVE  ~HasTurn(c)
  BY <1>2 DEF Idle, HasTurn
<1>3. ASSUME TicTacToeInv, Undisturbed, Game
      PROVE  \E h \in Player : \A c \in Player : HasTurn(c) => c = h
  <2>1. PICK a, b \in Player : GameOf(a, b)
    BY <1>3 DEF Game
  <2>2. PICK h \in Player : h = Holder(a, b)
    BY DEF Holder
  <2>3. Turns(h)
    BY <2>1, <2>2 DEF GameOf
  <2>4. ASSUME NEW c \in Player, c # h PROVE Idle(c) /\ \A i \in DOMAIN moves : moves[i].from # c
    <3>1. CASE Won
      BY <1>3, <2>3, <2>4, <3>1 DEF Turns
    <3>2. CASE ~Won
      <4>1. Idle(c) /\ MoveOf(h)
        BY <1>3, <2>3, <2>4, <3>2 DEF Turns
      <4>2. ASSUME NEW i \in DOMAIN moves PROVE moves[i].from = h
        BY <4>1, <4>2 DEF MoveOf
      <4> QED BY <2>4, <4>1, <4>2
    <3> QED BY <3>1, <3>2
  <2> QED BY <1>2, <2>4
<1>4. TicTacToeInv => OneMover
  BY <1>1, <1>3 DEF OneMover, TicTacToeInv
<1> QED BY <1>4, TicTacToeAlways, PTL

\* In an undisturbed game a winner is announced to a client only when its symbol
\* is the one that has three in a line.
THEOREM WinnerIsRight == TicTacToeSpec => []RightWinner
<1> USE DEF Undisturbed
<1>1. ASSUME TicTacToeInv, Undisturbed, NEW c \in Player, NEW i \in DOMAIN server.net[c],
             server.net[c][i].id = "GameEnd"
      PROVE  {s \in {o, x} : HasLine(s)} = {server.net[c][i].winner}
  <2>1. ~Lobby
    <3>1. Lobby => server.net[c] = <<>>
      BY DEF Lobby
    <3> QED BY <1>1, <3>1
  <2>2. Informed(c)
    BY <1>1, <2>1 DEF TicTacToeInv, Game, GameOf
  <2> QED BY <1>1, <2>2 DEF Informed, Winner
<1>2. TicTacToeInv => RightWinner
  BY <1>1 DEF RightWinner
<1> QED BY <1>2, TicTacToeAlways, PTL

-----------------------------------------------------------------------------
(* The three parts together *)

ExamplesInv == ClientInv /\ MessageInv /\ TicTacToeInv

LEMMA ExamplesInitInv == Init => ExamplesInv
BY ClientInitInv, MessageInitInv, TicTacToeInitInv DEF Init, ExamplesInv

LEMMA ExamplesNextInv == ExamplesInv /\ [Next]_vars => ExamplesInv'
<1> SUFFICES ASSUME ExamplesInv, [Next]_vars PROVE ExamplesInv'
  OBVIOUS
<1>1. [ClientNext]_clientVars /\ [MessageNext]_messageVars /\ [TicTacToeNext]_tttVars
  BY DEF Next, vars
<1>2. ClientInv'
  BY <1>1, ClientNextInv DEF ExamplesInv
<1>3. MessageInv'
  BY <1>1, MessageNextInv DEF ExamplesInv
<1>4. TicTacToeInv'
  BY <1>1, TicTacToeInvNext DEF ExamplesInv
<1> QED BY <1>2, <1>3, <1>4 DEF ExamplesInv

LEMMA ExamplesInvariant == Spec => []ExamplesInv
BY ExamplesInitInv, ExamplesNextInv, PTL DEF Spec

\* The types of the three parts hold side by side: no step of one of them
\* touches another.
THEOREM ExamplesTypeCorrect == Spec => []TypeOK
<1>1. ExamplesInv => TypeOK
  BY DEF ExamplesInv, ClientInv, MessageInv, TicTacToeInv, TypeOK
<1> QED BY <1>1, ExamplesInvariant, PTL
=============================================================================
