-------------------------- MODULE ClientInterface --------------------------
(***************************************************************************)
(* library/client.h: one ClientIntefrace between the thread that uses it   *)
(* and the io thread it starts.  Connect() creates a Connection and the    *)
(* thread, Disconnect() posts a close, stops the io_context, joins the     *)
(* thread and lets go of the connection; the destructor calls it again.    *)
(* Connect() may be called again after a failure or after a Disconnect().  *)
(*                                                                         *)
(* A connection is what this class sees of it: its socket and the          *)
(* operation of the read chain that is outstanding.  run() returns, and    *)
(* leaves the io_context stopped, as soon as there is no work or stop()    *)
(* was called; nothing in the library ever restarts it, so that a          *)
(* connection made after a Disconnect() has no handler run for it.         *)
(***************************************************************************)
EXTENDS Naturals

CONSTANTS
  MaxConnects,  \* bound: calls of Connect that create a connection
  MaxMessages,  \* bound: messages the server sends
  Retry         \* the application calls Connect until it returns true

ASSUME ClientAssumption ==
  /\ MaxConnects \in Nat \ {0}
  /\ MaxMessages \in Nat
  /\ Retry \in BOOLEAN

Conn == 1 .. MaxConnects
NoConn == 0

VARIABLES
  m_connection,  \* the connection it holds, NoConn for nullptr
  made,          \* how many connections were created
  sock,          \* m_socket of each
  op,            \* the outstanding operation of each
  closing,       \* connections with a posted close
  stopped,       \* m_context is stopped
  thrContext,    \* the io thread; joinable unless "none"
  busy,          \* the io thread has taken up a handler
  qin,           \* length of m_qMessagesIn
  received,      \* history: messages received
  pc,            \* where the application thread is
  crash          \* what ended the process, if anything did

connObject == <<m_connection, made>>
ioState == <<sock, op>>
ioThread == <<stopped, thrContext, busy>>
inbox == <<qin, received>>
clientVars == <<connObject, ioState, ioThread, closing, inbox, pc, crash>>

\* Connect() up to the thread, its start, and its return; the connected
\* application; between the test and the pop of NextMessage; the steps of
\* Disconnect(); after it; destroyed; exit(1).
AppPC == {"connect", "start", "return", "up", "pop", "stop", "join", "release",
          "down", "gone", "exit"}

ClientInit ==
  /\ m_connection = NoConn
  /\ made = 0
  /\ sock = [k \in Conn |-> "none"]
  /\ op = [k \in Conn |-> "none"]
  /\ closing = {}
  /\ stopped = FALSE
  /\ thrContext = "none"
  /\ busy = FALSE
  /\ qin = 0
  /\ received = 0
  /\ pc = "connect"
  /\ crash = "no"

IsConnected == m_connection # NoConn /\ sock[m_connection] = "open"

-----------------------------------------------------------------------------
(* The application thread. *)

\* What the application does when Connect() returns false.
Refused == pc' = IF Retry THEN "connect" ELSE "exit"

\* resolve() throws.
ResolveFails ==
  /\ pc \in {"connect", "down"}
  /\ Refused
  /\ UNCHANGED <<connObject, ioState, closing, ioThread, inbox, crash>>

\* Called for the first time, after a failure, or after a Disconnect().
\* make_unique destroys the connection that was there, whose handlers, if
\* any are outstanding, are left with a dangling this.
Connect ==
  /\ pc \in {"connect", "down"}
  /\ made < MaxConnects
  /\ made' = made + 1
  /\ m_connection' = made'
  /\ sock' = [k \in Conn |-> IF k = made' THEN "open"
                             ELSE IF k = m_connection THEN "closed" ELSE sock[k]]
  /\ op' = [op EXCEPT ![made'] = "connect"]
  /\ crash' = IF m_connection # NoConn /\ op[m_connection] # "none"
                THEN "dangling" ELSE crash
  /\ pc' = "start"
  /\ UNCHANGED <<closing, ioThread, inbox>>

\* Assigning to a joinable std::thread calls std::terminate.
StartThread ==
  /\ pc = "start"
  /\ IF thrContext = "none"
       THEN thrContext' = "running" /\ pc' = "return" /\ UNCHANGED crash
       ELSE crash' = "terminate" /\ UNCHANGED <<thrContext, pc>>
  /\ UNCHANGED <<connObject, ioState, closing, stopped, busy, inbox>>

ConnectReturns ==
  /\ pc = "return"
  /\ IF IsConnected THEN pc' = "up" ELSE Refused
  /\ UNCHANGED <<connObject, ioState, closing, ioThread, inbox, crash>>

\* Mutated form: a wait() that tests once, and believes any wakeup.
WaitOnce ==
  /\ pc = "up"
  /\ pc' = "pop"
  /\ UNCHANGED <<connObject, ioState, closing, ioThread, inbox, crash>>

\* The test of NextMessage, is_empty(), and that of AwaitNextMessage, the
\* loop of wait(), when they find a message; else there is nothing to do.
NextMessage ==
  /\ pc = "up"
  /\ qin > 0
  /\ pc' = "pop"
  /\ UNCHANGED <<connObject, ioState, closing, ioThread, inbox, crash>>

\* The pop that relies on it, of a queue the io thread uses meanwhile.
PopFront ==
  /\ pc = "pop"
  /\ IF qin = 0
       THEN crash' = "empty" /\ UNCHANGED <<qin, pc>>
       ELSE qin' = qin - 1 /\ pc' = "up" /\ UNCHANGED crash
  /\ UNCHANGED <<connObject, ioState, closing, ioThread, received>>

\* Disconnect(), by the application or by the destructor; it may find that
\* there is no connection any more.
DisconnectPost ==
  /\ pc \in {"up", "down"}
  /\ closing' = IF IsConnected THEN closing \cup {m_connection} ELSE closing
  /\ pc' = "stop"
  /\ UNCHANGED <<connObject, ioState, ioThread, inbox, crash>>

DisconnectStop ==
  /\ pc = "stop"
  /\ stopped' = TRUE
  /\ pc' = "join"
  /\ UNCHANGED <<connObject, ioState, closing, thrContext, busy, inbox, crash>>

\* Mutated form: lets the thread go on its own.
DisconnectDetach ==
  /\ pc = "join"
  /\ pc' = "release"
  /\ UNCHANGED <<connObject, ioState, closing, ioThread, inbox, crash>>

\* Mutated form: joins a thread that need not be there, which throws.
DisconnectJoinAny ==
  /\ pc = "join"
  /\ thrContext # "running"
  /\ IF thrContext = "none" THEN crash' = "terminate" /\ UNCHANGED <<thrContext, pc>>
     ELSE thrContext' = "none" /\ pc' = "release" /\ UNCHANGED crash
  /\ UNCHANGED <<connObject, ioState, closing, stopped, busy, inbox>>

\* join(), if the thread is joinable.
DisconnectJoin ==
  /\ pc = "join"
  /\ thrContext # "running"
  /\ thrContext' = "none"
  /\ pc' = "release"
  /\ UNCHANGED <<connObject, ioState, closing, stopped, busy, inbox, crash>>

\* release() gives the pointer up and destroys nothing.  The client is
\* destroyed after it, or may be used again.
DisconnectRelease ==
  /\ pc = "release"
  /\ m_connection' = NoConn
  /\ pc' \in {"down", "gone"}
  /\ UNCHANGED <<made, ioState, closing, ioThread, inbox, crash>>

Disconnect == DisconnectPost \/ DisconnectStop \/ DisconnectJoin \/ DisconnectRelease

-----------------------------------------------------------------------------
(* The io thread: what it finds ready, one handler at a time. *)

\* run() takes up the next handler, unless the context is stopped; once
\* taken up a handler runs to its end.  An operation is ready when the network
\* says so.
TakeUp ==
  /\ thrContext = "running"
  /\ ~stopped /\ ~busy
  /\ closing # {} \/ \E k \in Conn : op[k] # "none"
  /\ busy' = TRUE
  /\ UNCHANGED <<connObject, ioState, closing, stopped, thrContext, inbox, pc, crash>>

\* The read chain of connection k goes on, or ends with its socket as it is.
Proceed(k, from, to) ==
  /\ busy
  /\ busy' = FALSE
  /\ op[k] = from
  /\ op' = [op EXCEPT ![k] = to]
  /\ UNCHANGED <<connObject, closing, stopped, thrContext, pc, crash>>

Connected(k) ==
  /\ sock[k] = "open"
  /\ Proceed(k, "connect", "validate")
  /\ UNCHANGED <<sock, inbox>>
ConnectFails(k) ==
  /\ Proceed(k, "connect", "none")
  /\ UNCHANGED <<sock, inbox>>
Validated(k) ==
  /\ sock[k] = "open"
  /\ Proceed(k, "validate", "read")
  /\ UNCHANGED <<sock, inbox>>
Receive(k) ==
  /\ sock[k] = "open"
  /\ received < MaxMessages
  /\ Proceed(k, "read", "read")
  /\ qin' = qin + 1
  /\ received' = received + 1
  /\ UNCHANGED sock
ReadFails(k) ==
  /\ \E from \in {"validate", "read"} : Proceed(k, from, "none")
  /\ sock' = [sock EXCEPT ![k] = "closed"]
  /\ UNCHANGED inbox

PostedClose(k) ==
  /\ busy
  /\ busy' = FALSE
  /\ k \in closing
  /\ closing' = closing \ {k}
  /\ sock' = [sock EXCEPT ![k] = "closed"]
  /\ UNCHANGED <<connObject, op, stopped, thrContext, inbox, pc, crash>>

\* run() returns.
RunReturns ==
  /\ thrContext = "running"
  /\ ~busy
  /\ stopped \/ (closing = {} /\ \A k \in Conn : op[k] = "none")
  /\ thrContext' = "ended"
  /\ stopped' = TRUE
  /\ UNCHANGED <<connObject, ioState, closing, busy, inbox, pc, crash>>

IOHandler ==
  \E k \in Conn : \/ Connected(k) \/ ConnectFails(k) \/ Validated(k)
                  \/ Receive(k) \/ ReadFails(k) \/ PostedClose(k)

AppThread ==
  \/ ResolveFails \/ Connect \/ StartThread \/ ConnectReturns
  \/ NextMessage \/ PopFront \/ Disconnect

\* Nothing in the process runs after a crash or exit(1).
Alive == crash = "no" /\ pc # "exit"

ClientNext == Alive /\ (AppThread \/ TakeUp \/ IOHandler \/ RunReturns)

ClientSpec == ClientInit /\ [][ClientNext]_clientVars

\* The threads are scheduled; only the user decides when to disconnect, and
\* only the network when a handler is there to be taken up.
ClientFairness ==
  /\ WF_clientVars(Alive /\ (DisconnectStop \/ DisconnectJoin \/ DisconnectRelease))
  /\ WF_clientVars(Alive /\ (IOHandler \/ RunReturns))

ClientFairSpec == ClientSpec /\ ClientFairness

-----------------------------------------------------------------------------
ClientTypeOK ==
  /\ m_connection \in Conn \cup {NoConn}
  /\ made \in 0 .. MaxConnects
  /\ sock \in [Conn -> {"none", "open", "closed"}]
  /\ op \in [Conn -> {"none", "connect", "validate", "read"}]
  /\ closing \in SUBSET Conn
  /\ stopped \in BOOLEAN
  /\ thrContext \in {"none", "running", "ended"}
  /\ busy \in BOOLEAN
  /\ qin \in 0 .. MaxMessages
  /\ received \in 0 .. MaxMessages
  /\ pc \in AppPC
  /\ crash \in {"no", "terminate", "dangling"}  \* never a pop of an empty queue

\* No handler touches a connection that was given up, whether Connect() has
\* made another since or not, nor the queue of a client that is down: the
\* members can be destroyed in any order.
GivenUp(k) == k <= made /\ k # m_connection
QuietAfterDisconnect ==
  [][/\ \A k \in Conn : GivenUp(k) => sock'[k] = sock[k] /\ op'[k] = op[k]
     /\ pc \in {"down", "gone"} => qin' = qin]_clientVars

\* Disconnect() returns, whatever the server does or does not send, and
\* however often it is called.
DisconnectReturns == pc = "stop" ~> pc \in {"down", "gone"}
=============================================================================
