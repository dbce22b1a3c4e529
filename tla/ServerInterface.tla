-------------------------- MODULE ServerInterface --------------------------
(***************************************************************************)
(* library/server.h: the server, its list of connections, and the two      *)
(* threads that use it.  The io thread accepts, validates and receives;    *)
(* the main thread calls Update, which hands messages to OnMessage.  Both  *)
(* may end up in KickClient and MessageAllClients, which run through       *)
(* m_deqConnections without a lock.                                        *)
(*                                                                         *)
(* A connection is what this class sees of a Connection: whether its       *)
(* socket is open, how its validation went, and which asynchronous         *)
(* operations are outstanding.  Their handlers hold a raw pointer to it.   *)
(***************************************************************************)
EXTENDS Naturals, Sequences

CONSTANTS
  MaxClients,    \* bound: clients that connect
  MaxMessages,   \* bound: messages each client sends
  MaxUpdate,     \* nMaxMessages of Update()
  MaxDepth,      \* bound: nested calls of MessageAllClients, then the stack is gone
  Announce       \* what OnClientDisconnect does, see below

\* OnClientDisconnect tells all clients: "always", as the one of the README
\* does, or "once", in an application that keeps a roster of its own.
Announcements == {"once", "always"}

ASSUME BoundsAssumption ==
  /\ MaxClients \in Nat
  /\ MaxMessages \in Nat
  /\ MaxUpdate \in Nat \ {0}
  /\ MaxDepth \in Nat
  /\ Announce \in Announcements

Client == 1 .. MaxClients
NoClient == 0
Thread == {"io", "main"}

(***************************************************************************)
(* A call of MessageAllClients in progress: the next index of the loop,    *)
(* the index it ends at, pIgnoreClient, and the clients it has sent to.    *)
(***************************************************************************)
Call == [at : Nat \ {0}, stop : Nat, ignore : Client \cup {NoClient},
         sentTo : SUBSET Client]

VARIABLES
  conns,      \* m_deqConnections
  accepted,   \* how many connections have been accepted
  sock,       \* m_socket of each connection
  valid,      \* outcome of its validation
  reading,    \* its outstanding async_read
  writing,    \* a posted Send or an async_write of it is outstanding
  closing,    \* a posted close of it is outstanding
  inQ,        \* m_qMessagesIn: the owner of each message
  heard,      \* history: messages received from each client
  handled,    \* history: those given to OnMessage
  told,       \* history: connections OnClientDisconnect was called for
  pc,         \* where the main thread is in Update
  remote,     \* msg.remote of the message Update is at
  count,      \* nMessageCount
  calls,      \* calls of MessageAllClients on the stack of each thread
  stopped,    \* Stop() was called
  halted      \* the process has met a data race or an uncaught exception

connection == <<sock, valid, reading, writing, closing>>
update == <<pc, remote, count>>
vars == <<conns, accepted, connection, inQ, heard, handled, told, update, calls,
          stopped, halted>>

TypeOK ==
  /\ conns \in Seq(Client)
  /\ accepted \in 0 .. MaxClients
  /\ sock \in [Client -> {"none", "open", "closed"}]
  /\ valid \in [Client -> {"pending", "ok", "failed"}]
  /\ reading \in [Client -> {"none", "validation", "message"}]
  /\ writing \in [Client -> BOOLEAN]
  /\ closing \in [Client -> BOOLEAN]
  /\ inQ \in Seq(Client)
  /\ heard \in [Client -> 0 .. MaxMessages]
  /\ handled \in [Client -> Nat]
  /\ told \in SUBSET Client
  /\ pc \in {"idle", "loop", "handle", "check"}
  /\ remote \in Client \cup {NoClient}
  /\ count \in 0 .. MaxUpdate
  /\ calls \in [Thread -> Seq(Call)]
  /\ stopped \in BOOLEAN
  /\ halted \in {"no", "race", "exception"}

Init ==
  /\ conns = <<>>
  /\ accepted = 0
  /\ sock = [c \in Client |-> "none"]
  /\ valid = [c \in Client |-> "pending"]
  /\ reading = [c \in Client |-> "none"]
  /\ writing = [c \in Client |-> FALSE]
  /\ closing = [c \in Client |-> FALSE]
  /\ inQ = <<>>
  /\ heard = [c \in Client |-> 0]
  /\ handled = [c \in Client |-> 0]
  /\ told = {}
  /\ pc = "idle"
  /\ remote = NoClient
  /\ count = 0
  /\ calls = [t \in Thread |-> <<>>]
  /\ stopped = FALSE
  /\ halted = "no"

-----------------------------------------------------------------------------
(* MessageAllClients and KickClient, on whichever thread calls them. *)

IsConnected(c) == sock[c] = "open"

\* Mutated form: the loop starts one element too early.
LoopFromZero(ignore) == [at |-> 0, stop |-> Len(conns), ignore |-> ignore, sentTo |-> {}]

MessageAllClients(ignore) ==
  [at |-> 1, stop |-> Len(conns), ignore |-> ignore, sentTo |-> {}]

Return(t) == SubSeq(calls[t], 1, Len(calls[t]) - 1)

\* Mutated form: the kicked connection does leave the container.
KickErases(t, c, stack) ==
  /\ told' = told \cup {c}
  /\ calls' = [calls EXCEPT ![t] = stack]
  /\ conns' = SelectSeq(conns, LAMBDA d : d # c)

\* Mutated form: the application announces whatever it has announced before.
KickAnnounces(t, c, stack) ==
  /\ told' = told \cup {c}
  /\ calls' = [calls EXCEPT ![t] = Append(stack, MessageAllClients(NoClient))]
  /\ UNCHANGED conns

\* OnClientDisconnect, then client.reset(), which empties the parameter and
\* not the element of the container: remove() finds no nullptr there.
KickClient(t, c, stack) ==
  /\ told' = told \cup {c}
  /\ calls' = [calls EXCEPT ![t] =
                 IF Announce = "always" \/ c \notin told
                   THEN Append(stack, MessageAllClients(NoClient))
                   ELSE stack]
  /\ UNCHANGED conns

Send(c) == writing' = [writing EXCEPT ![c] = TRUE]

\* Mutated form: the loop ends at pIgnoreClient (break instead of continue).
MessageUntilIgnored(t) ==
  /\ calls[t] # <<>>
  /\ LET call == calls[t][Len(calls[t])]
         c == conns[call.at]
     IN  /\ call.at <= call.stop
         /\ IsConnected(c)
         /\ IF c = call.ignore
              THEN /\ calls' = [calls EXCEPT ![t] = Append(Return(t),
                                   [call EXCEPT !.at = call.stop + 1])]
                   /\ UNCHANGED writing
              ELSE /\ Send(c)
                   /\ calls' = [calls EXCEPT ![t] = Append(Return(t),
                        [call EXCEPT !.at = @ + 1, !.sentTo = @ \cup {c}])]
  /\ UNCHANGED <<conns, accepted, sock, valid, reading, closing, inQ, heard,
                 handled, told, update, stopped, halted>>

\* One turn of the loop, at a connection that is open.
MessageNext(t) ==
  /\ calls[t] # <<>>
  /\ LET call == calls[t][Len(calls[t])]
         c == conns[call.at]
     IN  /\ call.at <= call.stop
         /\ IsConnected(c)
         /\ IF c = call.ignore
              THEN /\ calls' = [calls EXCEPT ![t] = Append(Return(t),
                                   [call EXCEPT !.at = @ + 1])]
                   /\ UNCHANGED writing
              ELSE /\ Send(c)
                   /\ calls' = [calls EXCEPT ![t] = Append(Return(t),
                        [call EXCEPT !.at = @ + 1, !.sentTo = @ \cup {c}])]
  /\ UNCHANGED <<conns, accepted, sock, valid, reading, closing, inQ, heard,
                 handled, told, update, stopped, halted>>

\* One turn of the loop, at a connection that is not.
KickNext(t) ==
  /\ calls[t] # <<>>
  /\ Len(calls[t]) < MaxDepth
  /\ LET call == calls[t][Len(calls[t])]
         c == conns[call.at]
     IN  /\ call.at <= call.stop
         /\ ~IsConnected(c)
         /\ KickClient(t, c, Append(Return(t), [call EXCEPT !.at = @ + 1]))
  /\ UNCHANGED <<accepted, connection, inQ, heard, handled, update, stopped, halted>>

MessageReturn(t) ==
  /\ calls[t] # <<>>
  /\ calls[t][Len(calls[t])].at > calls[t][Len(calls[t])].stop
  /\ calls' = [calls EXCEPT ![t] = Return(t)]
  /\ UNCHANGED <<conns, accepted, connection, inQ, heard, handled, told, update,
                 stopped, halted>>

MessageAll(t) == MessageNext(t) \/ KickNext(t) \/ MessageReturn(t)

-----------------------------------------------------------------------------
(* The io thread: one completion handler at a time. *)

IOReady == calls["io"] = <<>> /\ ~stopped

\* The main thread is about to kick the sender of the message it is at.
KicksSender == pc \in {"handle", "check"} /\ ~IsConnected(remote)

\* waitForClientConnection: a new connection joins the container before its
\* handshake starts.  push_back invalidates the iterators of a loop that the
\* main thread may be in, and may overlap the remove() and erase() of KickClient.
Accept ==
  /\ IOReady
  /\ accepted < MaxClients
  /\ LET c == accepted + 1
     IN  /\ accepted' = c
         /\ conns' = Append(conns, c)
         /\ sock' = [sock EXCEPT ![c] = "open"]
         /\ reading' = [reading EXCEPT ![c] = "validation"]
         /\ writing' = [writing EXCEPT ![c] = TRUE]
  /\ halted' \in IF calls["main"] # <<>> THEN {"race"}
                 ELSE {halted} \cup (IF KicksSender THEN {"race"} ELSE {})
  /\ UNCHANGED <<valid, closing, inQ, heard, handled, told, update, calls, stopped>>

\* OnClientConnect returns false: the only reference goes out of scope.
Deny ==
  /\ IOReady
  /\ accepted < MaxClients
  /\ accepted' = accepted + 1
  /\ sock' = [sock EXCEPT ![accepted + 1] = "closed"]
  /\ UNCHANGED <<conns, valid, reading, writing, closing, inQ, heard, handled, told,
                 update, calls, stopped, halted>>

\* The peer is gone already: remote_endpoint() throws through run().
AcceptThrows ==
  /\ IOReady
  /\ accepted < MaxClients
  /\ halted' = "exception"
  /\ UNCHANGED <<conns, accepted, connection, inQ, heard, handled, told, update,
                 calls, stopped>>

\* OnClientValidated sends a message to the client, as the README has it.
Validated(c) ==
  /\ IOReady
  /\ reading[c] = "validation"
  /\ sock[c] = "open"
  /\ valid' = [valid EXCEPT ![c] = "ok"]
  /\ reading' = [reading EXCEPT ![c] = "message"]
  /\ Send(c)
  /\ UNCHANGED <<conns, accepted, sock, closing, inQ, heard, handled, told, update,
                 calls, stopped, halted>>

ValidationFailed(c) ==
  /\ IOReady
  /\ reading[c] = "validation"
  /\ sock[c] = "open"
  /\ valid' = [valid EXCEPT ![c] = "failed"]
  /\ reading' = [reading EXCEPT ![c] = "none"]
  /\ KickClient("io", c, <<>>)
  /\ UNCHANGED <<accepted, sock, writing, closing, inQ, heard, handled, update,
                 stopped, halted>>

Receive(c) ==
  /\ IOReady
  /\ reading[c] = "message"
  /\ sock[c] = "open"
  /\ heard[c] < MaxMessages
  /\ heard' = [heard EXCEPT ![c] = @ + 1]
  /\ inQ' = Append(inQ, c)
  /\ UNCHANGED <<conns, accepted, connection, handled, told, update, calls, stopped,
                 halted>>

\* A read fails: a header read posts the close, the others close at once.
ReadFails(c) ==
  /\ IOReady
  /\ reading[c] # "none"
  /\ reading' = [reading EXCEPT ![c] = "none"]
  /\ \/ /\ reading[c] = "message"
        /\ closing' = [closing EXCEPT ![c] = TRUE]
        /\ UNCHANGED sock
     \/ /\ sock' = [sock EXCEPT ![c] = "closed"]
        /\ UNCHANGED closing
  /\ UNCHANGED <<conns, accepted, valid, writing, inQ, heard, handled, told, update,
                 calls, stopped, halted>>

Close(c) ==
  /\ IOReady
  /\ closing[c]
  /\ closing' = [closing EXCEPT ![c] = FALSE]
  /\ sock' = [sock EXCEPT ![c] = "closed"]
  /\ UNCHANGED <<conns, accepted, valid, reading, writing, inQ, heard, handled, told,
                 update, calls, stopped, halted>>

\* What was posted and written completes, or fails and closes the socket;
\* other writes may remain.
WritesEnd(c) ==
  /\ IOReady
  /\ writing[c]
  /\ writing' \in {writing, [writing EXCEPT ![c] = FALSE]}
  /\ sock' \in {sock, [sock EXCEPT ![c] = "closed"]}
  /\ UNCHANGED <<conns, accepted, valid, reading, closing, inQ, heard, handled, told,
                 update, calls, stopped, halted>>

IOThread ==
  \/ Accept \/ Deny \/ AcceptThrows
  \/ \E c \in Client :
       \/ Validated(c) \/ ValidationFailed(c) \/ Receive(c)
       \/ ReadFails(c) \/ Close(c) \/ WritesEnd(c)
  \/ MessageAll("io")

-----------------------------------------------------------------------------
(* The main thread: Update, and the callbacks it makes. *)

MainReady == calls["main"] = <<>>

\* Update(), with bWait or not: without a message it waits, or returns at once.
UpdateCall ==
  /\ MainReady
  /\ ~stopped
  /\ pc = "idle"
  /\ inQ # <<>>
  /\ pc' = "loop"
  /\ count' = 0
  /\ UNCHANGED <<conns, accepted, connection, inQ, heard, handled, told, remote,
                 calls, stopped, halted>>

\* Mutated form: a message of a client that has gone is not handled.
PopConnected ==
  /\ MainReady
  /\ pc = "loop"
  /\ count < MaxUpdate
  /\ inQ # <<>>
  /\ remote' = Head(inQ)
  /\ inQ' = Tail(inQ)
  /\ pc' = IF IsConnected(Head(inQ)) THEN "handle" ELSE "check"
  /\ UNCHANGED <<conns, accepted, connection, heard, handled, told, count, calls,
                 stopped, halted>>

Pop ==
  /\ MainReady
  /\ pc = "loop"
  /\ count < MaxUpdate
  /\ inQ # <<>>
  /\ remote' = Head(inQ)
  /\ inQ' = Tail(inQ)
  /\ pc' = "handle"
  /\ UNCHANGED <<conns, accepted, connection, heard, handled, told, count, calls,
                 stopped, halted>>

UpdateReturn ==
  /\ MainReady
  /\ pc = "loop"
  /\ count = MaxUpdate \/ inQ = <<>>
  /\ pc' = "idle"
  /\ UNCHANGED <<conns, accepted, connection, inQ, heard, handled, told, remote,
                 count, calls, stopped, halted>>

\* OnMessage: the application relays the message to all other clients, or
\* answers its sender with MessageClient.
OnMessage ==
  /\ MainReady
  /\ pc = "handle"
  /\ pc' = "check"
  /\ handled' = [handled EXCEPT ![remote] = @ + 1]
  /\ \/ /\ calls' = [calls EXCEPT !["main"] = <<MessageAllClients(remote)>>]
        /\ UNCHANGED <<writing, told, conns>>
     \/ /\ IsConnected(remote)
        /\ Send(remote)
        /\ UNCHANGED <<calls, told, conns>>
     \/ /\ ~IsConnected(remote)
        /\ KickClient("main", remote, <<>>)
        /\ UNCHANGED writing
  /\ UNCHANGED <<accepted, sock, valid, reading, closing, inQ, heard, remote, count,
                 stopped, halted>>

UpdateCheck ==
  /\ MainReady
  /\ pc = "check"
  /\ pc' = "loop"
  /\ remote' = NoClient
  /\ IF IsConnected(remote)
       THEN count' = count + 1 /\ UNCHANGED <<told, calls, conns>>
       ELSE KickClient("main", remote, <<>>) /\ UNCHANGED count
  /\ UNCHANGED <<accepted, connection, inQ, heard, handled, stopped, halted>>

\* Stop() ends the io thread after the handler it is in.
Stop ==
  /\ MainReady
  /\ pc = "idle"
  /\ calls["io"] = <<>>
  /\ ~stopped
  /\ stopped' = TRUE
  /\ UNCHANGED <<conns, accepted, connection, inQ, heard, handled, told, update,
                 calls, halted>>

Update == UpdateCall \/ Pop \/ UpdateReturn \/ OnMessage \/ UpdateCheck
MainThread == Update \/ MessageAll("main")

-----------------------------------------------------------------------------
Next == halted = "no" /\ (IOThread \/ MainThread \/ Stop)

Spec == Init /\ [][Next]_vars

(***************************************************************************)
(* The main thread calls Update in a loop.  What the io thread does is up  *)
(* to the clients, but it runs the callback it is in to its end.           *)
(***************************************************************************)
Fairness ==
  /\ WF_vars(halted = "no" /\ MainThread)
  /\ WF_vars(halted = "no" /\ MessageAll("io"))

FairSpec == Spec /\ Fairness

-----------------------------------------------------------------------------
(***************************************************************************)
(* The handlers of asynchronous operations hold a raw `this`; what keeps a *)
(* Connection alive are the shared_ptrs in m_deqConnections, in the queued *)
(* messages and in the message Update is at.  So while an operation of a   *)
(* connection is outstanding, somebody holds it.                           *)
(***************************************************************************)
Holds(s, c) == \E i \in 1 .. Len(s) : s[i] = c
Outstanding(c) == reading[c] # "none" \/ writing[c] \/ closing[c]

NoHandlerOutlivesConnection ==
  \A c \in Client :
    Outstanding(c) => Holds(conns, c) \/ Holds(inQ, c) \/ remote = c

(***************************************************************************)
(* What the two threads do to a connection keeps to ServedConnection,      *)
(* which Connection implements.                                            *)
(***************************************************************************)
Served(c) == INSTANCE ServedConnection WITH
  sock <- sock[c], valid <- valid[c], reading <- reading[c],
  writing <- writing[c], closing <- closing[c], heard <- heard[c]
KeepsToServed ==
  /\ \A c \in Client : Served(c)!Init
  /\ [][\A c \in Client : Served(c)!Next \/ UNCHANGED Served(c)!vars]_vars

(***************************************************************************)
(* A MessageAllClients that returns has sent to every connection that was  *)
(* listed when it began, except the one to ignore and those closed by now, *)
(* whatever KickClient and OnClientDisconnect did in the middle.           *)
(***************************************************************************)
Reached(call) ==
  \A i \in 1 .. call.stop :
    conns[i] \in call.sentTo \cup {call.ignore} \/ ~IsConnected(conns[i])

AllReached ==
  [][\A t \in Thread :
       Len(calls'[t]) < Len(calls[t]) => Reached(calls[t][Len(calls[t])])]_vars

(***************************************************************************)
(* A message that was received is handed to OnMessage, even if its sender  *)
(* has gone since, as long as the process runs and does not stop.          *)
(***************************************************************************)
MessagesHandled ==
  \A c \in Client : \A n \in 1 .. MaxMessages :
    (heard[c] >= n) ~> (handled[c] >= n \/ stopped \/ halted # "no")

(***************************************************************************)
(* An OnClientDisconnect that tells the others that a client has gone may  *)
(* find more of them gone and be called again in the middle, but not more  *)
(* often than there are clients.                                           *)
(***************************************************************************)
AnnouncementEnds == \A t \in Thread : Len(calls[t]) <= MaxClients + 1
=============================================================================
