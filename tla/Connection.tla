----------------------------- MODULE Connection -----------------------------
(***************************************************************************)
(* library/connection.h: one TCP connection, seen from both ends.  The     *)
(* client end is the Connection a ClientIntefrace owns, the server end the *)
(* Connection made by the accept handler of ServerInterface; each end runs *)
(* its completion handlers on the one thread of its io_context, while the  *)
(* application calls Send and Disconnect from a thread of its own.         *)
(*                                                                         *)
(* A step is one completion handler, one posted function, one call of the  *)
(* application, or one event of the network (external: asio and TCP).      *)
(* The eight bytes of a handshake value, the eight of a message header and *)
(* the body of a message are one frame each.                               *)
(***************************************************************************)
EXTENDS Naturals, Sequences

CONSTANTS
  Nonces,       \* the handshake values
  Challenges,   \* those a server draws with std::rand()
  Garbage,      \* eight bytes that are not a handshake value
  Scramble,     \* scramble(), as a function on handshake values
  Sizes,        \* body sizes of the messages the applications build
  MaxSend,      \* bound: messages the application of each end sends
  Faults,       \* what the environment may do, see below
  EarlySend,    \* the client application sends without waiting to be accepted
  Broadcast,    \* the server application sends to connections not validated
  Echo          \* the server application sends back what it receives

Side == {"client", "server"}
Peer(s) == IF s = "client" THEN "server" ELSE "client"

AllFaults == {"refuse", "deny", "reset", "leave"}

ASSUME HandshakeAssumption ==
  /\ Garbage \notin Nonces
  /\ Challenges \subseteq Nonces
  /\ Scramble \in [Nonces -> Nonces]
ASSUME TrafficAssumption ==
  /\ Sizes \subseteq Nat
  /\ MaxSend \in [Side -> Nat]
  /\ Faults \subseteq AllFaults
  /\ EarlySend \in BOOLEAN
  /\ Broadcast \in BOOLEAN
  /\ Echo \in BOOLEAN

(***************************************************************************)
(* Message<T>: header.id, header.size, and a body, known by the id of the  *)
(* message it was built for (NoBody: body.size() is 0).                    *)
(***************************************************************************)
NoBody == 0
Msg == [id : Nat, size : Nat, body : Nat]
NewMsg(id, size) ==
  [id |-> id, size |-> size, body |-> IF size > 0 THEN id ELSE NoBody]

Values == Nonces \cup {Garbage}
Frame == [kind : {"nonce"}, value : Values]
           \cup [kind : {"header"}, id : Nat, size : Nat]
           \cup [kind : {"body"}, body : Nat]
Nonce(v) == [kind |-> "nonce", value |-> v]
Header(m) == [kind |-> "header", id |-> m.id, size |-> m.size]
Body(m) == [kind |-> "body", body |-> m.body]

(***************************************************************************)
(* Outstanding writes, and functions posted to the io_context.             *)
(***************************************************************************)
Write == [op : {"validation"}, value : Values]
           \cup [op : {"header", "body"}, msg : Msg]
Posted == [fn : {"send"}, msg : Msg] \cup [fn : {"close"}]

VARIABLES
  link,        \* the TCP connection, as the two kernels see it
  connecting,  \* the client's async_connect is outstanding
  sock,        \* m_socket of each end: not yet made, open (is_open), closed
  chan,        \* frames on their way to each end
  rd,          \* the outstanding async_read of each end
  wr,          \* the outstanding async_writes of each end, oldest first
  posted,      \* functions posted to each io_context, oldest first
  hsOut,       \* m_nHandshakeOut
  validation,  \* outcome of the server's validation of this client
  out,         \* m_qMessagesOut
  tmp,         \* m_msgTemporaryIn
  delivered,   \* history of m_qMessagesIn: all messages pushed for this end
  handled,     \* how many of those the server application has echoed
  sent,        \* history: messages given to Send, in the order posted
  desync,      \* a read found a frame of another kind than it was issued for
  leaving      \* how far the client application is in Disconnect()

net == <<link, connecting, chan>>
reading == <<rd, tmp, delivered, desync>>
writing == <<wr, out>>
app == <<posted, handled, sent, leaving>>
vars == <<link, connecting, sock, chan, rd, wr, posted, hsOut, validation, out,
          tmp, delivered, handled, sent, desync, leaving>>

TypeOK ==
  /\ link \in {"none", "refused", "up", "reset"}
  /\ connecting \in BOOLEAN
  /\ sock \in [Side -> {"none", "open", "closed"}]
  /\ sock["client"] # "none"
  /\ chan \in [Side -> Seq(Frame)]
  /\ rd \in [Side -> {"none", "validation", "header", "body"}]
  /\ wr \in [Side -> Seq(Write)]
  /\ posted \in [Side -> Seq(Posted)]
  /\ hsOut \in [Side -> Values]
  /\ validation \in {"pending", "ok", "failed"}
  /\ out \in [Side -> Seq(Msg)]
  /\ tmp \in [Side -> Msg]
  /\ delivered \in [Side -> Seq(Msg)]
  /\ handled \in Nat
  /\ sent \in [Side -> Seq(Msg)]
  /\ desync \in BOOLEAN
  /\ leaving \in {"no", "closing", "stopped"}

(***************************************************************************)
(* Connect() has just returned: the client's socket was opened by the      *)
(* async_connect it started, the server knows nothing yet.                 *)
(***************************************************************************)
Init ==
  /\ link = "none"
  /\ connecting = TRUE
  /\ sock = [s \in Side |-> IF s = "client" THEN "open" ELSE "none"]
  /\ chan = [s \in Side |-> <<>>]
  /\ rd = [s \in Side |-> "none"]
  /\ wr = [s \in Side |-> <<>>]
  /\ posted = [s \in Side |-> <<>>]
  /\ hsOut = [s \in Side |-> Garbage]
  /\ validation = "pending"
  /\ out = [s \in Side |-> <<>>]
  /\ tmp = [s \in Side |-> NewMsg(0, 0)]
  /\ delivered = [s \in Side |-> <<>>]
  /\ handled = 0
  /\ sent = [s \in Side |-> <<>>]
  /\ desync = FALSE
  /\ leaving = "no"

-----------------------------------------------------------------------------
(***************************************************************************)
(* The network (external).  A reset loses what is under way; besides the   *)
(* "reset" fault it is what a closed end answers to data sent to it.       *)
(***************************************************************************)
Establish ==
  /\ link = "none"
  /\ sock["client"] = "open"
  /\ link' = "up"
  /\ UNCHANGED <<connecting, chan, sock, reading, writing, app, hsOut, validation>>

Reset ==
  /\ link = "up"
  /\ "reset" \in Faults \/ \E s \in Side : sock[s] = "closed"
  /\ link' = "reset"
  /\ chan' = [s \in Side |-> <<>>]
  /\ UNCHANGED <<connecting, sock, reading, writing, app, hsOut, validation>>

\* An async_read completes: with the frame at the head of the stream, or with
\* an error (operation aborted, connection reset, end of file).
CanRead(s) == link = "up" /\ sock[s] = "open" /\ chan[s] # <<>>
ReadFails(s) ==
  \/ sock[s] = "closed"
  \/ link = "reset"
  \/ sock[Peer(s)] = "closed" /\ chan[s] = <<>>

\* An async_write completes once the kernel has the bytes, or with an error.
CanWrite(s) == link = "up" /\ sock[s] = "open"
WriteFails(s) ==
  \/ sock[s] = "closed"
  \/ link \in {"refused", "reset"}
  \/ sock[Peer(s)] = "closed"

Transmit(s, f) == chan' = [chan EXCEPT ![Peer(s)] = Append(@, f)]
Consume(s) == chan' = [chan EXCEPT ![s] = Tail(@)]

-----------------------------------------------------------------------------
(***************************************************************************)
(* asio::post.  The client's io thread ends when it is stopped or runs out *)
(* of work, and what is posted afterwards never runs; the server's always  *)
(* has an accept outstanding.                                              *)
(***************************************************************************)
Running(s) == s = "client" => leaving # "stopped"

IOAlive(s) ==
  \/ s = "server"
  \/ connecting
  \/ rd[s] # "none" \/ wr[s] # <<>> \/ posted[s] # <<>>

Post(s, f) ==
  posted' = IF IOAlive(s) THEN [posted EXCEPT ![s] = Append(@, f)] ELSE posted

\* Mutated form: closing gives the socket up instead of closing it.
CloseLosesSocket(s) == sock' = [sock EXCEPT ![s] = "none"]

Close(s) == sock' = [sock EXCEPT ![s] = "closed"]

\* Starting the write of the message at the front of m_qMessagesOut.
HeaderWrite(q) == IF q = <<>> THEN <<>> ELSE <<[op |-> "header", msg |-> Head(q)]>>

-----------------------------------------------------------------------------
(* The applications, each on its own thread. *)

\* Send().  A server sends through MessageClient and MessageAllClients, which
\* test IsConnected(); a client that follows the README waits for the first
\* message of the server, the ping example does not wait.
MaySend(s) ==
  IF s = "server"
    THEN sock[s] = "open" /\ (Broadcast \/ validation = "ok")
    ELSE leaving = "no" /\ (EarlySend \/ delivered[s] # <<>>)

Send(s, size) ==
  /\ Len(sent[s]) < MaxSend[s]
  /\ MaySend(s)
  /\ LET m == NewMsg(Len(sent[s]) + 1, size)
     IN  /\ Post(s, [fn |-> "send", msg |-> m])
         /\ sent' = [sent EXCEPT ![s] = Append(@, m)]
  /\ UNCHANGED <<net, sock, reading, writing, handled, leaving, hsOut, validation>>

\* OnMessage of a server that answers MessageClient(client, msg) with the very
\* message it was given.
EchoMessage ==
  /\ Echo
  /\ handled < Len(delivered["server"])
  /\ handled' = handled + 1
  /\ LET m == delivered["server"][handled + 1]
     IN  IF sock["server"] = "open"
           THEN /\ Post("server", [fn |-> "send", msg |-> m])
                /\ sent' = [sent EXCEPT !["server"] = Append(@, m)]
           ELSE UNCHANGED <<posted, sent>>
  /\ UNCHANGED <<net, sock, reading, writing, leaving, hsOut, validation>>

\* ClientIntefrace::Disconnect(): post the close, then stop the io_context,
\* which lets the handler that is running finish and drops all others.
Disconnect ==
  /\ "leave" \in Faults
  /\ leaving = "no"
  /\ leaving' = "closing"
  /\ IF sock["client"] = "open" THEN Post("client", [fn |-> "close"]) ELSE UNCHANGED posted
  /\ UNCHANGED <<net, sock, reading, writing, handled, sent, hsOut, validation>>

StopContext ==
  /\ leaving = "closing"
  /\ leaving' = "stopped"
  /\ UNCHANGED <<net, sock, reading, writing, posted, handled, sent, hsOut, validation>>

-----------------------------------------------------------------------------
(* Connecting: the client's async_connect and the server's async_accept. *)

ConnectToServer ==
  /\ connecting
  /\ connecting' = FALSE
  /\ \/ /\ sock["client"] = "open"
        /\ link \in {"up", "reset"}
        /\ rd' = [rd EXCEPT !["client"] = "validation"]
        /\ UNCHANGED link
     \/ /\ sock["client"] = "open"
        /\ link = "none"
        /\ "refuse" \in Faults
        /\ link' = "refused"
        /\ UNCHANGED rd
     \/ /\ sock["client"] = "closed"
        /\ UNCHANGED <<link, rd>>
  /\ UNCHANGED <<chan, sock, tmp, delivered, desync, writing, app, hsOut, validation>>

\* The accept handler: construct the server end with a fresh challenge, ask
\* OnClientConnect, then ConnectToClient: write the challenge, read the answer.
ConnectToClient ==
  /\ link = "up"
  /\ sock["server"] = "none"
  /\ \E v \in Challenges : hsOut' = [hsOut EXCEPT !["server"] = v]
  /\ \/ /\ sock' = [sock EXCEPT !["server"] = "open"]
        /\ wr' = [wr EXCEPT !["server"] =
                    Append(@, [op |-> "validation", value |-> hsOut'["server"]])]
        /\ rd' = [rd EXCEPT !["server"] = "validation"]
     \/ /\ "deny" \in Faults
        /\ Close("server")
        /\ UNCHANGED <<wr, rd>>
  /\ UNCHANGED <<net, tmp, delivered, desync, out, app, validation>>

-----------------------------------------------------------------------------
(* The handshake. *)

\* The eight bytes an async_read of m_nHandshakeIn finds.
ValueOf(f) == IF f.kind = "nonce" THEN f.value ELSE Garbage

\* Mutated form: the client sends its challenge back as it came.
AnswerUnscrambled(v) == v

Answer(v) == IF v \in Nonces THEN Scramble[v] ELSE Garbage

ReadChallenge ==
  /\ rd["client"] = "validation"
  /\ CanRead("client")
  /\ Consume("client")
  /\ LET answer == Answer(ValueOf(Head(chan["client"])))
     IN  /\ hsOut' = [hsOut EXCEPT !["client"] = answer]
         /\ wr' = [wr EXCEPT !["client"] =
                     Append(@, [op |-> "validation", value |-> answer])]
  /\ rd' = [rd EXCEPT !["client"] = "none"]
  /\ UNCHANGED <<link, connecting, sock, tmp, delivered, desync, out, app, validation>>

\* Mutated form: the server reads messages whatever the answer was.
ReadAnswerAnyway ==
  /\ rd["server"] = "validation"
  /\ CanRead("server")
  /\ Consume("server")
  /\ validation' = IF ValueOf(Head(chan["server"])) = Scramble[hsOut["server"]]
                     THEN "ok" ELSE "failed"
  /\ rd' = [rd EXCEPT !["server"] = "header"]
  /\ UNCHANGED <<link, connecting, sock, tmp, delivered, desync, writing, app, hsOut>>

\* A wrong answer leads to KickClient, which closes nothing.
ReadAnswer ==
  /\ rd["server"] = "validation"
  /\ CanRead("server")
  /\ Consume("server")
  /\ IF ValueOf(Head(chan["server"])) = Scramble[hsOut["server"]]
       THEN /\ validation' = "ok"
            /\ rd' = [rd EXCEPT !["server"] = "header"]
       ELSE /\ validation' = "failed"
            /\ rd' = [rd EXCEPT !["server"] = "none"]
  /\ UNCHANGED <<link, connecting, sock, tmp, delivered, desync, writing, app, hsOut>>

WriteValidation(s) ==
  /\ wr[s] # <<>>
  /\ Head(wr[s]).op = "validation"
  /\ CanWrite(s)
  /\ Transmit(s, Nonce(Head(wr[s]).value))
  /\ wr' = [wr EXCEPT ![s] = Tail(@)]
  /\ rd' = IF s = "client" THEN [rd EXCEPT ![s] = "header"] ELSE rd
  /\ UNCHANGED <<link, connecting, sock, tmp, delivered, desync, out, app, hsOut, validation>>

-----------------------------------------------------------------------------
(* Sending: posted functions, then the chain WriteHeader, WriteBody. *)

\* Mutated form: a write is started although another is in progress.
PostedSendAlways(s) ==
  /\ posted[s] # <<>>
  /\ Head(posted[s]).fn = "send"
  /\ posted' = [posted EXCEPT ![s] = Tail(@)]
  /\ LET q == Append(out[s], Head(posted[s]).msg)
     IN  /\ out' = [out EXCEPT ![s] = q]
         /\ wr' = [wr EXCEPT ![s] = @ \o HeaderWrite(q)]
  /\ UNCHANGED <<net, sock, reading, handled, sent, leaving, hsOut, validation>>

\* Mutated form: push_front instead of push_back.
PostedSendFront(s) ==
  /\ posted[s] # <<>>
  /\ Head(posted[s]).fn = "send"
  /\ posted' = [posted EXCEPT ![s] = Tail(@)]
  /\ LET q == <<Head(posted[s]).msg>> \o out[s]
     IN  /\ out' = [out EXCEPT ![s] = q]
         /\ wr' = IF out[s] = <<>> THEN [wr EXCEPT ![s] = @ \o HeaderWrite(q)] ELSE wr
  /\ UNCHANGED <<net, sock, reading, handled, sent, leaving, hsOut, validation>>

PostedSend(s) ==
  /\ posted[s] # <<>>
  /\ Head(posted[s]).fn = "send"
  /\ posted' = [posted EXCEPT ![s] = Tail(@)]
  /\ LET q == Append(out[s], Head(posted[s]).msg)
     IN  /\ out' = [out EXCEPT ![s] = q]
         /\ wr' = IF out[s] = <<>> THEN [wr EXCEPT ![s] = @ \o HeaderWrite(q)] ELSE wr
  /\ UNCHANGED <<net, sock, reading, handled, sent, leaving, hsOut, validation>>

PostedClose(s) ==
  /\ posted[s] # <<>>
  /\ Head(posted[s]).fn = "close"
  /\ posted' = [posted EXCEPT ![s] = Tail(@)]
  /\ Close(s)
  /\ UNCHANGED <<net, reading, writing, handled, sent, leaving, hsOut, validation>>

\* Mutated form: the chain of writes ends with each message.
WriteStops(s) ==
  /\ out' = [out EXCEPT ![s] = Tail(@)]
  /\ wr' = [wr EXCEPT ![s] = Tail(@)]

\* Pop the message just written and go on with the next one.
WriteNext(s) ==
  /\ out' = [out EXCEPT ![s] = Tail(@)]
  /\ wr' = [wr EXCEPT ![s] = Tail(@) \o HeaderWrite(Tail(out[s]))]

WriteHeader(s) ==
  /\ wr[s] # <<>>
  /\ Head(wr[s]).op = "header"
  /\ CanWrite(s)
  /\ Transmit(s, Header(Head(wr[s]).msg))
  /\ IF Head(out[s]).body # NoBody
       THEN /\ wr' = [wr EXCEPT ![s] = Append(Tail(@), [op |-> "body", msg |-> Head(out[s])])]
            /\ UNCHANGED out
       ELSE WriteNext(s)
  /\ UNCHANGED <<link, connecting, sock, reading, app, hsOut, validation>>

WriteBody(s) ==
  /\ wr[s] # <<>>
  /\ Head(wr[s]).op = "body"
  /\ CanWrite(s)
  /\ Transmit(s, Body(Head(wr[s]).msg))
  /\ WriteNext(s)
  /\ UNCHANGED <<link, connecting, sock, reading, app, hsOut, validation>>

\* Every write handler closes the socket on an error; the queue keeps its front.
WriteError(s) ==
  /\ wr[s] # <<>>
  /\ WriteFails(s)
  /\ wr' = [wr EXCEPT ![s] = Tail(@)]
  /\ Close(s)
  /\ UNCHANGED <<net, reading, out, app, hsOut, validation>>

-----------------------------------------------------------------------------
(* Receiving: the chain ReadHeader, ReadBody. *)

\* Mutated form: the next header is not read.
AddWithoutReading(s, m) ==
  /\ delivered' = [delivered EXCEPT ![s] = Append(@, m)]
  /\ rd' = [rd EXCEPT ![s] = "none"]

AddToIncomingMessageQueue(s, m) ==
  /\ delivered' = [delivered EXCEPT ![s] = Append(@, m)]
  /\ rd' = [rd EXCEPT ![s] = "header"]

\* Without a body the temporary message is queued as it is: header replaced,
\* body whatever the previous message left there.
ReadHeader(s) ==
  /\ rd[s] = "header"
  /\ CanRead(s)
  /\ Consume(s)
  /\ LET f == Head(chan[s])
         m == [tmp[s] EXCEPT !.id = f.id, !.size = f.size]
     IN  IF f.kind = "header"
           THEN /\ tmp' = [tmp EXCEPT ![s] = m]
                /\ IF f.size > 0
                     THEN rd' = [rd EXCEPT ![s] = "body"] /\ UNCHANGED delivered
                     ELSE AddToIncomingMessageQueue(s, m)
                /\ UNCHANGED desync
           ELSE desync' = TRUE /\ UNCHANGED <<tmp, rd, delivered>>
  /\ UNCHANGED <<link, connecting, sock, writing, app, hsOut, validation>>

\* Mutated form: the message is queued before its body has been filled in.
ReadBodyLate(s) ==
  /\ rd[s] = "body"
  /\ CanRead(s)
  /\ Consume(s)
  /\ tmp' = [tmp EXCEPT ![s].body = Head(chan[s]).body]
  /\ AddToIncomingMessageQueue(s, tmp[s])
  /\ UNCHANGED <<link, connecting, sock, writing, app, hsOut, validation, desync>>

ReadBody(s) ==
  /\ rd[s] = "body"
  /\ CanRead(s)
  /\ Consume(s)
  /\ LET f == Head(chan[s])
         m == [tmp[s] EXCEPT !.body = f.body]
     IN  IF f.kind = "body"
           THEN /\ tmp' = [tmp EXCEPT ![s] = m]
                /\ AddToIncomingMessageQueue(s, m)
                /\ UNCHANGED desync
           ELSE desync' = TRUE /\ UNCHANGED <<tmp, rd, delivered>>
  /\ UNCHANGED <<link, connecting, sock, writing, app, hsOut, validation>>

\* Mutated form: a failed header read is only logged.
ReadErrorLogged(s) ==
  /\ rd[s] # "none"
  /\ ReadFails(s)
  /\ rd' = [rd EXCEPT ![s] = "none"]
  /\ IF rd[s] = "header" THEN UNCHANGED sock ELSE Close(s)
  /\ UNCHANGED <<net, tmp, delivered, desync, writing, posted, handled, sent, leaving,
                 hsOut, validation>>

\* ReadValidation and ReadBody close at once, ReadHeader posts the close.  Its
\* handler also sets a `success' of ReadHeader() that is out of scope by then:
\* the byte this overwrites on the stack of the thread is taken to be unused.
ReadError(s) ==
  /\ rd[s] # "none"
  /\ ReadFails(s)
  /\ rd' = [rd EXCEPT ![s] = "none"]
  /\ IF rd[s] = "header"
       THEN /\ posted' = [posted EXCEPT ![s] = Append(@, [fn |-> "close"])]
            /\ UNCHANGED sock
       ELSE Close(s) /\ UNCHANGED posted
  /\ UNCHANGED <<net, tmp, delivered, desync, writing, handled, sent, leaving, hsOut, validation>>

-----------------------------------------------------------------------------
Network == Establish \/ Reset
Application ==
  \/ \E s \in Side, size \in Sizes : Send(s, size)
  \/ EchoMessage
  \/ Disconnect \/ StopContext

\* One completion handler or posted function, on the io thread of its end.
Connecting(s) ==
  \/ s = "client" /\ ConnectToServer
  \/ s = "server" /\ ConnectToClient
Handshake(s) ==
  \/ s = "client" /\ ReadChallenge
  \/ s = "server" /\ ReadAnswer
WriteStep(s) == WriteValidation(s) \/ WriteHeader(s) \/ WriteBody(s) \/ WriteError(s)
ReadStep(s) == Handshake(s) \/ ReadHeader(s) \/ ReadBody(s) \/ ReadError(s)
PostedStep(s) == PostedSend(s) \/ PostedClose(s)

\* What follows a misread frame depends on its bytes; behaviours stop there.
Next ==
  /\ ~desync
  /\ \/ Network \/ Application
     \/ \E s \in Side :
          Running(s) /\ (Connecting(s) \/ WriteStep(s) \/ ReadStep(s) \/ PostedStep(s))

Spec == Init /\ [][Next]_vars

(***************************************************************************)
(* The io threads run every handler that is ready, and the network lets    *)
(* the connection through or refuses it.  Disconnect() does not stop half  *)
(* way; apart from that applications and faults are free.                  *)
(***************************************************************************)
Ready(s) == ~desync /\ Running(s)

Fairness ==
  /\ WF_vars(Establish)
  /\ WF_vars(~desync /\ StopContext)
  /\ WF_vars(~desync /\ EchoMessage)
  /\ \A s \in Side :
       /\ WF_vars(Ready(s) /\ Connecting(s))
       /\ WF_vars(Ready(s) /\ WriteStep(s))
       /\ WF_vars(Ready(s) /\ ReadStep(s))
       /\ WF_vars(Ready(s) /\ PostedStep(s))

FairSpec == Spec /\ Fairness
-----------------------------------------------------------------------------
(***************************************************************************)
(* WriteHeader and WriteBody hand asio buffers that point into the front   *)
(* of m_qMessagesOut.  So at most one message write is outstanding on an   *)
(* end, and it is one of the front message: no write is started while      *)
(* another is in progress, none outlives the pop of its message.           *)
(***************************************************************************)
IsMessageWrite(w) == w.op \in {"header", "body"}

OneMessageWrite ==
  \A s \in Side : \A i \in 1 .. Len(wr[s]) :
    IsMessageWrite(wr[s][i]) =>
      /\ out[s] # <<>>
      /\ wr[s][i].msg = Head(out[s])
      /\ \A j \in 1 .. Len(wr[s]) : IsMessageWrite(wr[s][j]) => j = i

(***************************************************************************)
(* Send starts a write only if the queue was empty, trusting the chain of  *)
(* write handlers to come back for the rest.  So the chain never stops     *)
(* short: while messages wait on an open socket, a write is outstanding.   *)
(***************************************************************************)
WriterArmed ==
  \A s \in Side :
    sock[s] = "open" /\ out[s] # <<>> =>
      \E i \in 1 .. Len(wr[s]) : IsMessageWrite(wr[s][i])

(***************************************************************************)
(* Once its handshake is over, an end with an open socket always listens:  *)
(* a read is outstanding, or a failed one has posted the close.            *)
(***************************************************************************)
HandshakeOver(s) ==
  \/ s = "server" /\ validation = "ok"
  \/ /\ s = "client"
     /\ hsOut[s] # Garbage
     /\ \A i \in 1 .. Len(wr[s]) : wr[s][i].op # "validation"

ReaderArmed ==
  \A s \in Side :
    sock[s] = "open" /\ HandshakeOver(s) =>
      \/ rd[s] \in {"header", "body"}
      \/ \E i \in 1 .. Len(posted[s]) : posted[s][i].fn = "close"

(***************************************************************************)
(* Each direction is a FIFO channel of messages, as their headers show:    *)
(* what has reached m_qMessagesIn is what the other side gave to Send, in  *)
(* that order, none twice and none left out.                               *)
(***************************************************************************)
Headers(s) == [kind : {"header"}, id : 1 .. MaxSend[s], size : Sizes]
HeadersOf(q) == [i \in 1 .. Len(q) |-> Header(q[i])]
Undelivered(s) ==
  HeadersOf(SubSeq(sent[Peer(s)], Len(delivered[s]) + 1, Len(sent[Peer(s)])))

ToServer == INSTANCE FIFOQueue WITH
  Items <- Headers("client"), items <- Undelivered("server"),
  put <- HeadersOf(sent["client"]), got <- HeadersOf(delivered["server"])
ToClient == INSTANCE FIFOQueue WITH
  Items <- Headers("client") \cup Headers("server"), items <- Undelivered("client"),
  put <- HeadersOf(sent["server"]), got <- HeadersOf(delivered["client"])
ImplementsFIFO == ToServer!Spec /\ ToClient!Spec

(***************************************************************************)
(* The server end keeps to what ServerInterface takes a connection for: in *)
(* whatever order its reads, writes and posted functions end or fail, each *)
(* step is one that server.h allows for.                                   *)
(***************************************************************************)
Has(q, fn) == \E i \in DOMAIN q : q[i].fn = fn
ServedReading == IF rd["server"] \in {"header", "body"} THEN "message" ELSE rd["server"]
ServedWriting == wr["server"] # <<>> \/ Has(posted["server"], "send")

Served == INSTANCE ServedConnection WITH
  sock <- sock["server"], valid <- validation, reading <- ServedReading,
  writing <- ServedWriting, closing <- Has(posted["server"], "close"),
  heard <- Len(delivered["server"])
ImplementsServed == Served!Spec

(***************************************************************************)
(* The same of whole messages: a message is delivered with the body it was *)
(* sent with.                                                              *)
(***************************************************************************)
DeliveredAsSent ==
  \A s \in Side : \A i \in 1 .. Len(delivered[s]) :
    i <= Len(sent[Peer(s)]) /\ delivered[s][i] = sent[Peer(s)][i]

(***************************************************************************)
(* The server application hears only from a client that answered the       *)
(* challenge with its scrambled value (ReadValidation reads no header for  *)
(* any other).                                                             *)
(***************************************************************************)
OnlyValidatedHeard ==
  delivered["server"] # <<>> =>
    /\ validation = "ok"
    /\ hsOut["client"] = Scramble[hsOut["server"]]

-----------------------------------------------------------------------------
Down == link \in {"refused", "reset"} \/ \E s \in Side : sock[s] = "closed"

(***************************************************************************)
(* A genuine client, which does scramble its challenge and waits to be     *)
(* heard, is accepted, unless the connection goes down or it leaves.       *)
(***************************************************************************)
GenuineClientAccepted == (link = "up") ~> (validation = "ok" \/ Down \/ leaving # "no")

(***************************************************************************)
(* A message given to Send is delivered, unless the connection goes down   *)
(* or the client has left.                                                 *)
(***************************************************************************)
AllDelivered ==
  \A s \in Side : \A n \in 1 .. MaxSend["client"] + MaxSend["server"] :
    (Len(sent[s]) >= n) ~> (Len(delivered[Peer(s)]) >= n \/ Down \/ leaving # "no")

(***************************************************************************)
(* When one end has closed its socket the other end, while its io thread   *)
(* runs, closes its own too: the outstanding read tells it.  Only a server *)
(* end whose client failed validation no longer reads.                     *)
(***************************************************************************)
ClosureNoticed ==
  \A s \in Side :
    (sock[s] = "open" /\ sock[Peer(s)] = "closed")
      ~> (sock[s] = "closed" \/ ~Running(s) \/ (s = "server" /\ validation = "failed"))

(***************************************************************************)
(* A client whose validation failed is disconnected (the log line says     *)
(* "Client Disconnected (Fail Validation)").                               *)
(***************************************************************************)
FailedIsDisconnected == (validation = "failed") ~> (sock["server"] = "closed")

(***************************************************************************)
(* ClientIntefrace::Disconnect() disconnects: the server end closes too.   *)
(***************************************************************************)
LeaveNoticed == (leaving = "stopped" /\ sock["server"] = "open") ~> (sock["server"] = "closed")
=============================================================================
