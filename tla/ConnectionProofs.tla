-------------------------- MODULE ConnectionProofs --------------------------
(***************************************************************************)
(* Theorems about Connection, for any handshake values, sizes, bounds and  *)
(* faults: type correctness, the discipline of the write chain, and that   *)
(* the server end implements ServedConnection.                             *)
(***************************************************************************)
EXTENDS Connection, SequenceTheorems, TLAPS

-----------------------------------------------------------------------------
(* A sequence kept for each end grows and shrinks within its type. *)
LEMMA AppendAt ==
  ASSUME NEW S, NEW f \in [Side -> Seq(S)], NEW s \in Side, NEW x \in S
  PROVE  [f EXCEPT ![s] = Append(@, x)] \in [Side -> Seq(S)]
<1>1. Append(f[s], x) \in Seq(S)
  BY AppendProperties
<1> QED BY <1>1

LEMMA TailAt ==
  ASSUME NEW S, NEW f \in [Side -> Seq(S)], NEW s \in Side, f[s] # <<>>
  PROVE  /\ Head(f[s]) \in S
         /\ [f EXCEPT ![s] = Tail(@)] \in [Side -> Seq(S)]
<1>1. Tail(f[s]) \in Seq(S) /\ Head(f[s]) \in S
  BY HeadTailProperties
<1> QED BY <1>1

(* Messages, frames and writes are built well typed. *)
LEMMA NewMsgType ==
  ASSUME NEW id \in Nat, NEW size \in Nat
  PROVE  NewMsg(id, size) \in Msg
BY DEF NewMsg, Msg, NoBody

LEMMA HeaderWriteType ==
  ASSUME NEW q \in Seq(Msg)
  PROVE  /\ HeaderWrite(q) \in Seq(Write)
         /\ q = <<>> => HeaderWrite(q) = <<>>
         /\ q # <<>> => /\ Head(q) \in Msg
                        /\ HeaderWrite(q) = <<[op |-> "header", msg |-> Head(q)]>>
<1>1. CASE q = <<>>
  BY <1>1 DEF HeaderWrite
<1>2. CASE q # <<>>
  <2>1. Head(q) \in Msg
    BY <1>2, HeadTailProperties
  <2>2. [op |-> "header", msg |-> Head(q)] \in Write
    BY <2>1 DEF Write
  <2> QED BY <1>2, <2>1, <2>2 DEF HeaderWrite
<1> QED BY <1>1, <1>2

-----------------------------------------------------------------------------
(***************************************************************************)
(* The write discipline of one end, of its outstanding writes w and its    *)
(* queue q: OneMessageWrite and WriterArmed, seen from that end.           *)
(***************************************************************************)
FrontOnly(w, q) ==
  \A i \in 1 .. Len(w) :
    IsMessageWrite(w[i]) =>
      /\ q # <<>>
      /\ w[i].msg = Head(q)
      /\ \A j \in 1 .. Len(w) : IsMessageWrite(w[j]) => j = i
Armed(w, q) == q # <<>> => \E i \in 1 .. Len(w) : IsMessageWrite(w[i])

(* Send to a queue that is being written leaves the write alone. *)
LEMMA QueueBehind ==
  ASSUME NEW w \in Seq(Write), NEW q \in Seq(Msg), q # <<>>, NEW m \in Msg,
         FrontOnly(w, q)
  PROVE  /\ FrontOnly(w, Append(q, m))
         /\ Armed(w, q) => Armed(w, Append(q, m))
<1>1. Append(q, m) # <<>> /\ Head(Append(q, m)) = Head(q)
  OBVIOUS
<1> QED BY <1>1 DEF FrontOnly, Armed

(* A validation write is queued behind the others. *)
LEMMA AddValidation ==
  ASSUME NEW w \in Seq(Write), NEW q \in Seq(Msg), NEW v \in Write,
         v.op = "validation", FrontOnly(w, q)
  PROVE  /\ FrontOnly(Append(w, v), q)
         /\ Armed(w, q) => Armed(Append(w, v), q)
<1>1. /\ Len(Append(w, v)) = Len(w) + 1 /\ Len(w) \in Nat
      /\ \A i \in 1 .. Len(w) : Append(w, v)[i] = w[i]
      /\ Append(w, v)[Len(w) + 1] = v
  OBVIOUS
<1>2. ~IsMessageWrite(v)
  BY DEF IsMessageWrite
<1> QED BY <1>1, <1>2 DEF FrontOnly, Armed

(* What is left of the writes when the oldest has completed. *)
LEMMA TailWrites ==
  ASSUME NEW w \in Seq(Write), w # <<>>
  PROVE  /\ Tail(w) \in Seq(Write) /\ Len(Tail(w)) = Len(w) - 1 /\ Len(w) \in Nat \ {0}
         /\ \A i \in 1 .. Len(Tail(w)) : Tail(w)[i] = w[i + 1]
         /\ Head(w) = w[1] /\ Head(w) \in Write
BY HeadTailProperties, EmptySeq

LEMMA WriteDone ==
  ASSUME NEW w \in Seq(Write), w # <<>>, NEW q \in Seq(Msg), FrontOnly(w, q)
  PROVE  /\ FrontOnly(Tail(w), q)
         /\ ~IsMessageWrite(Head(w)) => (Armed(w, q) => Armed(Tail(w), q))
         /\ IsMessageWrite(Head(w)) =>
              /\ q # <<>>
              /\ Head(w).msg = Head(q)
              /\ \A i \in 1 .. Len(Tail(w)) : ~IsMessageWrite(Tail(w)[i])
<1>1. \A i \in 1 .. Len(Tail(w)) : i + 1 \in 1 .. Len(w) /\ Tail(w)[i] = w[i + 1]
  BY TailWrites
<1>2. FrontOnly(Tail(w), q)
  BY <1>1, TailWrites DEF FrontOnly
<1>3. ASSUME ~IsMessageWrite(Head(w)), Armed(w, q), q # <<>>
      PROVE  \E i \in 1 .. Len(Tail(w)) : IsMessageWrite(Tail(w)[i])
  <2>1. PICK i \in 1 .. Len(w) : IsMessageWrite(w[i])
    BY <1>3 DEF Armed
  <2>2. i # 1
    BY <1>3, <2>1, TailWrites
  <2>3. i - 1 \in 1 .. Len(Tail(w)) /\ Tail(w)[i - 1] = w[(i - 1) + 1] /\ (i - 1) + 1 = i
    BY <2>2, TailWrites
  <2> QED BY <2>1, <2>3
<1>4. ASSUME IsMessageWrite(Head(w))
      PROVE  /\ q # <<>>
             /\ Head(w).msg = Head(q)
             /\ \A i \in 1 .. Len(Tail(w)) : ~IsMessageWrite(Tail(w)[i])
  <2>1. 1 \in 1 .. Len(w) /\ IsMessageWrite(w[1]) /\ Head(w) = w[1]
    BY <1>4, TailWrites
  <2>2. q # <<>> /\ w[1].msg = Head(q)
    BY <2>1 DEF FrontOnly
  <2>3. \A j \in 1 .. Len(w) : IsMessageWrite(w[j]) => j = 1
    BY <2>1 DEF FrontOnly
  <2>4. \A i \in 1 .. Len(Tail(w)) : i + 1 # 1
    BY TailWrites
  <2> QED BY <1>1, <2>1, <2>2, <2>3, <2>4
<1> QED BY <1>2, <1>3, <1>4 DEF Armed

(* A message write of the front message, behind writes that are of none. *)
LEMMA NextWrite ==
  ASSUME NEW w \in Seq(Write), \A i \in 1 .. Len(w) : ~IsMessageWrite(w[i]),
         NEW q \in Seq(Msg), q # <<>>,
         NEW v \in Write, IsMessageWrite(v), v.msg = Head(q)
  PROVE  FrontOnly(Append(w, v), q) /\ Armed(Append(w, v), q)
<1>1. /\ Len(Append(w, v)) = Len(w) + 1 /\ Len(w) \in Nat
      /\ \A i \in 1 .. Len(w) : Append(w, v)[i] = w[i]
      /\ Append(w, v)[Len(w) + 1] = v
  OBVIOUS
<1> QED BY <1>1 DEF FrontOnly, Armed

(* Popping the message written and going on with the next, if there is one. *)
LEMMA PopAndGoOn ==
  ASSUME NEW w \in Seq(Write), \A i \in 1 .. Len(w) : ~IsMessageWrite(w[i]),
         NEW q \in Seq(Msg)
  PROVE  /\ w \o HeaderWrite(q) \in Seq(Write)
         /\ FrontOnly(w \o HeaderWrite(q), q) /\ Armed(w \o HeaderWrite(q), q)
<1>1. CASE q = <<>>
  <2>1. w \o HeaderWrite(q) = w
    BY <1>1, HeaderWriteType, ConcatEmptySeq
  <2> QED BY <1>1, <2>1 DEF FrontOnly, Armed
<1>2. CASE q # <<>>
  <2> DEFINE h == [op |-> "header", msg |-> Head(q)]
  <2>1. h \in Write /\ IsMessageWrite(h) /\ h.msg = Head(q)
    BY <1>2, HeaderWriteType DEF Write, IsMessageWrite
  <2>2. w \o HeaderWrite(q) = Append(w, h)
    BY <1>2, <2>1, HeaderWriteType, AppendIsConcat
  <2> HIDE DEF h
  <2>3. Append(w, h) \in Seq(Write)
    BY <2>1
  <2> QED BY <1>2, <2>1, <2>2, <2>3, NextWrite
<1> QED BY <1>1, <1>2

(* Send to an empty queue starts the one write. *)
LEMMA StartWrite ==
  ASSUME NEW w \in Seq(Write), NEW m \in Msg, FrontOnly(w, <<>>)
  PROVE  LET q == Append(<<>>, m)
         IN  /\ w \o HeaderWrite(q) \in Seq(Write)
             /\ FrontOnly(w \o HeaderWrite(q), q) /\ Armed(w \o HeaderWrite(q), q)
<1>1. \A i \in 1 .. Len(w) : ~IsMessageWrite(w[i])
  BY DEF FrontOnly
<1>2. Append(<<>>, m) \in Seq(Msg)
  BY EmptySeq, AppendProperties
<1> QED BY <1>1, <1>2, PopAndGoOn

-----------------------------------------------------------------------------
(***************************************************************************)
(* The inductive invariant.  Type correctness needs the write discipline:  *)
(* a write handler takes the front of m_qMessagesOut without asking        *)
(* whether there is one.  The write chain is armed from before the socket  *)
(* of an end exists until it is closed.                                    *)
(***************************************************************************)
ArmedUntilClosed == \A s \in Side : sock[s] # "closed" => Armed(wr[s], out[s])

WriteInv == TypeOK /\ OneMessageWrite /\ ArmedUntilClosed

LEMMA OneMessageWriteBySide ==
  OneMessageWrite <=> \A s \in Side : FrontOnly(wr[s], out[s])
BY DEF OneMessageWrite, FrontOnly

LEMMA WriteInit == Init => WriteInv
<1> SUFFICES ASSUME Init PROVE WriteInv
  OBVIOUS
<1>1. NewMsg(0, 0) \in Msg
  BY NewMsgType
<1>2. chan \in [Side -> Seq(Frame)] /\ delivered \in [Side -> Seq(Msg)]
  BY DEF Init
<1>3. wr \in [Side -> Seq(Write)] /\ posted \in [Side -> Seq(Posted)]
  BY DEF Init
<1>4. out \in [Side -> Seq(Msg)] /\ sent \in [Side -> Seq(Msg)]
  BY DEF Init
<1>5. tmp \in [Side -> Msg]
  BY <1>1 DEF Init
<1>6. sock \in [Side -> {"none", "open", "closed"}] /\ sock["client"] = "open"
  BY DEF Init, Side
<1>7. TypeOK
  BY <1>2, <1>3, <1>4, <1>5, <1>6 DEF Init, TypeOK, Values
<1>8. OneMessageWrite /\ ArmedUntilClosed
  BY DEF Init, OneMessageWrite, ArmedUntilClosed, Armed
<1> QED BY <1>7, <1>8 DEF WriteInv

(* Steps that touch neither writes nor queue, and reopen no socket. *)
LEMMA WritesUntouched ==
  ASSUME WriteInv, UNCHANGED writing,
         \A s \in Side : sock'[s] # "closed" => sock[s] # "closed"
  PROVE  OneMessageWrite' /\ ArmedUntilClosed'
BY DEF WriteInv, OneMessageWrite, ArmedUntilClosed, Armed, writing

(* What one end does to its writes and its queue. *)
LEMMA WritesOfOneEnd ==
  ASSUME WriteInv, NEW s \in Side, NEW w \in Seq(Write), NEW q \in Seq(Msg),
         wr' = [wr EXCEPT ![s] = w], out' = [out EXCEPT ![s] = q],
         \A r \in Side : sock'[r] # "closed" => sock[r] # "closed",
         FrontOnly(w, q), sock'[s] # "closed" => Armed(w, q)
  PROVE  /\ wr' \in [Side -> Seq(Write)] /\ out' \in [Side -> Seq(Msg)]
         /\ OneMessageWrite' /\ ArmedUntilClosed'
<1>1. wr' \in [Side -> Seq(Write)] /\ out' \in [Side -> Seq(Msg)]
  BY DEF WriteInv, TypeOK
<1>2. wr'[s] = w /\ out'[s] = q
  BY DEF WriteInv, TypeOK
<1>3. \A r \in Side \ {s} : wr'[r] = wr[r] /\ out'[r] = out[r]
  BY DEF WriteInv, TypeOK
<1>4. OneMessageWrite'
  BY <1>2, <1>3 DEF WriteInv, OneMessageWrite, FrontOnly
<1>5. ArmedUntilClosed'
  BY <1>2, <1>3 DEF WriteInv, ArmedUntilClosed, Armed
<1> QED BY <1>1, <1>4, <1>5

-----------------------------------------------------------------------------
(* The network and the applications. *)
LEMMA NetworkStep ==
  ASSUME WriteInv, Network
  PROVE  WriteInv'
<1>1. TypeOK'
  <2>1. CASE Establish
    BY <2>1 DEF WriteInv, TypeOK, Establish, reading, writing, app
  <2>2. CASE Reset
    <3>1. chan' \in [Side -> Seq(Frame)]
      BY <2>2 DEF Reset
    <3> QED BY <2>2, <3>1 DEF WriteInv, TypeOK, Reset, reading, writing, app
  <2> QED BY <2>1, <2>2 DEF Network
<1>2. UNCHANGED <<writing, sock>>
  BY DEF Network, Establish, Reset
<1> QED BY <1>1, <1>2, WritesUntouched DEF WriteInv

LEMMA PostType ==
  ASSUME posted \in [Side -> Seq(Posted)], NEW s \in Side, NEW f \in Posted, Post(s, f)
  PROVE  posted' \in [Side -> Seq(Posted)]
BY DEF Post

LEMMA ApplicationStep ==
  ASSUME WriteInv, Application
  PROVE  WriteInv'
<1>1. UNCHANGED <<net, writing, reading, sock, hsOut, validation>>
  BY DEF Application, Send, EchoMessage, Disconnect, StopContext
<1>2. OneMessageWrite' /\ ArmedUntilClosed'
  BY <1>1, WritesUntouched
<1>3. /\ posted' \in [Side -> Seq(Posted)]
      /\ sent' \in [Side -> Seq(Msg)]
      /\ handled' \in Nat
      /\ leaving' \in {"no", "closing", "stopped"}
  <2>1. CASE \E s \in Side, size \in Sizes : Send(s, size)
    <3>1. PICK s \in Side, size \in Sizes : Send(s, size)
      BY <2>1
    <3> DEFINE m == NewMsg(Len(sent[s]) + 1, size)
               f == [fn |-> "send", msg |-> m]
    <3>2. m \in Msg
      BY NewMsgType, TrafficAssumption DEF WriteInv, TypeOK
    <3>3. f \in Posted
      BY <3>2 DEF Posted
    <3>4. Post(s, f) /\ sent' = [sent EXCEPT ![s] = Append(@, m)]
          /\ UNCHANGED <<handled, leaving>>
      BY <3>1 DEF Send
    <3> HIDE DEF m, f
    <3>5. posted' \in [Side -> Seq(Posted)]
      BY <3>3, <3>4, PostType DEF WriteInv, TypeOK
    <3>6. sent' \in [Side -> Seq(Msg)]
      BY <3>2, <3>4, AppendAt DEF WriteInv, TypeOK
    <3> QED BY <3>4, <3>5, <3>6 DEF WriteInv, TypeOK
  <2>2. CASE EchoMessage
    <3> DEFINE m == delivered["server"][handled + 1]
               f == [fn |-> "send", msg |-> m]
    <3>1. m \in Msg
      BY <2>2 DEF EchoMessage, WriteInv, TypeOK, Side
    <3>2. f \in Posted /\ "server" \in Side
      BY <3>1 DEF Posted, Side
    <3>3. /\ handled' = handled + 1
          /\ UNCHANGED leaving
          /\ \/ Post("server", f) /\ sent' = [sent EXCEPT !["server"] = Append(@, m)]
             \/ UNCHANGED <<posted, sent>>
      BY <2>2 DEF EchoMessage
    <3> HIDE DEF m, f
    <3>4. posted' \in [Side -> Seq(Posted)]
      BY <3>2, <3>3, PostType DEF WriteInv, TypeOK
    <3>5. sent' \in [Side -> Seq(Msg)]
      <4>1. [sent EXCEPT !["server"] = Append(@, m)] \in [Side -> Seq(Msg)]
        BY <3>1, <3>2, AppendAt DEF WriteInv, TypeOK
      <4> QED BY <3>3, <4>1 DEF WriteInv, TypeOK
    <3> QED BY <3>3, <3>4, <3>5 DEF WriteInv, TypeOK
  <2>3. CASE Disconnect
    <3>1. [fn |-> "close"] \in Posted /\ "client" \in Side
      BY DEF Posted, Side
    <3>2. posted' \in [Side -> Seq(Posted)]
      BY <2>3, <3>1, PostType DEF Disconnect, WriteInv, TypeOK
    <3> QED BY <2>3, <3>2 DEF Disconnect, WriteInv, TypeOK
  <2>4. CASE StopContext
    BY <2>4 DEF StopContext, WriteInv, TypeOK
  <2> QED BY <2>1, <2>2, <2>3, <2>4 DEF Application
<1>4. TypeOK'
  BY <1>1, <1>3 DEF WriteInv, TypeOK, net, writing, reading
<1> QED BY <1>2, <1>4 DEF WriteInv

-----------------------------------------------------------------------------
(* Connecting and the handshake. *)
LEMMA ConnectingStep ==
  ASSUME WriteInv, NEW s \in Side, Connecting(s)
  PROVE  WriteInv'
<1>1. CASE ConnectToServer
  <2>1. TypeOK'
    BY <1>1 DEF ConnectToServer, WriteInv, TypeOK, Side, writing, app
  <2>2. UNCHANGED <<writing, sock>>
    BY <1>1 DEF ConnectToServer
  <2> QED BY <2>1, <2>2, WritesUntouched DEF WriteInv
<1>2. CASE ConnectToClient
  <2> DEFINE v == [op |-> "validation", value |-> hsOut'["server"]]
  <2>1. "server" \in Side /\ "client" \in Side
    BY DEF Side
  <2>2. hsOut' \in [Side -> Values] /\ hsOut'["server"] \in Values
    BY <1>2, <2>1, HandshakeAssumption DEF ConnectToClient, WriteInv, TypeOK, Values
  <2>3. v \in Write /\ v.op = "validation"
    BY <2>2 DEF Write
  <2>4. /\ sock["server"] = "none"
        /\ \/ /\ sock' = [sock EXCEPT !["server"] = "open"]
              /\ wr' = [wr EXCEPT !["server"] = Append(@, v)]
              /\ rd' = [rd EXCEPT !["server"] = "validation"]
           \/ /\ sock' = [sock EXCEPT !["server"] = "closed"]
              /\ UNCHANGED <<wr, rd>>
        /\ UNCHANGED <<net, tmp, delivered, desync, out, app, validation>>
    BY <1>2 DEF ConnectToClient, Close
  <2> HIDE DEF v
  <2>5. rd' \in [Side -> {"none", "validation", "header", "body"}]
    BY <2>4 DEF WriteInv, TypeOK
  <2>6. /\ sock' \in [Side -> {"none", "open", "closed"}] /\ sock'["client"] # "none"
        /\ \A r \in Side : sock'[r] # "closed" => sock[r] # "closed"
    BY <2>4, <2>1 DEF WriteInv, TypeOK
  <2>7. wr' \in [Side -> Seq(Write)] /\ OneMessageWrite' /\ ArmedUntilClosed'
    <3>1. CASE UNCHANGED wr
      <4>1. UNCHANGED writing
        BY <2>4, <3>1 DEF writing
      <4> QED BY <2>6, <4>1, WritesUntouched DEF WriteInv, TypeOK, writing
    <3>2. CASE wr' = [wr EXCEPT !["server"] = Append(@, v)]
      <4>1. wr["server"] \in Seq(Write) /\ out["server"] \in Seq(Msg)
        BY <2>1 DEF WriteInv, TypeOK
      <4>2. Append(wr["server"], v) \in Seq(Write)
        BY <2>3, <4>1, AppendProperties
      <4>3. FrontOnly(wr["server"], out["server"]) /\ Armed(wr["server"], out["server"])
        BY <2>1, <2>4, OneMessageWriteBySide DEF WriteInv, ArmedUntilClosed
      <4>4. out' = [out EXCEPT !["server"] = out["server"]]
        BY <2>4 DEF WriteInv, TypeOK
      <4>5. /\ FrontOnly(Append(wr["server"], v), out["server"])
            /\ Armed(Append(wr["server"], v), out["server"])
        BY <2>3, <4>1, <4>3, AddValidation
      <4> QED
        BY <2>1, <2>6, <3>2, <4>1, <4>2, <4>4, <4>5, WritesOfOneEnd
    <3> QED BY <2>4, <3>1, <3>2
  <2>8. TypeOK'
    BY <2>2, <2>4, <2>5, <2>6, <2>7 DEF WriteInv, TypeOK, net, app
  <2> QED BY <2>7, <2>8 DEF WriteInv
<1> QED BY <1>1, <1>2 DEF Connecting

LEMMA HandshakeStep ==
  ASSUME WriteInv, NEW s \in Side, Handshake(s)
  PROVE  WriteInv'
<1>1. "server" \in Side /\ "client" \in Side
  BY DEF Side
<1>2. CASE ReadChallenge
  <2> DEFINE answer == Answer(ValueOf(Head(chan["client"])))
             v == [op |-> "validation", value |-> answer]
  <2>1. chan["client"] # <<>>
    BY <1>2 DEF ReadChallenge, CanRead
  <2>2. Head(chan["client"]) \in Frame /\ chan' \in [Side -> Seq(Frame)]
    BY <1>1, <1>2, <2>1, TailAt DEF ReadChallenge, Consume, WriteInv, TypeOK
  <2>3. answer \in Values
    BY HandshakeAssumption DEF Answer, Values
  <2>4. v \in Write /\ v.op = "validation"
    BY <2>3 DEF Write
  <2>5. /\ hsOut' = [hsOut EXCEPT !["client"] = answer]
        /\ wr' = [wr EXCEPT !["client"] = Append(@, v)]
        /\ rd' = [rd EXCEPT !["client"] = "none"]
        /\ UNCHANGED <<link, connecting, sock, tmp, delivered, desync, out, app, validation>>
    BY <1>2 DEF ReadChallenge
  <2> HIDE DEF v, answer
  <2>6. wr["client"] \in Seq(Write) /\ out["client"] \in Seq(Msg)
    BY <1>1 DEF WriteInv, TypeOK
  <2>7. Append(wr["client"], v) \in Seq(Write)
    BY <2>4, <2>6, AppendProperties
  <2>8. /\ FrontOnly(wr["client"], out["client"])
        /\ sock["client"] # "closed" => Armed(wr["client"], out["client"])
    BY <1>1, OneMessageWriteBySide DEF WriteInv, ArmedUntilClosed
  <2>9. out' = [out EXCEPT !["client"] = out["client"]]
    BY <2>5 DEF WriteInv, TypeOK
  <2>10. wr' \in [Side -> Seq(Write)] /\ OneMessageWrite' /\ ArmedUntilClosed'
    BY <1>1, <2>4, <2>5, <2>6, <2>7, <2>8, <2>9, AddValidation, WritesOfOneEnd
  <2>11. TypeOK'
    BY <2>2, <2>3, <2>5, <2>10 DEF WriteInv, TypeOK, app
  <2> QED BY <2>10, <2>11 DEF WriteInv
<1>3. CASE ReadAnswer
  <2>1. chan' \in [Side -> Seq(Frame)]
    BY <1>1, <1>3, TailAt DEF ReadAnswer, CanRead, Consume, WriteInv, TypeOK
  <2>2. UNCHANGED <<writing, sock>>
    BY <1>3 DEF ReadAnswer
  <2>3. TypeOK'
    BY <1>3, <2>1 DEF ReadAnswer, WriteInv, TypeOK, writing, app
  <2> QED BY <2>2, <2>3, WritesUntouched DEF WriteInv
<1> QED BY <1>2, <1>3 DEF Handshake

-----------------------------------------------------------------------------
(* The posted functions. *)
LEMMA PostedStepOK ==
  ASSUME WriteInv, NEW s \in Side, PostedStep(s)
  PROVE  WriteInv'
<1>1. posted[s] # <<>> /\ posted' = [posted EXCEPT ![s] = Tail(@)]
  BY DEF PostedStep, PostedSend, PostedClose
<1>2. Head(posted[s]) \in Posted /\ posted' \in [Side -> Seq(Posted)]
  BY <1>1, TailAt DEF WriteInv, TypeOK
<1>3. CASE PostedSend(s)
  <2> DEFINE m == Head(posted[s]).msg
             q == Append(out[s], m)
             w == IF out[s] = <<>> THEN wr[s] \o HeaderWrite(q) ELSE wr[s]
  <2>1. m \in Msg
    BY <1>2, <1>3 DEF PostedSend, Posted
  <2>2. wr[s] \in Seq(Write) /\ out[s] \in Seq(Msg)
    BY DEF WriteInv, TypeOK
  <2>3. q \in Seq(Msg)
    BY <2>1, <2>2, AppendProperties
  <2>4. out' = [out EXCEPT ![s] = q] /\ wr' = [wr EXCEPT ![s] = w]
    BY <1>3 DEF PostedSend, WriteInv, TypeOK
  <2>5. FrontOnly(wr[s], out[s]) /\ (sock[s] # "closed" => Armed(wr[s], out[s]))
    BY OneMessageWriteBySide DEF WriteInv, ArmedUntilClosed
  <2>6. w \in Seq(Write) /\ FrontOnly(w, q) /\ (sock[s] # "closed" => Armed(w, q))
    <3>1. CASE out[s] = <<>>
      BY <2>1, <2>2, <2>5, <3>1, StartWrite
    <3>2. CASE out[s] # <<>>
      BY <2>1, <2>2, <2>5, <3>2, QueueBehind
    <3> QED BY <3>1, <3>2
  <2>7. UNCHANGED <<net, sock, reading, handled, sent, leaving, hsOut, validation>>
    BY <1>3 DEF PostedSend
  <2> HIDE DEF w, q
  <2>8. /\ wr' \in [Side -> Seq(Write)] /\ out' \in [Side -> Seq(Msg)]
        /\ OneMessageWrite' /\ ArmedUntilClosed'
    BY <2>3, <2>4, <2>6, <2>7, WritesOfOneEnd
  <2>9. TypeOK'
    BY <1>2, <2>7, <2>8 DEF WriteInv, TypeOK, net, reading
  <2> QED BY <2>8, <2>9 DEF WriteInv
<1>4. CASE PostedClose(s)
  <2>1. /\ sock' \in [Side -> {"none", "open", "closed"}] /\ sock'["client"] # "none"
        /\ \A r \in Side : sock'[r] # "closed" => sock[r] # "closed"
    BY <1>4 DEF PostedClose, Close, WriteInv, TypeOK, Side
  <2>2. UNCHANGED <<net, reading, writing, handled, sent, leaving, hsOut, validation>>
    BY <1>4 DEF PostedClose
  <2>3. TypeOK'
    BY <1>2, <2>1, <2>2 DEF WriteInv, TypeOK, net, reading, writing
  <2> QED BY <2>1, <2>2, <2>3, WritesUntouched DEF WriteInv
<1> QED BY <1>3, <1>4 DEF PostedStep

-----------------------------------------------------------------------------
(* The write handlers. *)
LEMMA HandlerOfFront ==
  ASSUME WriteInv, NEW s \in Side, wr[s] # <<>>
  PROVE  /\ wr[s] \in Seq(Write) /\ out[s] \in Seq(Msg)
         /\ Head(wr[s]) \in Write /\ Tail(wr[s]) \in Seq(Write)
         /\ FrontOnly(Tail(wr[s]), out[s])
         /\ IsMessageWrite(Head(wr[s])) =>
              /\ out[s] # <<>>
              /\ Head(out[s]) \in Msg /\ Tail(out[s]) \in Seq(Msg)
              /\ Head(wr[s]).msg = Head(out[s])
              /\ \A i \in 1 .. Len(Tail(wr[s])) : ~IsMessageWrite(Tail(wr[s])[i])
         /\ ~IsMessageWrite(Head(wr[s])) /\ sock[s] # "closed" =>
              Armed(Tail(wr[s]), out[s])
<1>1. wr[s] \in Seq(Write) /\ out[s] \in Seq(Msg)
  BY DEF WriteInv, TypeOK
<1>2. Head(wr[s]) \in Write /\ Tail(wr[s]) \in Seq(Write)
  BY <1>1, TailWrites
<1>3. FrontOnly(wr[s], out[s]) /\ (sock[s] # "closed" => Armed(wr[s], out[s]))
  BY OneMessageWriteBySide DEF WriteInv, ArmedUntilClosed
<1>4. out[s] # <<>> => Head(out[s]) \in Msg /\ Tail(out[s]) \in Seq(Msg)
  BY <1>1, HeadTailProperties
<1> QED BY <1>1, <1>2, <1>3, <1>4, WriteDone

LEMMA TransmitType ==
  ASSUME TypeOK, NEW s \in Side, NEW f \in Frame, Transmit(s, f)
  PROVE  chan' \in [Side -> Seq(Frame)]
<1>1. Peer(s) \in Side
  BY DEF Peer, Side
<1> QED BY <1>1, AppendAt DEF TypeOK, Transmit

LEMMA WriteNextOK ==
  ASSUME WriteInv, NEW s \in Side, wr[s] # <<>>, IsMessageWrite(Head(wr[s])),
         WriteNext(s), UNCHANGED sock
  PROVE  /\ wr' \in [Side -> Seq(Write)] /\ out' \in [Side -> Seq(Msg)]
         /\ OneMessageWrite' /\ ArmedUntilClosed'
<1> DEFINE q == Tail(out[s])
           w == Tail(wr[s]) \o HeaderWrite(q)
<1>1. q \in Seq(Msg) /\ Tail(wr[s]) \in Seq(Write)
  BY HandlerOfFront
<1>2. w \in Seq(Write) /\ FrontOnly(w, q) /\ Armed(w, q)
  BY <1>1, HandlerOfFront, PopAndGoOn
<1>3. out' = [out EXCEPT ![s] = q] /\ wr' = [wr EXCEPT ![s] = w]
  BY DEF WriteNext
<1> HIDE DEF w, q
<1> QED BY <1>1, <1>2, <1>3, WritesOfOneEnd

LEMMA WriteStepOK ==
  ASSUME WriteInv, NEW s \in Side, WriteStep(s)
  PROVE  WriteInv'
<1>1. wr[s] # <<>>
  BY DEF WriteStep, WriteValidation, WriteHeader, WriteBody, WriteError
<1>2. out = [out EXCEPT ![s] = out[s]]
  BY DEF WriteInv, TypeOK
<1>3. CASE WriteValidation(s)
  <2>1. ~IsMessageWrite(Head(wr[s]))
    BY <1>3 DEF WriteValidation, IsMessageWrite
  <2>2. /\ wr' = [wr EXCEPT ![s] = Tail(wr[s])]
        /\ UNCHANGED <<link, connecting, sock, tmp, delivered, desync, out, app, hsOut, validation>>
    BY <1>3 DEF WriteValidation
  <2>3. /\ wr' \in [Side -> Seq(Write)] /\ out' \in [Side -> Seq(Msg)]
        /\ OneMessageWrite' /\ ArmedUntilClosed'
    BY <1>1, <1>2, <2>1, <2>2, HandlerOfFront, WritesOfOneEnd
  <2>4. Nonce(Head(wr[s]).value) \in Frame
    BY <1>1, <1>3, HandlerOfFront DEF WriteValidation, Nonce, Frame, Write
  <2>5. chan' \in [Side -> Seq(Frame)]
    BY <1>3, <2>4, TransmitType DEF WriteValidation, WriteInv
  <2>6. rd' \in [Side -> {"none", "validation", "header", "body"}]
    BY <1>3 DEF WriteValidation, WriteInv, TypeOK
  <2>7. TypeOK'
    BY <2>2, <2>3, <2>5, <2>6 DEF WriteInv, TypeOK, app
  <2> QED BY <2>3, <2>7 DEF WriteInv
<1>4. CASE WriteHeader(s)
  <2>1. IsMessageWrite(Head(wr[s]))
    BY <1>4 DEF WriteHeader, IsMessageWrite
  <2>2. UNCHANGED <<link, connecting, sock, reading, app, hsOut, validation>>
    BY <1>4 DEF WriteHeader
  <2>3. Header(Head(wr[s]).msg) \in Frame
    BY <1>1, <2>1, HandlerOfFront DEF Header, Frame, Msg
  <2>4. chan' \in [Side -> Seq(Frame)]
    BY <1>4, <2>3, TransmitType DEF WriteHeader, WriteInv
  <2>5. /\ wr' \in [Side -> Seq(Write)] /\ out' \in [Side -> Seq(Msg)]
        /\ OneMessageWrite' /\ ArmedUntilClosed'
    <3>1. CASE Head(out[s]).body # NoBody
      <4> DEFINE v == [op |-> "body", msg |-> Head(out[s])]
                 w == Append(Tail(wr[s]), v)
      <4>1. v \in Write /\ IsMessageWrite(v) /\ v.msg = Head(out[s])
        BY <1>1, <2>1, HandlerOfFront DEF Write, IsMessageWrite
      <4>2. wr' = [wr EXCEPT ![s] = w] /\ UNCHANGED out
        BY <1>4, <3>1 DEF WriteHeader
      <4> HIDE DEF v
      <4>3. w \in Seq(Write) /\ FrontOnly(w, out[s]) /\ Armed(w, out[s])
        BY <1>1, <2>1, <4>1, HandlerOfFront, NextWrite, AppendProperties
      <4>4. out[s] \in Seq(Msg)
        BY DEF WriteInv, TypeOK
      <4> HIDE DEF w
      <4> QED BY <1>2, <2>2, <4>2, <4>3, <4>4, WritesOfOneEnd
    <3>2. CASE ~(Head(out[s]).body # NoBody)
      BY <1>1, <1>4, <2>1, <2>2, <3>2, WriteNextOK DEF WriteHeader
    <3> QED BY <3>1, <3>2
  <2>6. TypeOK'
    BY <2>2, <2>4, <2>5 DEF WriteInv, TypeOK, reading, app
  <2> QED BY <2>5, <2>6 DEF WriteInv
<1>5. CASE WriteBody(s)
  <2>1. IsMessageWrite(Head(wr[s]))
    BY <1>5 DEF WriteBody, IsMessageWrite
  <2>2. UNCHANGED <<link, connecting, sock, reading, app, hsOut, validation>>
    BY <1>5 DEF WriteBody
  <2>3. Body(Head(wr[s]).msg) \in Frame
    BY <1>1, <2>1, HandlerOfFront DEF Body, Frame, Msg
  <2>4. chan' \in [Side -> Seq(Frame)]
    BY <1>5, <2>3, TransmitType DEF WriteBody, WriteInv
  <2>5. /\ wr' \in [Side -> Seq(Write)] /\ out' \in [Side -> Seq(Msg)]
        /\ OneMessageWrite' /\ ArmedUntilClosed'
    BY <1>1, <1>5, <2>1, <2>2, WriteNextOK DEF WriteBody
  <2>6. TypeOK'
    BY <2>2, <2>4, <2>5 DEF WriteInv, TypeOK, reading, app
  <2> QED BY <2>5, <2>6 DEF WriteInv
<1>6. CASE WriteError(s)
  <2>1. /\ wr' = [wr EXCEPT ![s] = Tail(wr[s])]
        /\ sock' = [sock EXCEPT ![s] = "closed"]
        /\ UNCHANGED <<net, reading, out, app, hsOut, validation>>
    BY <1>6 DEF WriteError, Close
  <2>2. /\ sock' \in [Side -> {"none", "open", "closed"}] /\ sock'["client"] # "none"
        /\ \A r \in Side : sock'[r] # "closed" => sock[r] # "closed"
        /\ sock'[s] = "closed"
    BY <2>1 DEF WriteInv, TypeOK, Side
  <2>3. /\ wr' \in [Side -> Seq(Write)] /\ out' \in [Side -> Seq(Msg)]
        /\ OneMessageWrite' /\ ArmedUntilClosed'
    BY <1>1, <1>2, <2>1, <2>2, HandlerOfFront, WritesOfOneEnd
  <2>4. TypeOK'
    BY <2>1, <2>2, <2>3 DEF WriteInv, TypeOK, net, reading, app
  <2> QED BY <2>3, <2>4 DEF WriteInv
<1> QED BY <1>3, <1>4, <1>5, <1>6 DEF WriteStep

-----------------------------------------------------------------------------
(* The read handlers. *)
LEMMA ReadStepOK ==
  ASSUME WriteInv, NEW s \in Side, ReadHeader(s) \/ ReadBody(s) \/ ReadError(s)
  PROVE  WriteInv'
<1>1. CASE ReadHeader(s) \/ ReadBody(s)
  <2> DEFINE f == Head(chan[s])
  <2>1. chan[s] # <<>> /\ chan' = [chan EXCEPT ![s] = Tail(@)]
    BY <1>1 DEF ReadHeader, ReadBody, CanRead, Consume
  <2>2. f \in Frame /\ chan' \in [Side -> Seq(Frame)]
    BY <2>1, TailAt DEF WriteInv, TypeOK
  <2>3. /\ UNCHANGED <<link, connecting, sock, writing, app, hsOut, validation>>
        /\ desync' \in {TRUE, desync}
    BY <1>1 DEF ReadHeader, ReadBody
  <2>4. \/ /\ tmp' = tmp /\ rd' = rd /\ delivered' = delivered
       \/ /\ tmp' \in [Side -> Msg]
          /\ \/ rd' = [rd EXCEPT ![s] = "body"] /\ UNCHANGED delivered
             \/ /\ rd' = [rd EXCEPT ![s] = "header"]
                /\ delivered' \in [Side -> Seq(Msg)]
    <3>1. CASE ReadHeader(s)
      <4> DEFINE m == [tmp[s] EXCEPT !.id = f.id, !.size = f.size]
      <4>1. CASE f.kind = "header"
        <5>1. f.id \in Nat /\ f.size \in Nat
          BY <2>2, <4>1 DEF Frame
        <5>2. m \in Msg
          <6>1. tmp[s] \in Msg
            BY DEF WriteInv, TypeOK
          <6> QED BY <5>1, <6>1 DEF Msg
        <5>3. /\ tmp' = [tmp EXCEPT ![s] = m]
              /\ \/ rd' = [rd EXCEPT ![s] = "body"] /\ UNCHANGED delivered
                 \/ AddToIncomingMessageQueue(s, m)
          BY <3>1, <4>1 DEF ReadHeader
        <5> HIDE DEF m
        <5>4. tmp' \in [Side -> Msg]
          BY <5>2, <5>3 DEF WriteInv, TypeOK
        <5>5. [delivered EXCEPT ![s] = Append(@, m)] \in [Side -> Seq(Msg)]
          BY <5>2, AppendAt DEF WriteInv, TypeOK
        <5> QED BY <5>3, <5>4, <5>5 DEF AddToIncomingMessageQueue
      <4>2. CASE f.kind # "header"
        BY <3>1, <4>2 DEF ReadHeader
      <4> QED BY <4>1, <4>2
    <3>2. CASE ReadBody(s)
      <4> DEFINE m == [tmp[s] EXCEPT !.body = f.body]
      <4>1. CASE f.kind = "body"
        <5>1. f.body \in Nat
          BY <2>2, <4>1 DEF Frame
        <5>2. m \in Msg
          <6>1. tmp[s] \in Msg
            BY DEF WriteInv, TypeOK
          <6> QED BY <5>1, <6>1 DEF Msg
        <5>3. tmp' = [tmp EXCEPT ![s] = m] /\ AddToIncomingMessageQueue(s, m)
          BY <3>2, <4>1 DEF ReadBody
        <5> HIDE DEF m
        <5>4. tmp' \in [Side -> Msg]
          BY <5>2, <5>3 DEF WriteInv, TypeOK
        <5>5. [delivered EXCEPT ![s] = Append(@, m)] \in [Side -> Seq(Msg)]
          BY <5>2, AppendAt DEF WriteInv, TypeOK
        <5> QED BY <5>3, <5>4, <5>5 DEF AddToIncomingMessageQueue
      <4>2. CASE f.kind # "body"
        BY <3>2, <4>2 DEF ReadBody
      <4> QED BY <4>1, <4>2
    <3> QED BY <1>1, <3>1, <3>2
  <2>5. /\ tmp' \in [Side -> Msg] /\ delivered' \in [Side -> Seq(Msg)]
        /\ rd' \in [Side -> {"none", "validation", "header", "body"}]
    BY <2>4 DEF WriteInv, TypeOK
  <2>6. TypeOK'
    BY <2>2, <2>3, <2>5 DEF WriteInv, TypeOK, writing, app
  <2> QED BY <2>3, <2>6, WritesUntouched DEF WriteInv
<1>2. CASE ReadError(s)
  <2>1. [fn |-> "close"] \in Posted
    BY DEF Posted
  <2>2. posted' \in [Side -> Seq(Posted)]
    <3>1. [posted EXCEPT ![s] = Append(@, [fn |-> "close"])] \in [Side -> Seq(Posted)]
      BY <2>1, AppendAt DEF WriteInv, TypeOK
    <3> QED BY <1>2, <3>1 DEF ReadError, WriteInv, TypeOK
  <2>3. /\ sock' \in [Side -> {"none", "open", "closed"}] /\ sock'["client"] # "none"
        /\ \A r \in Side : sock'[r] # "closed" => sock[r] # "closed"
    BY <1>2 DEF ReadError, Close, WriteInv, TypeOK, Side
  <2>4. /\ rd' = [rd EXCEPT ![s] = "none"]
        /\ UNCHANGED <<net, tmp, delivered, desync, writing, handled, sent, leaving,
                       hsOut, validation>>
    BY <1>2 DEF ReadError
  <2>5. TypeOK'
    BY <2>2, <2>3, <2>4 DEF WriteInv, TypeOK, net, writing
  <2> QED BY <2>3, <2>4, <2>5, WritesUntouched DEF WriteInv
<1> QED BY <1>1, <1>2

-----------------------------------------------------------------------------
LEMMA WriteInvNext == WriteInv /\ [Next]_vars => WriteInv'
<1> SUFFICES ASSUME WriteInv, [Next]_vars PROVE WriteInv'
  OBVIOUS
<1>1. CASE UNCHANGED vars
  <2>1. TypeOK'
    BY <1>1 DEF vars, WriteInv, TypeOK
  <2>2. UNCHANGED <<writing, sock>>
    BY <1>1 DEF vars, writing
  <2> QED BY <2>1, <2>2, WritesUntouched DEF WriteInv
<1>2. CASE Network \/ Application
  BY <1>2, NetworkStep, ApplicationStep
<1>3. ASSUME NEW s \in Side,
             Connecting(s) \/ WriteStep(s) \/ ReadStep(s) \/ PostedStep(s)
      PROVE  WriteInv'
  BY <1>3, ConnectingStep, HandshakeStep, WriteStepOK, ReadStepOK, PostedStepOK DEF ReadStep
<1> QED BY <1>1, <1>2, <1>3 DEF Next

(***************************************************************************)
(* Every state of a connection is well typed: no handler takes a frame, a  *)
(* posted function or a message from where there is none.                  *)
(***************************************************************************)
THEOREM TypeCorrect == Spec => []TypeOK
<1>1. WriteInv => TypeOK
  BY DEF WriteInv
<1> QED BY <1>1, WriteInit, WriteInvNext, PTL DEF Spec

(***************************************************************************)
(* Whatever is sent, fails, is reset or closed and when: an end has at     *)
(* most one message write outstanding, and it is of the front message.     *)
(***************************************************************************)
THEOREM OneWriteAtATime == Spec => []OneMessageWrite
<1>1. WriteInv => OneMessageWrite
  BY DEF WriteInv
<1> QED BY <1>1, WriteInit, WriteInvNext, PTL DEF Spec

(***************************************************************************)
(* An open end with messages to send always has a write outstanding: the   *)
(* chain of write handlers never stops short.                              *)
(***************************************************************************)
THEOREM WriterStaysArmed == Spec => []WriterArmed
<1>1. WriteInv => WriterArmed
  BY DEF WriteInv, ArmedUntilClosed, Armed, WriterArmed
<1> QED BY <1>1, WriteInit, WriteInvNext, PTL DEF Spec

-----------------------------------------------------------------------------
(* What Has says of a queue that grows at the back and shrinks in front. *)
LEMMA HasAppend ==
  ASSUME NEW q \in Seq(Posted), NEW f \in Posted, NEW fn
  PROVE  Has(Append(q, f), fn) <=> Has(q, fn) \/ f.fn = fn
<1>1. /\ Append(q, f) \in Seq(Posted)
      /\ Len(Append(q, f)) = Len(q) + 1 /\ Len(q) \in Nat
      /\ \A i \in 1 .. Len(q) : Append(q, f)[i] = q[i]
      /\ Append(q, f)[Len(q) + 1] = f
  OBVIOUS
<1>2. DOMAIN q = 1 .. Len(q) /\ DOMAIN Append(q, f) = 1 .. Len(Append(q, f))
  BY <1>1
<1> QED BY <1>1, <1>2 DEF Has

LEMMA TailIndex ==
  ASSUME NEW q \in Seq(Posted), q # <<>>
  PROVE  /\ DOMAIN q = 1 .. Len(q) /\ Len(q) \in Nat \ {0}
         /\ DOMAIN Tail(q) = 1 .. Len(q) - 1
         /\ \A i \in 1 .. Len(q) - 1 : Tail(q)[i] = q[i + 1]
         /\ Head(q) = q[1]
BY HeadTailProperties, EmptySeq

LEMMA HasTail ==
  ASSUME NEW q \in Seq(Posted), q # <<>>, NEW fn
  PROVE  Has(q, fn) <=> Head(q).fn = fn \/ Has(Tail(q), fn)
<1>1. ASSUME Has(q, fn), Head(q).fn # fn PROVE Has(Tail(q), fn)
  <2>1. PICK i \in DOMAIN q : q[i].fn = fn
    BY <1>1 DEF Has
  <2>2. i - 1 \in DOMAIN Tail(q) /\ Tail(q)[i - 1] = q[i]
    BY <1>1, <2>1, TailIndex
  <2> QED BY <2>1, <2>2 DEF Has
<1>2. ASSUME Has(Tail(q), fn) PROVE Has(q, fn)
  <2>1. PICK i \in DOMAIN Tail(q) : Tail(q)[i].fn = fn
    BY <1>2 DEF Has
  <2>2. i + 1 \in DOMAIN q /\ Tail(q)[i] = q[i + 1]
    BY <2>1, TailIndex
  <2> QED BY <2>1, <2>2 DEF Has
<1>3. ASSUME Head(q).fn = fn PROVE Has(q, fn)
  <2>1. 1 \in DOMAIN q /\ q[1] = Head(q)
    BY TailIndex
  <2> QED BY <1>3, <2>1 DEF Has
<1> QED BY <1>1, <1>2, <1>3

(* At most one close among the posted functions. *)
OneClose(q) ==
  \A i, j \in DOMAIN q : q[i].fn = "close" /\ q[j].fn = "close" => i = j

LEMMA OneCloseAppend ==
  ASSUME NEW q \in Seq(Posted), NEW f \in Posted, OneClose(q),
         f.fn = "close" => ~Has(q, "close")
  PROVE  OneClose(Append(q, f))
<1>1. /\ Len(Append(q, f)) = Len(q) + 1 /\ Len(q) \in Nat
      /\ \A i \in 1 .. Len(q) : Append(q, f)[i] = q[i]
      /\ Append(q, f)[Len(q) + 1] = f
      /\ DOMAIN q = 1 .. Len(q)
      /\ DOMAIN Append(q, f) = 1 .. Len(q) + 1
  OBVIOUS
<1>2. CASE f.fn = "close"
  <2>1. \A i \in 1 .. Len(q) : Append(q, f)[i].fn # "close"
    BY <1>1, <1>2 DEF Has
  <2> QED BY <1>1, <2>1 DEF OneClose
<1>3. CASE f.fn # "close"
  <2>1. \A i \in DOMAIN Append(q, f) :
          Append(q, f)[i].fn = "close" => i \in 1 .. Len(q) /\ q[i].fn = "close"
    BY <1>1, <1>3
  <2> QED BY <1>1, <2>1 DEF OneClose
<1> QED BY <1>2, <1>3

LEMMA OneCloseTail ==
  ASSUME NEW q \in Seq(Posted), q # <<>>, OneClose(q)
  PROVE  /\ OneClose(Tail(q))
         /\ Head(q).fn = "close" => ~Has(Tail(q), "close")
<1>1. \A i \in DOMAIN Tail(q) : i + 1 \in DOMAIN q /\ Tail(q)[i] = q[i + 1] /\ i \in Nat \ {0}
  BY TailIndex
<1>2. OneClose(Tail(q))
  <2> SUFFICES ASSUME NEW i \in DOMAIN Tail(q), NEW j \in DOMAIN Tail(q),
                      Tail(q)[i].fn = "close", Tail(q)[j].fn = "close"
               PROVE  i = j
    BY DEF OneClose
  <2>1. i + 1 = j + 1
    BY <1>1 DEF OneClose
  <2> QED BY <1>1, <2>1
<1>3. ASSUME Head(q).fn = "close", Has(Tail(q), "close") PROVE FALSE
  <2>1. PICK i \in DOMAIN Tail(q) : Tail(q)[i].fn = "close"
    BY <1>3 DEF Has
  <2>2. 1 \in DOMAIN q /\ q[1].fn = "close"
    BY <1>3, TailIndex
  <2>3. i + 1 = 1
    BY <1>1, <2>1, <2>2 DEF OneClose
  <2> QED BY <1>1, <2>3
<1> QED BY <1>2, <1>3

-----------------------------------------------------------------------------
(***************************************************************************)
(* The inductive invariant.  The close posted by a failed ReadHeader ends  *)
(* the reads, so that there is only one: a second PostedClose would find   *)
(* nothing in ServedConnection to map to.                                  *)
(***************************************************************************)
ClosesOnce ==
  /\ sock["server"] = "none" => posted["server"] = <<>> /\ rd["server"] = "none"
  /\ rd["server"] # "none" => ~Has(posted["server"], "close")
  /\ OneClose(posted["server"])

ServedInv == WriteInv /\ ClosesOnce
ServedStep == ClosesOnce' /\ (Served!Next \/ UNCHANGED Served!vars)

LEMMA ServerEnd ==
  ASSUME WriteInv
  PROVE  /\ "server" \in Side /\ "client" \in Side
         /\ posted["server"] \in Seq(Posted)
         /\ wr["server"] \in Seq(Write)
         /\ delivered["server"] \in Seq(Msg)
         /\ sock["server"] \in {"none", "open", "closed"}
         /\ rd["server"] \in {"none", "validation", "header", "body"}
BY DEF WriteInv, TypeOK, Side

LEMMA ServedInit == Init => ClosesOnce /\ Served!Init
<1> SUFFICES ASSUME Init PROVE ClosesOnce /\ Served!Init
  OBVIOUS
<1>1. /\ posted["server"] = <<>> /\ rd["server"] = "none" /\ wr["server"] = <<>>
      /\ delivered["server"] = <<>> /\ sock["server"] = "none" /\ validation = "pending"
  BY DEF Init, Side
<1>2. ~Has(<<>>, "close") /\ ~Has(<<>>, "send") /\ OneClose(<<>>)
  BY DEF Has, OneClose
<1>3. Len(delivered["server"]) = 0
  BY <1>1
<1> QED BY <1>1, <1>2, <1>3 DEF ClosesOnce, Served!Init, ServedReading, ServedWriting

(* Steps of the client end, the network, the applications around it. *)
LEMMA Untouched ==
  ASSUME ServedInv,
         sock'["server"] = sock["server"], validation' = validation,
         rd'["server"] = rd["server"], wr'["server"] = wr["server"],
         posted'["server"] = posted["server"], delivered'["server"] = delivered["server"]
  PROVE  ServedStep
<1>1. UNCHANGED <<ServedReading, ServedWriting>>
  BY DEF ServedReading, ServedWriting
<1> QED BY <1>1 DEF ServedInv, ClosesOnce, ServedStep, Served!vars

LEMMA ClientUntouched ==
  ASSUME ServedInv,
         \/ Connecting("client") \/ WriteStep("client")
         \/ ReadStep("client") \/ PostedStep("client")
  PROVE  ServedStep
<1>1. /\ sock \in [Side -> {"none", "open", "closed"}] /\ "server" \in Side
      /\ rd \in [Side -> {"none", "validation", "header", "body"}]
      /\ wr \in [Side -> Seq(Write)] /\ posted \in [Side -> Seq(Posted)]
      /\ delivered \in [Side -> Seq(Msg)]
  BY DEF ServedInv, WriteInv, TypeOK, Side
<1>2. CASE Connecting("client")
  <2>1. /\ rd'["server"] = rd["server"]
        /\ UNCHANGED <<sock, validation, wr, posted, delivered>>
    BY <1>1, <1>2 DEF Connecting, ConnectToServer, writing, app
  <2> QED BY <2>1, Untouched
<1>3. CASE Handshake("client")
  <2>1. /\ rd'["server"] = rd["server"] /\ wr'["server"] = wr["server"]
        /\ UNCHANGED <<sock, validation, posted, delivered>>
    BY <1>1, <1>3 DEF Handshake, ReadChallenge, app
  <2> QED BY <2>1, Untouched
<1>4. CASE ReadHeader("client") \/ ReadBody("client")
  <2>1. /\ rd'["server"] = rd["server"] /\ delivered'["server"] = delivered["server"]
        /\ UNCHANGED <<sock, validation, wr, posted>>
    BY <1>1, <1>4 DEF ReadHeader, ReadBody, AddToIncomingMessageQueue, writing, app
  <2> QED BY <2>1, Untouched
<1>5. CASE ReadError("client")
  <2>1. /\ rd'["server"] = rd["server"] /\ posted'["server"] = posted["server"]
        /\ sock'["server"] = sock["server"]
        /\ UNCHANGED <<validation, wr, delivered>>
    BY <1>1, <1>5 DEF ReadError, Close, writing
  <2> QED BY <2>1, Untouched
<1>6. CASE WriteStep("client")
  <2>1. /\ rd'["server"] = rd["server"] /\ wr'["server"] = wr["server"]
        /\ sock'["server"] = sock["server"]
        /\ UNCHANGED <<validation, posted, delivered>>
    BY <1>1, <1>6 DEF WriteStep, WriteValidation, WriteHeader, WriteBody, WriteError,
                      WriteNext, Close, reading, app
  <2> QED BY <2>1, Untouched
<1>7. CASE PostedStep("client")
  <2>1. /\ posted'["server"] = posted["server"] /\ wr'["server"] = wr["server"]
        /\ sock'["server"] = sock["server"]
        /\ UNCHANGED <<validation, rd, delivered>>
    BY <1>1, <1>7 DEF PostedStep, PostedSend, PostedClose, Close, reading, writing
  <2> QED BY <2>1, Untouched
<1> QED BY <1>2, <1>3, <1>4, <1>5, <1>6, <1>7 DEF ReadStep

LEMMA NetworkServed == ASSUME ServedInv, Network PROVE ServedStep
<1>1. UNCHANGED <<sock, validation, rd, wr, posted, delivered>>
  BY DEF Network, Establish, Reset, reading, writing, app
<1> QED BY <1>1, Untouched

-----------------------------------------------------------------------------
(* A send posted to the server end. *)
LEMMA SendServed ==
  ASSUME ServedInv, sock["server"] = "open", NEW m \in Msg,
         Post("server", [fn |-> "send", msg |-> m]),
         UNCHANGED <<sock, validation, rd, wr, delivered>>
  PROVE  ServedStep
<1> DEFINE f == [fn |-> "send", msg |-> m]
           q == posted["server"]
<1>1. f \in Posted /\ f.fn = "send" /\ q \in Seq(Posted) /\ "server" \in Side
  BY ServerEnd DEF Posted, ServedInv
<1>2. posted'["server"] = Append(q, f)
  BY <1>1 DEF Post, IOAlive, ServedInv, WriteInv, TypeOK
<1> HIDE DEF f, q
<1>3. /\ Has(Append(q, f), "send")
      /\ Has(Append(q, f), "close") <=> Has(q, "close")
  BY <1>1, HasAppend
<1>4. OneClose(Append(q, f))
  BY <1>1, OneCloseAppend DEF ServedInv, ClosesOnce, q
<1>5. ClosesOnce'
  BY <1>2, <1>3, <1>4 DEF ServedInv, ClosesOnce, q
<1>6. ServedWriting' = TRUE /\ UNCHANGED ServedReading
  BY <1>2, <1>3 DEF ServedWriting, ServedReading
<1>7. Has(posted["server"], "close")' = Has(posted["server"], "close")
  BY <1>2, <1>3 DEF q, Has
<1>8. Served!Send
  BY <1>6, <1>7 DEF Served!Send
<1> QED BY <1>5, <1>8 DEF ServedStep, Served!Next

LEMMA ApplicationServed == ASSUME ServedInv, Application PROVE ServedStep
<1>1. "server" \in Side /\ "client" \in Side /\ posted \in [Side -> Seq(Posted)]
  BY DEF ServedInv, WriteInv, TypeOK, Side
<1>2. UNCHANGED <<sock, validation, rd, wr, delivered>>
  BY DEF Application, Send, EchoMessage, Disconnect, StopContext, reading, writing
<1>3. CASE posted'["server"] = posted["server"]
  BY <1>2, <1>3, Untouched
<1>4. CASE \E s \in Side, size \in Sizes : Send(s, size)
  <2>1. PICK s \in Side, size \in Sizes : Send(s, size)
    BY <1>4
  <2> DEFINE m == NewMsg(Len(sent[s]) + 1, size)
  <2>2. m \in Msg
    BY NewMsgType, TrafficAssumption DEF ServedInv, WriteInv, TypeOK
  <2>3. Post(s, [fn |-> "send", msg |-> m]) /\ MaySend(s)
    BY <2>1 DEF Send
  <2> HIDE DEF m
  <2>4. CASE s = "server"
    BY <1>2, <2>2, <2>3, <2>4, SendServed DEF MaySend
  <2>5. CASE s = "client"
    BY <1>1, <1>3, <2>3, <2>5 DEF Post
  <2> QED BY <2>4, <2>5 DEF Side
<1>5. CASE EchoMessage
  <2> DEFINE m == delivered["server"][handled + 1]
  <2>1. m \in Msg
    BY <1>5 DEF EchoMessage, ServedInv, WriteInv, TypeOK, Side
  <2>2. CASE sock["server"] = "open"
    <3>1. Post("server", [fn |-> "send", msg |-> m])
      BY <1>5, <2>2 DEF EchoMessage
    <3> HIDE DEF m
    <3> QED BY <1>2, <2>1, <2>2, <3>1, SendServed
  <2>3. CASE sock["server"] # "open"
    BY <1>3, <1>5, <2>3 DEF EchoMessage
  <2> QED BY <2>2, <2>3
<1>6. CASE Disconnect \/ StopContext
  <2>1. posted'["server"] = posted["server"]
    BY <1>1, <1>6 DEF Disconnect, StopContext, Post
  <2> QED BY <1>3, <2>1
<1> QED BY <1>4, <1>5, <1>6 DEF Application

-----------------------------------------------------------------------------
(* Connecting and the handshake. *)
LEMMA AcceptServed == ASSUME ServedInv, Connecting("server") PROVE ServedStep
<1>1. /\ sock["server"] = "none"
      /\ UNCHANGED <<posted, validation, delivered>>
      /\ posted["server"] = <<>> /\ rd["server"] = "none" /\ "server" \in Side
  BY DEF Connecting, ConnectToClient, app, ServedInv, ClosesOnce, Side
<1>2. ~Has(posted["server"], "close") /\ OneClose(posted["server"])
  BY <1>1 DEF Has, ServedInv, ClosesOnce
<1>3. Has(posted["server"], "close")' = Has(posted["server"], "close")
  BY <1>1 DEF Has
<1>4. CASE sock' = [sock EXCEPT !["server"] = "open"]
           /\ wr' = [wr EXCEPT !["server"] =
                       Append(@, [op |-> "validation", value |-> hsOut'["server"]])]
           /\ rd' = [rd EXCEPT !["server"] = "validation"]
  <2>1. sock'["server"] = "open" /\ rd'["server"] = "validation"
    BY <1>1, <1>4 DEF ServedInv, WriteInv, TypeOK
  <2>2. wr'["server"] # <<>>
    <3> DEFINE v == [op |-> "validation", value |-> hsOut'["server"]]
    <3>1. wr'["server"] = Append(wr["server"], v) /\ wr["server"] \in Seq(Write)
      BY <1>1, <1>4 DEF ServedInv, WriteInv, TypeOK
    <3> HIDE DEF v
    <3>2. Len(wr'["server"]) = Len(wr["server"]) + 1 /\ Len(wr["server"]) \in Nat
      BY <3>1
    <3> QED BY <3>2
  <2>3. ClosesOnce'
    BY <1>1, <1>2, <1>3, <2>1 DEF ClosesOnce
  <2>4. ServedWriting' = TRUE /\ ServedReading' = "validation"
    BY <2>1, <2>2 DEF ServedWriting, ServedReading
  <2>5. Served!Accept
    BY <1>1, <1>3, <2>1, <2>4 DEF Served!Accept
  <2> QED BY <2>3, <2>5 DEF ServedStep, Served!Next
<1>5. CASE sock' = [sock EXCEPT !["server"] = "closed"] /\ UNCHANGED <<wr, rd>>
  <2>1. sock'["server"] = "closed"
    BY <1>1, <1>5 DEF ServedInv, WriteInv, TypeOK
  <2>2. ClosesOnce'
    BY <1>1, <1>2, <1>3, <1>5, <2>1 DEF ClosesOnce
  <2>3. UNCHANGED <<ServedWriting, ServedReading>>
    BY <1>1, <1>5 DEF ServedWriting, ServedReading, Has
  <2>4. Served!Deny
    BY <1>1, <1>3, <2>1, <2>3 DEF Served!Deny
  <2> QED BY <2>2, <2>4 DEF ServedStep, Served!Next
<1> QED BY <1>4, <1>5 DEF Connecting, ConnectToClient, Close

LEMMA AnswerServed == ASSUME ServedInv, Handshake("server") PROVE ServedStep
<1>1. /\ rd["server"] = "validation" /\ sock["server"] = "open"
      /\ UNCHANGED <<sock, wr, posted, delivered>>
      /\ \/ validation' = "ok" /\ rd' = [rd EXCEPT !["server"] = "header"]
         \/ validation' = "failed" /\ rd' = [rd EXCEPT !["server"] = "none"]
  BY DEF Handshake, ReadAnswer, CanRead, writing, app
<1>2. \/ validation' = "ok" /\ rd'["server"] = "header"
      \/ validation' = "failed" /\ rd'["server"] = "none"
  BY <1>1, ServerEnd DEF ServedInv, WriteInv, TypeOK
<1>3. ClosesOnce'
  BY <1>1, <1>2 DEF ServedInv, ClosesOnce
<1>4. UNCHANGED ServedWriting /\ ServedReading = "validation"
  BY <1>1 DEF ServedWriting, ServedReading
<1>5. Has(posted["server"], "close")' = Has(posted["server"], "close")
  BY <1>1
<1>6. CASE validation' = "ok" /\ rd'["server"] = "header"
  <2>1. ServedReading' = "message"
    BY <1>6 DEF ServedReading
  <2>2. Served!Validated
    BY <1>1, <1>4, <1>5, <1>6, <2>1 DEF Served!Validated
  <2> QED BY <1>3, <2>2 DEF ServedStep, Served!Next
<1>7. CASE validation' = "failed" /\ rd'["server"] = "none"
  <2>1. ServedReading' = "none"
    BY <1>7 DEF ServedReading
  <2>2. Served!ValidationFailed
    BY <1>1, <1>4, <1>5, <1>7, <2>1 DEF Served!ValidationFailed
  <2> QED BY <1>3, <2>2 DEF ServedStep, Served!Next
<1> QED BY <1>2, <1>6, <1>7

-----------------------------------------------------------------------------
(* The handlers of the server end. *)
LEMMA WriteServed == ASSUME ServedInv, WriteStep("server") PROVE ServedStep
<1>1. /\ wr["server"] # <<>> /\ "server" \in Side
      /\ UNCHANGED <<validation, rd, posted, delivered>>
      /\ sock' \in {sock, [sock EXCEPT !["server"] = "closed"]}
  BY DEF WriteStep, WriteValidation, WriteHeader, WriteBody, WriteError, WriteNext,
         Close, reading, app, Side
<1>2. sock'["server"] \in {sock["server"], "closed"}
  BY <1>1 DEF ServedInv, WriteInv, TypeOK
<1>3. ClosesOnce'
  BY <1>1, <1>2 DEF ServedInv, ClosesOnce
<1>4. ServedWriting = TRUE /\ ServedWriting' \in BOOLEAN /\ UNCHANGED ServedReading
  BY <1>1 DEF ServedWriting, ServedReading
<1>5. Has(posted["server"], "close")' = Has(posted["server"], "close")
  BY <1>1
<1>6. Served!WritesEnd
  BY <1>1, <1>2, <1>4, <1>5 DEF Served!WritesEnd
<1> QED BY <1>3, <1>6 DEF ServedStep, Served!Next

LEMMA PostedServed == ASSUME ServedInv, PostedStep("server") PROVE ServedStep
<1> DEFINE q == posted["server"]
<1>1. /\ q # <<>> /\ q \in Seq(Posted) /\ OneClose(q)
      /\ sock["server"] # "none"
      /\ posted' = [posted EXCEPT !["server"] = Tail(@)]
      /\ UNCHANGED <<validation, rd, delivered>>
  BY ServerEnd DEF PostedStep, PostedSend, PostedClose, reading, ServedInv, ClosesOnce
<1>2. posted'["server"] = Tail(q)
  BY <1>1, ServerEnd DEF ServedInv, WriteInv, TypeOK
<1>3. UNCHANGED ServedReading /\ ServedWriting' \in BOOLEAN
  BY <1>1 DEF ServedReading, ServedWriting
<1> HIDE DEF q
<1>4. OneClose(Tail(q)) /\ (Head(q).fn = "close" => ~Has(Tail(q), "close"))
  BY <1>1, OneCloseTail
<1>5. \A fn : Has(q, fn) <=> Head(q).fn = fn \/ Has(Tail(q), fn)
  BY <1>1, HasTail
<1>6. CASE PostedSend("server")
  <2>1. Head(q).fn = "send" /\ UNCHANGED sock
    BY <1>6 DEF PostedSend, q
  <2>2. Has(q, "send") /\ (Has(Tail(q), "close") <=> Has(q, "close"))
    BY <1>5, <2>1
  <2>3. ClosesOnce'
    BY <1>1, <1>2, <1>4, <2>1, <2>2 DEF ServedInv, ClosesOnce, q
  <2>4. ServedWriting = TRUE
    BY <2>2 DEF ServedWriting, q
  <2>5. Has(posted["server"], "close")' = Has(posted["server"], "close")
    BY <1>2, <2>2 DEF q, Has
  <2>6. Served!WritesEnd
    BY <1>1, <1>3, <2>1, <2>4, <2>5 DEF Served!WritesEnd
  <2> QED BY <2>3, <2>6 DEF ServedStep, Served!Next
<1>7. CASE PostedClose("server")
  <2>1. /\ Head(q).fn = "close" /\ UNCHANGED wr
        /\ sock' = [sock EXCEPT !["server"] = "closed"]
    BY <1>7 DEF PostedClose, Close, writing, q
  <2>2. sock'["server"] = "closed"
    BY <2>1, ServerEnd DEF ServedInv, WriteInv, TypeOK
  <2>3. Has(q, "close") /\ ~Has(Tail(q), "close") /\ (Has(Tail(q), "send") <=> Has(q, "send"))
    BY <1>4, <1>5, <2>1
  <2>4. ClosesOnce'
    BY <1>1, <1>2, <1>4, <2>2, <2>3 DEF ServedInv, ClosesOnce, q
  <2>5. UNCHANGED ServedWriting
    BY <1>2, <2>1, <2>3 DEF ServedWriting, q
  <2>6. Has(posted["server"], "close") = TRUE /\ Has(posted["server"], "close")' = FALSE
    BY <1>2, <2>3 DEF q, Has
  <2>7. Served!Close
    BY <1>1, <1>3, <2>2, <2>5, <2>6 DEF Served!Close
  <2> QED BY <2>4, <2>7 DEF ServedStep, Served!Next
<1> QED BY <1>6, <1>7 DEF PostedStep

LEMMA ReceiveServed ==
  ASSUME ServedInv, ReadHeader("server") \/ ReadBody("server")
  PROVE  ServedStep
<1>1. /\ rd["server"] \in {"header", "body"} /\ sock["server"] = "open"
      /\ UNCHANGED <<sock, validation, wr, posted>>
      /\ \/ UNCHANGED <<rd, delivered>>
         \/ rd' = [rd EXCEPT !["server"] = "body"] /\ UNCHANGED delivered
         \/ \E m : /\ delivered' = [delivered EXCEPT !["server"] = Append(@, m)]
                   /\ rd' = [rd EXCEPT !["server"] = "header"]
  BY DEF ReadHeader, ReadBody, CanRead, AddToIncomingMessageQueue, writing, app
<1>2. /\ rd'["server"] \in {"header", "body"}
      /\ Len(delivered'["server"]) \in {Len(delivered["server"]), Len(delivered["server"]) + 1}
  BY <1>1, ServerEnd DEF ServedInv, WriteInv, TypeOK
<1>3. ClosesOnce'
  BY <1>1, <1>2 DEF ServedInv, ClosesOnce
<1>4. UNCHANGED ServedWriting /\ ServedReading = "message" /\ ServedReading' = "message"
  BY <1>1, <1>2 DEF ServedWriting, ServedReading
<1>5. Has(posted["server"], "close")' = Has(posted["server"], "close")
  BY <1>1
<1>6. CASE Len(delivered'["server"]) = Len(delivered["server"]) + 1
  <2>1. Served!Receive
    BY <1>1, <1>4, <1>5, <1>6 DEF Served!Receive
  <2> QED BY <1>3, <2>1 DEF ServedStep, Served!Next
<1>7. CASE Len(delivered'["server"]) = Len(delivered["server"])
  <2>1. UNCHANGED Served!vars
    BY <1>1, <1>4, <1>5, <1>7 DEF Served!vars
  <2> QED BY <1>3, <2>1 DEF ServedStep
<1> QED BY <1>2, <1>6, <1>7

LEMMA ReadErrorServed == ASSUME ServedInv, ReadError("server") PROVE ServedStep
<1> DEFINE q == posted["server"]
           f == [fn |-> "close"]
<1>1. /\ rd["server"] # "none" /\ rd' = [rd EXCEPT !["server"] = "none"]
      /\ UNCHANGED <<validation, wr, delivered>>
      /\ q \in Seq(Posted) /\ f \in Posted /\ OneClose(q) /\ ~Has(q, "close")
      /\ sock["server"] # "none"
  BY ServerEnd DEF ReadError, writing, ServedInv, ClosesOnce, Posted
<1>2. rd'["server"] = "none"
  BY <1>1, ServerEnd DEF ServedInv, WriteInv, TypeOK
<1>3. ServedReading # "none" /\ ServedReading' = "none"
  BY <1>1, <1>2 DEF ServedReading
<1>4. CASE rd["server"] = "header"
  <2>1. posted'["server"] = Append(q, f) /\ UNCHANGED sock
    BY <1>1, <1>4, ServerEnd DEF ReadError, ServedInv, WriteInv, TypeOK
  <2>2. f.fn = "close" /\ f.fn # "send"
    OBVIOUS
  <2> HIDE DEF q, f
  <2>3. Has(Append(q, f), "close") /\ (Has(Append(q, f), "send") <=> Has(q, "send"))
    BY <1>1, <2>2, HasAppend
  <2>4. OneClose(Append(q, f))
    BY <1>1, OneCloseAppend
  <2>5. ClosesOnce'
    BY <1>1, <1>2, <2>1, <2>4 DEF ClosesOnce
  <2>6. ServedReading = "message" /\ UNCHANGED ServedWriting
    BY <1>1, <1>4, <2>1, <2>3 DEF ServedReading, ServedWriting, q
  <2>7. Has(posted["server"], "close")' = TRUE
    BY <2>1, <2>3 DEF Has
  <2>8. Served!ReadFails
    BY <1>1, <1>3, <2>1, <2>6, <2>7 DEF Served!ReadFails
  <2> QED BY <2>5, <2>8 DEF ServedStep, Served!Next
<1>5. CASE rd["server"] # "header"
  <2>1. sock' = [sock EXCEPT !["server"] = "closed"] /\ UNCHANGED posted
    BY <1>5 DEF ReadError, Close
  <2>2. sock'["server"] = "closed"
    BY <2>1, ServerEnd DEF ServedInv, WriteInv, TypeOK
  <2>3. ClosesOnce'
    BY <1>1, <1>2, <2>1, <2>2 DEF ClosesOnce
  <2>4. UNCHANGED ServedWriting
    BY <1>1, <2>1 DEF ServedWriting
  <2>5. Has(posted["server"], "close")' = Has(posted["server"], "close")
    BY <2>1
  <2>6. Served!ReadFails
    BY <1>1, <1>3, <2>2, <2>4, <2>5 DEF Served!ReadFails
  <2> QED BY <2>3, <2>6 DEF ServedStep, Served!Next
<1> QED BY <1>4, <1>5

-----------------------------------------------------------------------------
LEMMA ServedNext == ServedInv /\ [Next]_vars => ServedInv' /\ (Served!Next \/ UNCHANGED Served!vars)
<1> SUFFICES ASSUME ServedInv, [Next]_vars
             PROVE  ServedInv' /\ (Served!Next \/ UNCHANGED Served!vars)
  OBVIOUS
<1>1. WriteInv'
  BY WriteInvNext DEF ServedInv
<1>2. ServedStep
  <2>1. CASE UNCHANGED vars
    BY <2>1, Untouched DEF vars
  <2>2. CASE Network \/ Application
    BY <2>2, NetworkServed, ApplicationServed
  <2>3. ASSUME NEW s \in Side,
               Connecting(s) \/ WriteStep(s) \/ ReadStep(s) \/ PostedStep(s)
        PROVE  ServedStep
    <3>1. CASE s = "client"
      BY <2>3, <3>1, ClientUntouched
    <3>2. CASE s = "server"
      BY <2>3, <3>2, AcceptServed, AnswerServed, WriteServed, PostedServed,
         ReceiveServed, ReadErrorServed DEF ReadStep
    <3> QED BY <3>1, <3>2 DEF Side
  <2> QED BY <2>1, <2>2, <2>3 DEF Next
<1> QED BY <1>1, <1>2 DEF ServedInv, ServedStep

(***************************************************************************)
(* Whatever arrives, fails or is closed, and in whatever order the         *)
(* handlers and posted functions of the server end run: it does only what  *)
(* server.h takes a connection for.  In particular it closes once at most  *)
(* from a failed read, and hears nothing before the validation.            *)
(***************************************************************************)
THEOREM ConnectionImplementsServed == Spec => ImplementsServed
<1>1. Init => ServedInv /\ Served!Init
  BY WriteInit, ServedInit DEF ServedInv
<1>2. ServedInv /\ [Next]_vars => [Served!Next]_(Served!vars)
  BY ServedNext
<1>3. ServedInv /\ [Next]_vars => ServedInv'
  BY ServedNext
<1>4. Spec => Served!Spec
  BY <1>1, <1>2, <1>3, PTL DEF Spec, Served!Spec
<1> QED BY <1>4 DEF ImplementsServed
=============================================================================
