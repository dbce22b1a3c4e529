--------------------- MODULE ConnectionHandshakeProofs ---------------------
(***************************************************************************)
(* Theorems about the handshake of a Connection and the chain of reads     *)
(* after it, for any handshake values, sizes, bounds and faults.           *)
(***************************************************************************)
EXTENDS ConnectionProofs

-----------------------------------------------------------------------------
(* Membership in a sequence that grows at the back and shrinks in front. *)
In(q, x) == \E i \in DOMAIN q : q[i] = x

LEMMA InAppend ==
  ASSUME NEW S, NEW q \in Seq(S), NEW y \in S, NEW x
  PROVE  In(Append(q, y), x) <=> In(q, x) \/ x = y
<1>1. /\ Append(q, y) \in Seq(S)
      /\ Len(Append(q, y)) = Len(q) + 1 /\ Len(q) \in Nat
      /\ \A i \in 1 .. Len(q) : Append(q, y)[i] = q[i]
      /\ Append(q, y)[Len(q) + 1] = y
  OBVIOUS
<1>2. DOMAIN q = 1 .. Len(q) /\ DOMAIN Append(q, y) = 1 .. Len(Append(q, y))
  BY <1>1
<1> QED BY <1>1, <1>2 DEF In

LEMMA InTail ==
  ASSUME NEW S, NEW q \in Seq(S), q # <<>>, NEW x
  PROVE  In(q, x) <=> Head(q) = x \/ In(Tail(q), x)
<1>1. /\ DOMAIN q = 1 .. Len(q) /\ Len(q) \in Nat \ {0}
      /\ DOMAIN Tail(q) = 1 .. Len(q) - 1
      /\ \A i \in 1 .. Len(q) - 1 : Tail(q)[i] = q[i + 1]
      /\ Head(q) = q[1]
  BY HeadTailProperties, EmptySeq
<1>2. ASSUME In(q, x), Head(q) # x PROVE In(Tail(q), x)
  <2>1. PICK i \in DOMAIN q : q[i] = x
    BY <1>2 DEF In
  <2>2. i - 1 \in DOMAIN Tail(q) /\ Tail(q)[i - 1] = q[i]
    BY <1>1, <1>2, <2>1
  <2> QED BY <2>1, <2>2 DEF In
<1>3. ASSUME In(Tail(q), x) PROVE In(q, x)
  <2>1. PICK i \in DOMAIN Tail(q) : Tail(q)[i] = x
    BY <1>3 DEF In
  <2>2. i + 1 \in DOMAIN q /\ Tail(q)[i] = q[i + 1]
    BY <1>1, <2>1
  <2> QED BY <2>1, <2>2 DEF In
<1>4. Head(q) = x => In(q, x)
  BY <1>1 DEF In
<1> QED BY <1>2, <1>3, <1>4

-----------------------------------------------------------------------------
(***************************************************************************)
(* The client's answer, on its way in a write or a frame.                  *)
(***************************************************************************)
Answers(v) == [op |-> "validation", value |-> v]
UnderWay(v) == In(chan["server"], Nonce(v)) \/ In(wr["client"], Answers(v))

(* Message frames and message writes are no answers. *)
LEMMA NoAnswer ==
  ASSUME NEW m, NEW v
  PROVE  /\ Header(m) # Nonce(v) /\ Body(m) # Nonce(v)
         /\ [op |-> "header", msg |-> m] # Answers(v)
         /\ [op |-> "body", msg |-> m] # Answers(v)
<1>1. /\ Header(m).kind = "header" /\ Body(m).kind = "body" /\ Nonce(v).kind = "nonce"
      /\ [op |-> "header", msg |-> m].op = "header" /\ [op |-> "body", msg |-> m].op = "body"
      /\ Answers(v).op = "validation"
  BY DEF Header, Body, Nonce, Answers
<1> QED BY <1>1

LEMMA InHeaderWrite ==
  ASSUME NEW w \in Seq(Write), NEW q \in Seq(Msg), NEW v
  PROVE  In(w \o HeaderWrite(q), Answers(v)) <=> In(w, Answers(v))
<1>1. CASE q = <<>>
  <2>1. w \o HeaderWrite(q) = w
    BY <1>1, HeaderWriteType, ConcatEmptySeq
  <2> QED BY <2>1
<1>2. CASE q # <<>>
  <2> DEFINE h == [op |-> "header", msg |-> Head(q)]
  <2>1. h \in Write /\ h # Answers(v)
    BY <1>2, HeaderWriteType, NoAnswer DEF Write
  <2>2. w \o HeaderWrite(q) = Append(w, h)
    BY <1>2, <2>1, HeaderWriteType, AppendIsConcat
  <2> HIDE DEF h
  <2> QED BY <2>1, <2>2, InAppend
<1> QED BY <1>1, <1>2

(***************************************************************************)
(* The inductive invariant: the client answers once, with one value; the   *)
(* server validates once, before it reads any message.                     *)
(***************************************************************************)
Unanswered == connecting \/ rd["client"] = "validation"

HandshakeInv ==
  /\ connecting => rd["client"] = "none"
  /\ Unanswered => \A v : ~UnderWay(v)
  /\ \A v : UnderWay(v) => v = hsOut["client"]
  /\ sock["server"] = "none" =>
       rd["server"] = "none" /\ validation = "pending" /\ delivered["server"] = <<>>
  /\ rd["server"] = "validation" => hsOut["server"] \in Nonces /\ validation = "pending"
  /\ rd["server"] \in {"header", "body"} => validation = "ok"
  /\ delivered["server"] # <<>> => validation = "ok"
  /\ validation = "ok" =>
       ~Unanswered /\ hsOut["client"] = Scramble[hsOut["server"]]

LEMMA Typed ==
  ASSUME WriteInv
  PROVE  /\ "server" \in Side /\ "client" \in Side
         /\ sock \in [Side -> {"none", "open", "closed"}]
         /\ chan \in [Side -> Seq(Frame)]
         /\ rd \in [Side -> {"none", "validation", "header", "body"}]
         /\ wr \in [Side -> Seq(Write)]
         /\ posted \in [Side -> Seq(Posted)]
         /\ hsOut \in [Side -> Values]
         /\ delivered \in [Side -> Seq(Msg)]
BY DEF WriteInv, TypeOK, Side

LEMMA HandshakeInit == Init => HandshakeInv
<1> SUFFICES ASSUME Init PROVE HandshakeInv
  OBVIOUS
<1>1. /\ chan["server"] = <<>> /\ wr["client"] = <<>> /\ rd["client"] = "none"
      /\ rd["server"] = "none" /\ delivered["server"] = <<>> /\ validation = "pending"
  BY DEF Init, Side
<1>2. \A v : ~UnderWay(v)
  BY <1>1 DEF UnderWay, In
<1> QED BY <1>1, <1>2 DEF HandshakeInv

(* Steps that are no part of the handshake. *)
LEMMA NoHandshake ==
  ASSUME HandshakeInv, UNCHANGED <<connecting, hsOut, validation>>,
         \A v : UnderWay(v)' => UnderWay(v),
         sock'["server"] = "none" => sock["server"] = "none",
         rd'["client"] = "validation" => rd["client"] = "validation",
         connecting => rd'["client"] = "none",
         \/ rd'["server"] \in {rd["server"], "none"}
         \/ {rd["server"], rd'["server"]} \subseteq {"header", "body"},
         \/ delivered'["server"] = delivered["server"]
         \/ validation = "ok"
  PROVE  HandshakeInv'
<1>1. Unanswered' => Unanswered
  BY DEF Unanswered
<1>2. /\ connecting' => rd'["client"] = "none"
      /\ Unanswered' => \A v : ~UnderWay(v)'
      /\ \A v : UnderWay(v)' => v = hsOut'["client"]
  BY <1>1 DEF HandshakeInv
<1>3. sock'["server"] = "none" =>
        rd'["server"] = "none" /\ validation' = "pending" /\ delivered'["server"] = <<>>
  BY DEF HandshakeInv
<1>4. /\ rd'["server"] = "validation" => hsOut'["server"] \in Nonces /\ validation' = "pending"
      /\ rd'["server"] \in {"header", "body"} => validation' = "ok"
      /\ delivered'["server"] # <<>> => validation' = "ok"
  BY DEF HandshakeInv
<1>5. validation' = "ok" => ~Unanswered' /\ hsOut'["client"] = Scramble[hsOut'["server"]]
  BY <1>1 DEF HandshakeInv
<1> QED BY <1>2, <1>3, <1>4, <1>5 DEF HandshakeInv

LEMMA NetworkAndApplication ==
  ASSUME WriteInv, HandshakeInv, Network \/ Application
  PROVE  HandshakeInv'
<1>1. /\ UNCHANGED <<connecting, sock, rd, wr, hsOut, validation, delivered>>
      /\ chan' \in {chan, [s \in Side |-> <<>>]}
  BY DEF Network, Establish, Reset, Application, Send, EchoMessage, Disconnect, StopContext,
         net, reading, writing
<1>2. chan'["server"] \in {chan["server"], <<>>}
  BY <1>1, Typed
<1>3. \A v : UnderWay(v)' => UnderWay(v)
  BY <1>1, <1>2 DEF UnderWay, In
<1> QED BY <1>1, <1>3, NoHandshake DEF HandshakeInv

LEMMA ConnectingHandshake ==
  ASSUME WriteInv, HandshakeInv, NEW s \in Side, Connecting(s)
  PROVE  HandshakeInv'
<1>1. CASE ConnectToServer
  <2>1. /\ connecting /\ connecting' = FALSE
        /\ rd'["client"] \in {"none", "validation"} /\ rd'["server"] = rd["server"]
        /\ UNCHANGED <<chan, sock, wr, hsOut, validation, delivered>>
    BY <1>1, Typed DEF ConnectToServer, writing, app, HandshakeInv
  <2>2. \A v : ~UnderWay(v) /\ UnderWay(v)' = UnderWay(v)
    BY <2>1 DEF HandshakeInv, Unanswered, UnderWay
  <2> QED BY <2>1, <2>2 DEF HandshakeInv, Unanswered
<1>2. CASE ConnectToClient
  <2>1. /\ sock["server"] = "none" /\ validation = "pending" /\ rd["server"] = "none"
        /\ delivered["server"] = <<>>
        /\ UNCHANGED <<connecting, chan, validation, delivered>>
        /\ \E v \in Challenges : hsOut' = [hsOut EXCEPT !["server"] = v]
    BY <1>2 DEF ConnectToClient, net, HandshakeInv
  <2>2. hsOut'["client"] = hsOut["client"] /\ hsOut'["server"] \in Nonces
    BY <2>1, Typed, HandshakeAssumption
  <2>3. /\ sock'["server"] # "none" /\ rd'["server"] \in {"none", "validation"}
        /\ rd'["client"] = rd["client"] /\ wr'["client"] = wr["client"]
    BY <1>2, <2>1, Typed DEF ConnectToClient, Close
  <2>4. \A v : UnderWay(v)' = UnderWay(v)
    BY <2>1, <2>3 DEF UnderWay
  <2> QED BY <2>1, <2>2, <2>3, <2>4 DEF HandshakeInv, Unanswered
<1> QED BY <1>1, <1>2 DEF Connecting

LEMMA ChallengeAnswered ==
  ASSUME WriteInv, HandshakeInv, ReadChallenge
  PROVE  HandshakeInv'
<1> DEFINE a == Answer(ValueOf(Head(chan["client"])))
<1>1. /\ rd["client"] = "validation" /\ chan["client"] # <<>>
      /\ chan' = [chan EXCEPT !["client"] = Tail(@)]
      /\ hsOut' = [hsOut EXCEPT !["client"] = a]
      /\ wr' = [wr EXCEPT !["client"] = Append(@, Answers(a))]
      /\ rd' = [rd EXCEPT !["client"] = "none"]
      /\ UNCHANGED <<connecting, sock, delivered, validation>>
  BY DEF ReadChallenge, CanRead, Consume, Answers
<1>2. a \in Values
  BY HandshakeAssumption DEF Answer, Values
<1> HIDE DEF a
<1>3. /\ chan'["server"] = chan["server"] /\ rd'["client"] = "none"
      /\ rd'["server"] = rd["server"] /\ wr'["client"] = Append(wr["client"], Answers(a))
      /\ hsOut'["client"] = a /\ hsOut'["server"] = hsOut["server"]
  BY <1>1, Typed
<1>4. ~connecting /\ validation # "ok" /\ \A v : ~UnderWay(v)
  BY <1>1 DEF HandshakeInv, Unanswered
<1>5. \A v : UnderWay(v)' => v = a
  <2>1. Answers(a) \in Write /\ wr["client"] \in Seq(Write)
    BY <1>2, Typed DEF Write, Answers
  <2>2. \A v : In(Append(wr["client"], Answers(a)), Answers(v)) <=>
                 In(wr["client"], Answers(v)) \/ Answers(v) = Answers(a)
    BY <2>1, InAppend
  <2>3. \A v : Answers(v) = Answers(a) => v = a
    <3>1. \A v : Answers(v).value = v
      BY DEF Answers
    <3> QED BY <3>1
  <2> QED BY <1>3, <1>4, <2>2, <2>3 DEF UnderWay
<1> QED BY <1>1, <1>3, <1>4, <1>5 DEF HandshakeInv, Unanswered

(* The frame that validates can only be the answer of the client. *)
LEMMA AnswerRead ==
  ASSUME WriteInv, HandshakeInv, ReadAnswer
  PROVE  HandshakeInv'
<1> DEFINE f == Head(chan["server"])
<1>1. /\ rd["server"] = "validation" /\ chan["server"] # <<>> /\ sock["server"] = "open"
      /\ chan' = [chan EXCEPT !["server"] = Tail(@)]
      /\ UNCHANGED <<connecting, sock, delivered, hsOut, wr>>
      /\ \/ /\ ValueOf(f) = Scramble[hsOut["server"]]
            /\ validation' = "ok" /\ rd' = [rd EXCEPT !["server"] = "header"]
         \/ validation' = "failed" /\ rd' = [rd EXCEPT !["server"] = "none"]
  BY DEF ReadAnswer, CanRead, Consume, writing
<1>2. /\ chan["server"] \in Seq(Frame) /\ chan'["server"] = Tail(chan["server"])
      /\ rd'["client"] = rd["client"]
      /\ \/ ValueOf(f) = Scramble[hsOut["server"]] /\ validation' = "ok" /\ rd'["server"] = "header"
         \/ validation' = "failed" /\ rd'["server"] = "none"
  BY <1>1, Typed
<1>3. /\ validation = "pending" /\ delivered["server"] = <<>>
      /\ Scramble[hsOut["server"]] \in Nonces
  BY <1>1, HandshakeAssumption DEF HandshakeInv
<1>4. \A v : In(chan["server"], Nonce(v)) <=> f = Nonce(v) \/ In(Tail(chan["server"]), Nonce(v))
  BY <1>1, <1>2, InTail
<1>5. \A v : UnderWay(v)' => UnderWay(v)
  BY <1>1, <1>2, <1>4 DEF UnderWay
<1>6. ASSUME ValueOf(f) = Scramble[hsOut["server"]]
      PROVE  UnderWay(Scramble[hsOut["server"]])
  <2>1. f.kind = "nonce" /\ f.value = Scramble[hsOut["server"]]
    BY <1>3, <1>6, HandshakeAssumption DEF ValueOf
  <2>2. f \in Frame
    BY <1>1, <1>2, HeadTailProperties
  <2>3. f = Nonce(f.value)
    BY <2>1, <2>2 DEF Frame, Nonce
  <2> QED BY <1>4, <2>1, <2>3 DEF UnderWay
<1> HIDE DEF f
<1>7. validation' = "ok" => ~Unanswered /\ hsOut["client"] = Scramble[hsOut["server"]]
  BY <1>2, <1>6 DEF HandshakeInv
<1>8. Unanswered' = Unanswered
  BY <1>1, <1>2 DEF Unanswered
<1> QED BY <1>1, <1>2, <1>3, <1>5, <1>7, <1>8 DEF HandshakeInv

-----------------------------------------------------------------------------
(* What the client end's handlers do to the answers among its writes. *)
LEMMA PostedAnswers ==
  ASSUME WriteInv, NEW s \in Side, PostedStep(s)
  PROVE  \A v : In(wr'["client"], Answers(v)) <=> In(wr["client"], Answers(v))
<1>1. CASE PostedSend(s)
  <2> DEFINE q == Append(out[s], Head(posted[s]).msg)
  <2>1. posted[s] # <<>> /\ Head(posted[s]).fn = "send"
    BY <1>1 DEF PostedSend
  <2>2. Head(posted[s]) \in Posted
    BY <2>1, TailAt DEF WriteInv, TypeOK
  <2>3. q \in Seq(Msg)
    BY <2>1, <2>2, AppendProperties DEF Posted, WriteInv, TypeOK
  <2>4. \/ wr' = wr
        \/ wr' = [wr EXCEPT ![s] = @ \o HeaderWrite(q)]
    BY <1>1 DEF PostedSend
  <2> HIDE DEF q
  <2>5. wr'["client"] \in {wr["client"], wr["client"] \o HeaderWrite(q)}
    BY <2>4, Typed
  <2>6. wr["client"] \in Seq(Write)
    BY Typed
  <2>7. \A v : In(wr["client"] \o HeaderWrite(q), Answers(v)) <=> In(wr["client"], Answers(v))
    BY <2>3, <2>6, InHeaderWrite
  <2> QED BY <2>5, <2>7
<1>2. CASE PostedClose(s)
  BY <1>2 DEF PostedClose, writing
<1> QED BY <1>1, <1>2 DEF PostedStep

LEMMA WritesAnswers ==
  ASSUME WriteInv, NEW s \in Side, wr[s] # <<>>, NEW v
  PROVE  /\ wr[s] \in Seq(Write) /\ Tail(wr[s]) \in Seq(Write)
         /\ In(wr[s], Answers(v)) <=> Head(wr[s]) = Answers(v) \/ In(Tail(wr[s]), Answers(v))
BY Typed, InTail, HandlerOfFront

LEMMA MessageWritten ==
  ASSUME WriteInv, NEW s \in Side, WriteHeader(s) \/ WriteBody(s)
  PROVE  /\ UNCHANGED <<connecting, sock, rd, posted, hsOut, validation, delivered>>
         /\ \A v : In(wr'["client"], Answers(v)) <=> In(wr["client"], Answers(v))
         /\ \A v : In(chan'["server"], Nonce(v)) <=> In(chan["server"], Nonce(v))
<1> DEFINE m == Head(wr[s]).msg
           f == IF WriteHeader(s) THEN Header(m) ELSE Body(m)
<1>1. /\ wr[s] # <<>> /\ IsMessageWrite(Head(wr[s]))
      /\ UNCHANGED <<connecting, sock, rd, posted, hsOut, validation, delivered>>
  BY DEF WriteHeader, WriteBody, IsMessageWrite, reading, app
<1>2. \A v : Head(wr[s]) # Answers(v)
  BY <1>1 DEF IsMessageWrite, Answers
<1>3. \A v : In(wr[s], Answers(v)) <=> In(Tail(wr[s]), Answers(v))
  BY <1>1, <1>2, WritesAnswers
<1>4. \A v : In(wr'[s], Answers(v)) <=> In(Tail(wr[s]), Answers(v))
  <2>1. Tail(wr[s]) \in Seq(Write) /\ Head(out[s]) \in Msg /\ Tail(out[s]) \in Seq(Msg)
    BY <1>1, HandlerOfFront
  <2>2. CASE WriteNext(s)
    <3>1. wr'[s] = Tail(wr[s]) \o HeaderWrite(Tail(out[s]))
      BY <2>2, Typed DEF WriteNext
    <3>2. \A v : In(Tail(wr[s]) \o HeaderWrite(Tail(out[s])), Answers(v))
                   <=> In(Tail(wr[s]), Answers(v))
      BY <2>1, InHeaderWrite
    <3> QED BY <3>1, <3>2
  <2>3. CASE wr' = [wr EXCEPT ![s] = Append(Tail(@), [op |-> "body", msg |-> Head(out[s])])]
    <3> DEFINE b == [op |-> "body", msg |-> Head(out[s])]
    <3>1. b \in Write /\ \A v : b # Answers(v)
      BY <2>1, NoAnswer DEF Write
    <3>2. wr'[s] = Append(Tail(wr[s]), b)
      BY <2>3, Typed
    <3> HIDE DEF b
    <3>3. \A v : In(Append(Tail(wr[s]), b), Answers(v))
                   <=> In(Tail(wr[s]), Answers(v)) \/ Answers(v) = b
      BY <2>1, <3>1, InAppend
    <3> QED BY <3>1, <3>2, <3>3
  <2> QED BY <2>2, <2>3 DEF WriteHeader, WriteBody
<1>5. \A r \in Side : r # s => wr'[r] = wr[r]
  BY Typed DEF WriteHeader, WriteBody, WriteNext
<1>6. \A v : In(chan'["server"], Nonce(v)) <=> In(chan["server"], Nonce(v))
  <2>1. m \in Msg
    BY <1>1, HandlerOfFront
  <2>2. f \in Frame /\ \A v : f # Nonce(v)
    BY <2>1, NoAnswer DEF Header, Body, Frame, Msg
  <2>3. chan' = [chan EXCEPT ![Peer(s)] = Append(@, f)]
    <3>1. CASE WriteHeader(s)
      BY <3>1 DEF WriteHeader, Transmit
    <3>2. CASE ~WriteHeader(s)
      BY <3>2 DEF WriteBody, Transmit
    <3> QED BY <3>1, <3>2
  <2> HIDE DEF f
  <2>4. chan'["server"] \in {chan["server"], Append(chan["server"], f)}
    BY <2>3, Typed
  <2>5. chan["server"] \in Seq(Frame)
    BY Typed
  <2>6. \A v : In(Append(chan["server"], f), Nonce(v)) <=> In(chan["server"], Nonce(v)) \/ Nonce(v) = f
    BY <2>2, <2>5, InAppend
  <2>7. CASE chan'["server"] = chan["server"]
    BY <2>7
  <2>8. CASE chan'["server"] = Append(chan["server"], f)
    <3>1. \A v : In(Append(chan["server"], f), Nonce(v)) <=> In(chan["server"], Nonce(v))
      BY <2>2, <2>6
    <3> QED BY <2>8, <3>1
  <2> QED BY <2>4, <2>7, <2>8
<1>7. \A v : In(wr'["client"], Answers(v)) <=> In(wr["client"], Answers(v))
  <2>1. CASE s = "client"
    BY <1>3, <1>4, <2>1
  <2>2. CASE s # "client"
    <3>1. wr'["client"] = wr["client"]
      BY <1>5, <2>2, Typed
    <3> QED BY <3>1
  <2> QED BY <2>1, <2>2
<1> QED BY <1>1, <1>6, <1>7

LEMMA WriteHandshake ==
  ASSUME WriteInv, HandshakeInv, NEW s \in Side, WriteStep(s)
  PROVE  HandshakeInv'
<1>1. CASE WriteHeader(s) \/ WriteBody(s)
  <2>1. \A v : UnderWay(v)' => UnderWay(v)
    BY <1>1, MessageWritten DEF UnderWay
  <2> QED BY <1>1, <2>1, MessageWritten, NoHandshake DEF HandshakeInv
<1>2. CASE WriteError(s)
  <2>1. /\ wr[s] # <<>> /\ wr' = [wr EXCEPT ![s] = Tail(@)]
        /\ sock' = [sock EXCEPT ![s] = "closed"]
        /\ UNCHANGED <<connecting, chan, rd, hsOut, validation, delivered>>
    BY <1>2 DEF WriteError, Close, net, reading
  <2>2. \A v : In(wr'["client"], Answers(v)) => In(wr["client"], Answers(v))
    BY <2>1, Typed, WritesAnswers
  <2>3. \A v : UnderWay(v)' => UnderWay(v)
    BY <2>1, <2>2 DEF UnderWay
  <2>4. sock'["server"] = "none" => sock["server"] = "none"
    BY <2>1, Typed
  <2> QED BY <2>1, <2>3, <2>4, NoHandshake DEF HandshakeInv
<1>3. CASE WriteValidation(s)
  <2> DEFINE a == Head(wr[s]).value
  <2>1. /\ wr[s] # <<>> /\ wr' = [wr EXCEPT ![s] = Tail(@)]
        /\ chan' = [chan EXCEPT ![Peer(s)] = Append(@, Nonce(a))]
        /\ rd' = IF s = "client" THEN [rd EXCEPT ![s] = "header"] ELSE rd
        /\ UNCHANGED <<connecting, sock, hsOut, validation, delivered>>
        /\ Head(wr[s]).op = "validation"
    BY <1>3 DEF WriteValidation, Transmit
  <2>2. Head(wr[s]) = Answers(a) /\ a \in Values
    BY <2>1, HandlerOfFront DEF Write, Answers
  <2> HIDE DEF a
  <2>3. Nonce(a) \in Frame
    BY <2>2 DEF Nonce, Frame
  <2>4. CASE s = "server"
    <3>1. /\ chan'["server"] = chan["server"] /\ wr'["client"] = wr["client"] /\ rd' = rd
      BY <2>1, <2>4, Typed DEF Peer
    <3>2. \A v : UnderWay(v)' => UnderWay(v)
      BY <3>1 DEF UnderWay
    <3> QED BY <2>1, <3>1, <3>2, NoHandshake DEF HandshakeInv
  <2>5. CASE s = "client"
    <3>1. /\ chan'["server"] = Append(chan["server"], Nonce(a))
          /\ wr'["client"] = Tail(wr["client"])
          /\ rd'["client"] = "header" /\ rd'["server"] = rd["server"]
      BY <2>1, <2>5, Typed DEF Peer
    <3>2. UnderWay(a)
      BY <2>1, <2>2, <2>5, WritesAnswers DEF UnderWay
    <3>3. \A v : Nonce(v) = Nonce(a) => v = a
      <4>1. \A v : Nonce(v).value = v
        BY DEF Nonce
      <4> QED BY <4>1
    <3>4. \A v : In(chan'["server"], Nonce(v)) => In(chan["server"], Nonce(v)) \/ v = a
      BY <2>3, <3>1, <3>3, Typed, InAppend
    <3>5. \A v : In(wr'["client"], Answers(v)) => In(wr["client"], Answers(v))
      BY <2>1, <2>5, <3>1, WritesAnswers
    <3>6. \A v : UnderWay(v)' => UnderWay(v)
      BY <3>2, <3>4, <3>5 DEF UnderWay
    <3>7. ~connecting
      BY <3>2 DEF HandshakeInv, Unanswered
    <3> QED BY <2>1, <3>1, <3>6, <3>7, NoHandshake
  <2> QED BY <2>4, <2>5 DEF Side
<1> QED BY <1>1, <1>2, <1>3 DEF WriteStep

LEMMA PostedHandshake ==
  ASSUME WriteInv, HandshakeInv, NEW s \in Side, PostedStep(s)
  PROVE  HandshakeInv'
<1>1. /\ UNCHANGED <<connecting, chan, rd, hsOut, validation, delivered>>
      /\ sock' \in {sock, [sock EXCEPT ![s] = "closed"]}
  BY DEF PostedStep, PostedSend, PostedClose, Close, net, reading
<1>2. sock'["server"] = "none" => sock["server"] = "none"
  BY <1>1, Typed
<1>3. \A v : UnderWay(v)' => UnderWay(v)
  BY <1>1, PostedAnswers DEF UnderWay
<1> QED BY <1>1, <1>2, <1>3, NoHandshake DEF HandshakeInv

LEMMA ReadHandshake ==
  ASSUME WriteInv, HandshakeInv, NEW s \in Side, ReadHeader(s) \/ ReadBody(s) \/ ReadError(s)
  PROVE  HandshakeInv'
<1>1. CASE ReadHeader(s) \/ ReadBody(s)
  <2>1. /\ rd[s] \in {"header", "body"} /\ chan[s] # <<>>
        /\ chan' = [chan EXCEPT ![s] = Tail(@)]
        /\ UNCHANGED <<connecting, sock, wr, hsOut, validation>>
        /\ \/ UNCHANGED <<rd, delivered>>
           \/ rd' = [rd EXCEPT ![s] = "body"] /\ UNCHANGED delivered
           \/ \E m : /\ delivered' = [delivered EXCEPT ![s] = Append(@, m)]
                     /\ rd' = [rd EXCEPT ![s] = "header"]
    BY <1>1 DEF ReadHeader, ReadBody, CanRead, Consume, AddToIncomingMessageQueue, writing
  <2>2. /\ rd'[s] \in {"header", "body"}
        /\ \A r \in Side : r # s => rd'[r] = rd[r] /\ delivered'[r] = delivered[r]
    BY <2>1, Typed
  <2>3. \A v : In(chan'["server"], Nonce(v)) => In(chan["server"], Nonce(v))
    <3>1. chan'["server"] = IF s = "server" THEN Tail(chan["server"]) ELSE chan["server"]
      BY <2>1, Typed
    <3> QED BY <2>1, <3>1, Typed, InTail
  <2>4. \A v : UnderWay(v)' => UnderWay(v)
    BY <2>1, <2>3 DEF UnderWay
  <2>5. CASE s = "server"
    <3>1. validation = "ok"
      BY <2>1, <2>5 DEF HandshakeInv
    <3>2. rd'["client"] = rd["client"]
      BY <2>2, <2>5, Typed
    <3> QED BY <2>1, <2>2, <2>4, <2>5, <3>1, <3>2, NoHandshake DEF HandshakeInv
  <2>6. CASE s = "client"
    <3>1. ~connecting
      BY <2>1, <2>6 DEF HandshakeInv
    <3>2. rd'["server"] = rd["server"] /\ delivered'["server"] = delivered["server"]
      BY <2>2, <2>6, Typed
    <3> QED BY <2>1, <2>2, <2>4, <2>6, <3>1, <3>2, NoHandshake
  <2> QED BY <2>5, <2>6 DEF Side
<1>2. CASE ReadError(s)
  <2>1. /\ rd' = [rd EXCEPT ![s] = "none"]
        /\ sock' \in {sock, [sock EXCEPT ![s] = "closed"]}
        /\ UNCHANGED <<connecting, chan, wr, hsOut, validation, delivered>>
    BY <1>2 DEF ReadError, Close, net, writing
  <2>2. /\ rd'["client"] \in {"none", rd["client"]} /\ rd'["server"] \in {"none", rd["server"]}
        /\ sock'["server"] = "none" => sock["server"] = "none"
    BY <2>1, Typed
  <2>3. \A v : UnderWay(v)' => UnderWay(v)
    BY <2>1 DEF UnderWay
  <2> QED BY <2>1, <2>2, <2>3, NoHandshake DEF HandshakeInv
<1> QED BY <1>1, <1>2

LEMMA HandshakeNext == WriteInv /\ HandshakeInv /\ [Next]_vars => HandshakeInv'
<1> SUFFICES ASSUME WriteInv, HandshakeInv, [Next]_vars PROVE HandshakeInv'
  OBVIOUS
<1>1. CASE UNCHANGED vars
  <2>1. /\ UNCHANGED <<connecting, sock, chan, rd, wr, hsOut, validation, delivered>>
        /\ \A v : UnderWay(v)' => UnderWay(v)
    BY <1>1 DEF vars, UnderWay
  <2> QED BY <2>1, NoHandshake DEF HandshakeInv
<1>2. CASE Network \/ Application
  BY <1>2, NetworkAndApplication
<1>3. ASSUME NEW s \in Side,
             Connecting(s) \/ WriteStep(s) \/ ReadStep(s) \/ PostedStep(s)
      PROVE  HandshakeInv'
  BY <1>3, ConnectingHandshake, ChallengeAnswered, AnswerRead, WriteHandshake, ReadHandshake,
     PostedHandshake DEF ReadStep, Handshake
<1> QED BY <1>1, <1>2, <1>3 DEF Next

(***************************************************************************)
(* Whatever the client sends and when, whatever is lost or closed: the     *)
(* server application hears nothing before the client's answer, and that   *)
(* answer was the scrambled challenge.                                     *)
(***************************************************************************)
THEOREM ValidatedBeforeHeard == Spec => []OnlyValidatedHeard
<1>1. HandshakeInv => OnlyValidatedHeard
  BY DEF HandshakeInv, OnlyValidatedHeard
<1> QED BY <1>1, WriteInit, WriteInvNext, HandshakeInit, HandshakeNext, PTL DEF Spec

-----------------------------------------------------------------------------
(***************************************************************************)
(* ReaderArmed, one end at a time.  It rests on the handshake: a read that *)
(* is issued is not another one overwritten, and after its answer has gone *)
(* out the client writes no other.                                         *)
(***************************************************************************)
Listens(s) == rd[s] \in {"header", "body"} \/ Has(posted[s], "close")
ArmedEnd(s) == sock[s] = "open" /\ HandshakeOver(s) => Listens(s)

LEMMA ReaderBySide == ASSUME TypeOK PROVE ReaderArmed <=> \A s \in Side : ArmedEnd(s)
<1>1. \A s \in Side : DOMAIN posted[s] = 1 .. Len(posted[s])
  BY DEF TypeOK
<1> QED BY <1>1 DEF ReaderArmed, ArmedEnd, Listens, Has

(* An end that is not concerned. *)
LEMMA ArmedStays ==
  ASSUME NEW s \in Side, ArmedEnd(s),
         sock'[s] = "open" => sock[s] = "open",
         rd'[s] = rd[s] \/ {rd[s], rd'[s]} \subseteq {"header", "body"},
         Has(posted[s], "close") => Has(posted'[s], "close"),
         wr'[s] = wr[s], hsOut'[s] = hsOut[s], validation' = validation
  PROVE  ArmedEnd(s)'
<1>1. HandshakeOver(s)' => HandshakeOver(s)
  BY DEF HandshakeOver
<1> QED BY <1>1 DEF ArmedEnd, Listens

(* The steps of one end leave the other alone. *)
LEMMA OtherEnd ==
  ASSUME WriteInv, NEW s \in Side, NEW r \in Side, r # s, ArmedEnd(r),
         Connecting(s) \/ WriteStep(s) \/ ReadStep(s) \/ PostedStep(s)
  PROVE  ArmedEnd(r)'
<1>1. CASE Connecting(s)
  <2>1. /\ sock'[r] = sock[r] /\ rd'[r] = rd[r] /\ posted'[r] = posted[r]
        /\ wr'[r] = wr[r] /\ hsOut'[r] = hsOut[r] /\ validation' = validation
    <3>1. CASE s = "client"
      BY <1>1, <3>1, Typed DEF Connecting, ConnectToServer, writing, app
    <3>2. CASE s = "server"
      <4>1. /\ \E x : sock' = [sock EXCEPT !["server"] = x]
            /\ UNCHANGED wr \/ \E x : wr' = [wr EXCEPT !["server"] = x]
            /\ UNCHANGED rd \/ \E x : rd' = [rd EXCEPT !["server"] = x]
            /\ \E x : hsOut' = [hsOut EXCEPT !["server"] = x]
            /\ UNCHANGED <<posted, validation>>
        BY <1>1, <3>2 DEF Connecting, ConnectToClient, Close, app
      <4> QED BY <3>2, <4>1, Typed
    <3> QED BY <3>1, <3>2 DEF Side
  <2> QED BY <2>1, ArmedStays
<1>2. CASE Handshake(s)
  <2>1. /\ sock'[r] = sock[r] /\ rd'[r] = rd[r] /\ posted'[r] = posted[r]
        /\ wr'[r] = wr[r] /\ hsOut'[r] = hsOut[r]
        /\ r = "server" => validation' = validation
    BY <1>2, Typed DEF Handshake, ReadChallenge, ReadAnswer, writing, app
  <2>2. HandshakeOver(r)' => HandshakeOver(r)
    BY <2>1 DEF HandshakeOver
  <2> QED BY <2>1, <2>2 DEF ArmedEnd, Listens
<1>3. CASE WriteStep(s)
  <2>1. /\ sock'[r] = sock[r] /\ rd'[r] = rd[r] /\ posted'[r] = posted[r]
        /\ wr'[r] = wr[r] /\ hsOut'[r] = hsOut[r] /\ validation' = validation
    BY <1>3, Typed DEF WriteStep, WriteValidation, WriteHeader, WriteBody, WriteError,
                       WriteNext, Close, reading, app
  <2> QED BY <2>1, ArmedStays
<1>4. CASE ReadHeader(s) \/ ReadBody(s) \/ ReadError(s)
  <2>1. /\ sock'[r] = sock[r] /\ rd'[r] = rd[r] /\ posted'[r] = posted[r]
        /\ wr'[r] = wr[r] /\ hsOut'[r] = hsOut[r] /\ validation' = validation
    BY <1>4, Typed DEF ReadHeader, ReadBody, ReadError, AddToIncomingMessageQueue, Close,
                       writing, app
  <2> QED BY <2>1, ArmedStays
<1>5. CASE PostedStep(s)
  <2>1. /\ sock'[r] = sock[r] /\ rd'[r] = rd[r] /\ posted'[r] = posted[r]
        /\ wr'[r] = wr[r] /\ hsOut'[r] = hsOut[r] /\ validation' = validation
    BY <1>5, Typed DEF PostedStep, PostedSend, PostedClose, Close, reading, writing
  <2> QED BY <2>1, ArmedStays
<1> QED BY <1>1, <1>2, <1>3, <1>4, <1>5 DEF ReadStep

LEMMA ArmedOutside ==
  ASSUME WriteInv, NEW s \in Side, ArmedEnd(s), Network \/ Application
  PROVE  ArmedEnd(s)'
<1>1. UNCHANGED <<sock, rd, wr, hsOut, validation>>
  BY DEF Network, Establish, Reset, Application, Send, EchoMessage, Disconnect, StopContext,
         net, reading, writing, app
<1>2. Has(posted[s], "close") => Has(posted'[s], "close")
  <2>1. ASSUME NEW r \in Side, NEW f \in Posted, Post(r, f)
        PROVE  Has(posted[s], "close") => Has(posted'[s], "close")
    <3>1. posted[s] \in Seq(Posted) /\ posted'[s] \in {posted[s], Append(posted[s], f)}
      BY <2>1, Typed DEF Post
    <3>2. Has(posted[s], "close") => Has(Append(posted[s], f), "close")
      BY <3>1, HasAppend
    <3> QED BY <3>1, <3>2
  <2>2. CASE \E r \in Side, size \in Sizes : Send(r, size)
    <3>1. PICK r \in Side, size \in Sizes : Send(r, size)
      BY <2>2
    <3> DEFINE f == [fn |-> "send", msg |-> NewMsg(Len(sent[r]) + 1, size)]
    <3>2. f \in Posted
      BY NewMsgType, TrafficAssumption DEF WriteInv, TypeOK, Posted
    <3>3. Post(r, f)
      BY <3>1 DEF Send
    <3> HIDE DEF f
    <3> QED BY <2>1, <3>2, <3>3
  <2>3. CASE EchoMessage
    <3> DEFINE f == [fn |-> "send", msg |-> delivered["server"][handled + 1]]
    <3>1. f \in Posted
      BY <2>3 DEF EchoMessage, WriteInv, TypeOK, Posted, Side
    <3>2. Post("server", f) \/ UNCHANGED posted
      BY <2>3 DEF EchoMessage
    <3> HIDE DEF f
    <3> QED BY <2>1, <3>1, <3>2, Typed
  <2>4. CASE Disconnect
    <3>1. [fn |-> "close"] \in Posted
      BY DEF Posted
    <3>2. Post("client", [fn |-> "close"]) \/ UNCHANGED posted
      BY <2>4 DEF Disconnect
    <3> QED BY <2>1, <3>1, <3>2, Typed
  <2>5. CASE StopContext \/ Network
    BY <2>5 DEF StopContext, Network, Establish, Reset, app
  <2> QED BY <2>2, <2>3, <2>4, <2>5 DEF Application
<1> QED BY <1>1, <1>2, ArmedStays

-----------------------------------------------------------------------------
(* The end that takes the step. *)
LEMMA ConnectingArmed ==
  ASSUME WriteInv, HandshakeInv, NEW s \in Side, ArmedEnd(s), Connecting(s)
  PROVE  ArmedEnd(s)'
<1>1. CASE s = "client"
  <2>1. /\ connecting /\ UNCHANGED <<sock, wr, posted, hsOut, validation>>
    BY <1>1 DEF Connecting, ConnectToServer, writing, app
  <2>2. rd[s] = "none"
    BY <1>1, <2>1 DEF HandshakeInv
  <2>3. HandshakeOver(s)' => HandshakeOver(s)
    BY <1>1, <2>1 DEF HandshakeOver
  <2> QED BY <2>1, <2>2, <2>3 DEF ArmedEnd, Listens
<1>2. CASE s = "server"
  <2>1. validation = "pending" /\ UNCHANGED validation
    BY <1>2 DEF Connecting, ConnectToClient, HandshakeInv
  <2> QED BY <1>2, <2>1 DEF ArmedEnd, HandshakeOver
<1> QED BY <1>1, <1>2 DEF Side

LEMMA HandshakeArmed ==
  ASSUME WriteInv, HandshakeInv, NEW s \in Side, ArmedEnd(s), Handshake(s)
  PROVE  ArmedEnd(s)'
<1>1. CASE s = "client"
  <2> DEFINE a == Answer(ValueOf(Head(chan["client"])))
             w == wr["client"]
             v == [op |-> "validation", value |-> a]
  <2>1. wr' = [wr EXCEPT !["client"] = Append(@, v)]
    BY <1>1 DEF Handshake, ReadChallenge
  <2>2. w \in Seq(Write) /\ v.op = "validation"
    BY Typed
  <2>3. wr'["client"] = Append(w, v)
    BY <2>1, Typed
  <2> HIDE DEF v, w
  <2>4. Len(Append(w, v)) \in 1 .. Len(Append(w, v)) /\ Append(w, v)[Len(Append(w, v))] = v
    BY <2>2
  <2>5. ~HandshakeOver(s)'
    BY <1>1, <2>2, <2>3, <2>4 DEF HandshakeOver
  <2> QED BY <2>5 DEF ArmedEnd
<1>2. CASE s = "server"
  <2>1. \/ rd'["server"] = "header"
        \/ validation' = "failed"
    BY <1>2, Typed DEF Handshake, ReadAnswer
  <2> QED BY <1>2, <2>1 DEF ArmedEnd, Listens, HandshakeOver
<1> QED BY <1>1, <1>2 DEF Side

(* The client's writes without a validation, as In counts them. *)
LEMMA NoValidationLeft ==
  ASSUME NEW w \in Seq(Write)
  PROVE  (\A i \in 1 .. Len(w) : w[i].op # "validation") <=> \A v : ~In(w, Answers(v))
<1>1. DOMAIN w = 1 .. Len(w) /\ \A i \in 1 .. Len(w) : w[i] \in Write
  OBVIOUS
<1>2. \A i \in 1 .. Len(w) : w[i].op = "validation" => w[i] = Answers(w[i].value)
  BY <1>1 DEF Write, Answers
<1>3. \A v : Answers(v).op = "validation"
  BY DEF Answers
<1>4. ASSUME NEW i \in 1 .. Len(w), w[i].op = "validation" PROVE \E v : In(w, Answers(v))
  <2>1. In(w, Answers(w[i].value))
    BY <1>1, <1>2, <1>4 DEF In
  <2> QED BY <2>1
<1>5. ASSUME NEW v, In(w, Answers(v)) PROVE \E i \in 1 .. Len(w) : w[i].op = "validation"
  BY <1>1, <1>3, <1>5 DEF In
<1> QED BY <1>4, <1>5

LEMMA WriteArmed ==
  ASSUME WriteInv, WriteInv', HandshakeInv, NEW s \in Side, ArmedEnd(s), WriteStep(s)
  PROVE  ArmedEnd(s)'
<1>1. CASE WriteHeader(s) \/ WriteBody(s)
  <2>1. UNCHANGED <<sock, rd, posted, hsOut, validation>>
    BY <1>1, MessageWritten
  <2>2. HandshakeOver(s)' => HandshakeOver(s)
    <3>1. wr["client"] \in Seq(Write) /\ wr'["client"] \in Seq(Write)
      BY DEF WriteInv, TypeOK, Side
    <3>2. (\A i \in 1 .. Len(wr'["client"]) : wr'["client"][i].op # "validation")
            => \A i \in 1 .. Len(wr["client"]) : wr["client"][i].op # "validation"
      BY <1>1, <3>1, MessageWritten, NoValidationLeft
    <3> QED BY <2>1, <3>2 DEF HandshakeOver
  <2> QED BY <2>1, <2>2 DEF ArmedEnd, Listens
<1>2. CASE WriteValidation(s)
  <2>1. UNCHANGED <<sock, posted, hsOut, validation>>
    BY <1>2 DEF WriteValidation, app
  <2>2. CASE s = "client"
    <3>1. rd'[s] = "header"
      BY <1>2, <2>2, Typed DEF WriteValidation
    <3> QED BY <3>1 DEF ArmedEnd, Listens
  <2>3. CASE s = "server"
    <3>1. UNCHANGED rd
      BY <1>2, <2>3 DEF WriteValidation
    <3> QED BY <2>1, <2>3, <3>1 DEF ArmedEnd, Listens, HandshakeOver
  <2> QED BY <2>2, <2>3 DEF Side
<1>3. CASE WriteError(s)
  <2>1. sock'[s] = "closed"
    BY <1>3, Typed DEF WriteError, Close
  <2> QED BY <2>1 DEF ArmedEnd
<1> QED BY <1>1, <1>2, <1>3 DEF WriteStep

LEMMA ReadArmed ==
  ASSUME WriteInv, HandshakeInv, NEW s \in Side, ArmedEnd(s),
         ReadHeader(s) \/ ReadBody(s) \/ ReadError(s)
  PROVE  ArmedEnd(s)'
<1>1. CASE ReadHeader(s) \/ ReadBody(s)
  <2>1. rd[s] \in {"header", "body"} /\ rd' \in {rd, [rd EXCEPT ![s] = "body"], [rd EXCEPT ![s] = "header"]}
    BY <1>1 DEF ReadHeader, ReadBody, AddToIncomingMessageQueue
  <2>2. rd'[s] \in {"header", "body"}
    BY <2>1, Typed
  <2> QED BY <2>2 DEF ArmedEnd, Listens
<1>2. CASE ReadError(s)
  <2>1. CASE rd[s] = "header"
    <3> DEFINE f == [fn |-> "close"]
    <3>1. posted' = [posted EXCEPT ![s] = Append(@, f)] /\ f \in Posted /\ f.fn = "close"
      BY <1>2, <2>1 DEF ReadError, Posted
    <3> HIDE DEF f
    <3>2. posted'[s] = Append(posted[s], f) /\ posted[s] \in Seq(Posted)
      BY <3>1, Typed
    <3>3. Has(Append(posted[s], f), "close")
      BY <3>1, <3>2, HasAppend
    <3> QED BY <3>2, <3>3 DEF ArmedEnd, Listens
  <2>2. CASE rd[s] # "header"
    <3>1. sock'[s] = "closed"
      BY <1>2, <2>2, Typed DEF ReadError, Close
    <3> QED BY <3>1 DEF ArmedEnd
  <2> QED BY <2>1, <2>2
<1> QED BY <1>1, <1>2

LEMMA PostedArmed ==
  ASSUME WriteInv, WriteInv', NEW s \in Side, ArmedEnd(s), PostedStep(s)
  PROVE  ArmedEnd(s)'
<1>1. CASE PostedClose(s)
  <2>1. sock'[s] = "closed"
    BY <1>1, Typed DEF PostedClose, Close
  <2> QED BY <2>1 DEF ArmedEnd
<1>2. CASE PostedSend(s)
  <2>1. /\ UNCHANGED <<sock, rd, hsOut, validation>>
        /\ posted[s] # <<>> /\ Head(posted[s]).fn = "send"
        /\ posted' = [posted EXCEPT ![s] = Tail(@)]
    BY <1>2 DEF PostedSend, reading
  <2>2. posted'[s] = Tail(posted[s]) /\ posted[s] \in Seq(Posted)
    BY <2>1, Typed
  <2>3. Has(posted[s], "close") => Has(posted'[s], "close")
    BY <2>1, <2>2, HasTail
  <2>4. HandshakeOver(s)' => HandshakeOver(s)
    <3>1. wr["client"] \in Seq(Write) /\ wr'["client"] \in Seq(Write)
      BY DEF WriteInv, TypeOK, Side
    <3>2. (\A i \in 1 .. Len(wr'["client"]) : wr'["client"][i].op # "validation")
            => \A i \in 1 .. Len(wr["client"]) : wr["client"][i].op # "validation"
      BY <3>1, PostedAnswers, NoValidationLeft
    <3> QED BY <2>1, <3>2 DEF HandshakeOver
  <2> QED BY <2>1, <2>3, <2>4 DEF ArmedEnd, Listens
<1> QED BY <1>1, <1>2 DEF PostedStep

-----------------------------------------------------------------------------
ArmedEnds == \A s \in Side : ArmedEnd(s)
ReaderInv == WriteInv /\ HandshakeInv /\ ArmedEnds

LEMMA ReaderInit == Init => ReaderInv
<1> SUFFICES ASSUME Init PROVE ReaderInv
  OBVIOUS
<1>1. hsOut["client"] = Garbage /\ validation = "pending"
  BY DEF Init, Side
<1>2. ArmedEnds
  BY <1>1 DEF ArmedEnds, ArmedEnd, HandshakeOver
<1> QED BY <1>2, WriteInit, HandshakeInit DEF ReaderInv

LEMMA ReaderNext == ReaderInv /\ [Next]_vars => ReaderInv'
<1> SUFFICES ASSUME ReaderInv, [Next]_vars PROVE ReaderInv'
  OBVIOUS
<1>1. WriteInv /\ HandshakeInv /\ WriteInv' /\ HandshakeInv'
  BY WriteInvNext, HandshakeNext DEF ReaderInv
<1>2. ASSUME NEW r \in Side PROVE ArmedEnd(r)'
  <2>1. ArmedEnd(r)
    BY DEF ReaderInv, ArmedEnds
  <2>2. CASE UNCHANGED vars
    BY <2>1, <2>2, ArmedStays DEF vars
  <2>3. CASE Network \/ Application
    BY <1>1, <2>1, <2>3, ArmedOutside
  <2>4. ASSUME NEW s \in Side,
               Connecting(s) \/ WriteStep(s) \/ ReadStep(s) \/ PostedStep(s)
        PROVE  ArmedEnd(r)'
    <3>1. CASE s # r
      BY <1>1, <2>1, <2>4, <3>1, OtherEnd
    <3>2. CASE s = r
      BY <1>1, <2>1, <2>4, <3>2, ConnectingArmed, HandshakeArmed, WriteArmed, ReadArmed,
         PostedArmed DEF ReadStep
    <3> QED BY <3>1, <3>2
  <2> QED BY <2>2, <2>3, <2>4 DEF Next
<1> QED BY <1>1, <1>2 DEF ReaderInv, ArmedEnds

(***************************************************************************)
(* Once its handshake is over, an end with an open socket never stops      *)
(* listening, whatever it sends, receives or fails at.                     *)
(***************************************************************************)
THEOREM ReaderStaysArmed == Spec => []ReaderArmed
<1>1. ReaderInv => ReaderArmed
  BY ReaderBySide DEF ReaderInv, ArmedEnds, WriteInv
<1> QED BY <1>1, ReaderInit, ReaderNext, PTL DEF Spec
=============================================================================
