------------------------ MODULE ConnectionFIFOProofs ------------------------
(***************************************************************************)
(* Each direction of a Connection is a FIFO channel, for any handshake     *)
(* values, sizes, bounds and faults.                                       *)
(*                                                                         *)
(* A message passes through m_qMessagesOut of its sender, after it was     *)
(* posted there, and through the stream to the receiver.  The invariant    *)
(* numbers the messages in each of the three as they were given to Send,   *)
(* without a gap from the last one delivered to the last one posted.       *)
(* Messages built with a body arrive with it, as bodies stay behind their  *)
(* headers in the stream.                                                  *)
(***************************************************************************)
EXTENDS ConnectionHandshakeProofs

-----------------------------------------------------------------------------
(***************************************************************************)
(* A sequence of headers, and of things that carry none, that are those    *)
(* of h after number lo, up to number hi.                                  *)
(***************************************************************************)
NoHeader == [kind |-> "none"]

Numbered(q, h, lo, hi) ==
  \E c \in [0 .. Len(q) -> 0 .. Len(h)] :
    /\ c[0] = lo /\ c[Len(q)] = hi
    /\ \A i \in 1 .. Len(q) :
         IF q[i] = NoHeader THEN c[i] = c[i - 1]
         ELSE c[i] = c[i - 1] + 1 /\ h[c[i]] = q[i]

LEMMA NumberedBy ==
  ASSUME NEW q, NEW h, NEW n, n = Len(q), NEW d \in [0 .. n -> 0 .. Len(h)],
         \A i \in 1 .. n : IF q[i] = NoHeader THEN d[i] = d[i - 1]
                           ELSE d[i] = d[i - 1] + 1 /\ h[d[i]] = q[i]
  PROVE  Numbered(q, h, d[0], d[n])
BY DEF Numbered

LEMMA NumberedEmpty ==
  ASSUME NEW T, NEW h \in Seq(T), NEW n \in 0 .. Len(h), NEW q, q = <<>>
  PROVE  Numbered(q, h, n, n)
<1> DEFINE c == [i \in 0 .. Len(q) |-> n]
<1>1. Len(q) = 0
  OBVIOUS
<1>2. c \in [0 .. Len(q) -> 0 .. Len(h)] /\ c[0] = n /\ c[Len(q)] = n
  BY <1>1
<1> HIDE DEF c
<1> QED BY <1>1, <1>2 DEF Numbered

LEMMA NumberedAppend ==
  ASSUME NEW S, NEW T, NEW q \in Seq(S), NEW x \in S, NEW h \in Seq(T),
         NEW lo, NEW hi, Numbered(q, h, lo, hi)
  PROVE  /\ lo \in 0 .. Len(h) /\ hi \in 0 .. Len(h)
         /\ x = NoHeader => Numbered(Append(q, x), h, lo, hi)
         /\ x # NoHeader /\ hi < Len(h) /\ h[hi + 1] = x =>
              Numbered(Append(q, x), h, lo, hi + 1)
<1> DEFINE n == Len(q)
<1>1. PICK c \in [0 .. n -> 0 .. Len(h)] :
        /\ c[0] = lo /\ c[n] = hi
        /\ \A i \in 1 .. n : IF q[i] = NoHeader THEN c[i] = c[i - 1]
                             ELSE c[i] = c[i - 1] + 1 /\ h[c[i]] = q[i]
  BY DEF Numbered
<1>2. /\ n \in Nat /\ Len(h) \in Nat /\ Len(Append(q, x)) = n + 1
      /\ \A i \in 1 .. n : Append(q, x)[i] = q[i]
      /\ Append(q, x)[n + 1] = x
  OBVIOUS
<1>3. lo \in 0 .. Len(h) /\ hi \in 0 .. Len(h)
  BY <1>1, <1>2
<1>4. ASSUME NEW k \in 0 .. Len(h),
             IF x = NoHeader THEN k = hi ELSE k = hi + 1 /\ h[k] = x
      PROVE  Numbered(Append(q, x), h, lo, k)
  <2> DEFINE d == [i \in 0 .. n + 1 |-> IF i = n + 1 THEN k ELSE c[i]]
  <2>1. d \in [0 .. n + 1 -> 0 .. Len(h)]
    BY <1>2
  <2>2. d[0] = lo /\ d[n + 1] = k /\ \A i \in 0 .. n : d[i] = c[i]
    BY <1>1, <1>2
  <2> HIDE DEF d
  <2>3. ASSUME NEW i \in 1 .. n + 1
        PROVE  IF Append(q, x)[i] = NoHeader THEN d[i] = d[i - 1]
               ELSE d[i] = d[i - 1] + 1 /\ h[d[i]] = Append(q, x)[i]
    <3>1. CASE i = n + 1
      <4>1. i - 1 = n /\ d[i - 1] = hi /\ d[i] = k /\ Append(q, x)[i] = x
        BY <1>1, <1>2, <2>2, <3>1
      <4> QED BY <1>4, <4>1
    <3>2. CASE i # n + 1
      <4>1. i \in 1 .. n /\ i - 1 \in 0 .. n /\ i \in 0 .. n
        BY <1>2, <3>2
      <4>2. d[i] = c[i] /\ d[i - 1] = c[i - 1] /\ Append(q, x)[i] = q[i]
        BY <1>2, <2>2, <4>1
      <4>3. IF q[i] = NoHeader THEN c[i] = c[i - 1]
            ELSE c[i] = c[i - 1] + 1 /\ h[c[i]] = q[i]
        BY <1>1, <4>1
      <4>4. CASE q[i] = NoHeader
        BY <4>2, <4>3, <4>4
      <4>5. CASE q[i] # NoHeader
        BY <4>2, <4>3, <4>5
      <4> QED BY <4>4, <4>5
    <3> QED BY <3>1, <3>2
  <2> QED BY <1>2, <2>1, <2>2, <2>3, NumberedBy
<1>5. ASSUME x # NoHeader, hi < Len(h), h[hi + 1] = x
      PROVE  Numbered(Append(q, x), h, lo, hi + 1)
  <2>1. hi + 1 \in 0 .. Len(h)
    BY <1>2, <1>3, <1>5
  <2> QED BY <1>4, <1>5, <2>1
<1> QED BY <1>3, <1>4, <1>5

LEMMA NumberedTail ==
  ASSUME NEW S, NEW T, NEW q \in Seq(S), q # <<>>, NEW h \in Seq(T),
         NEW lo, NEW hi, Numbered(q, h, lo, hi)
  PROVE  /\ Head(q) = NoHeader => Numbered(Tail(q), h, lo, hi)
         /\ Head(q) # NoHeader =>
              /\ lo < Len(h) /\ h[lo + 1] = Head(q)
              /\ Numbered(Tail(q), h, lo + 1, hi)
<1> DEFINE n == Len(q)
<1>1. PICK c \in [0 .. n -> 0 .. Len(h)] :
        /\ c[0] = lo /\ c[n] = hi
        /\ \A i \in 1 .. n : IF q[i] = NoHeader THEN c[i] = c[i - 1]
                             ELSE c[i] = c[i - 1] + 1 /\ h[c[i]] = q[i]
  BY DEF Numbered
<1>2. /\ n \in Nat \ {0} /\ Len(h) \in Nat /\ Len(Tail(q)) = n - 1 /\ Head(q) = q[1]
      /\ \A i \in 1 .. n - 1 : Tail(q)[i] = q[i + 1]
  BY HeadTailProperties, EmptySeq
<1>3. Numbered(Tail(q), h, c[1], hi)
  <2> DEFINE d == [i \in 0 .. n - 1 |-> c[i + 1]]
  <2>1. d \in [0 .. n - 1 -> 0 .. Len(h)]
    BY <1>2
  <2>2. d[0] = c[1] /\ d[n - 1] = hi /\ \A i \in 0 .. n - 1 : d[i] = c[i + 1]
    BY <1>1, <1>2
  <2> HIDE DEF d
  <2>3. ASSUME NEW i \in 1 .. n - 1
        PROVE  IF Tail(q)[i] = NoHeader THEN d[i] = d[i - 1]
               ELSE d[i] = d[i - 1] + 1 /\ h[d[i]] = Tail(q)[i]
    <3>1. /\ i + 1 \in 1 .. n /\ i - 1 \in 0 .. n - 1 /\ i \in 0 .. n - 1
          /\ (i - 1) + 1 = i /\ (i + 1) - 1 = i
      BY <1>2
    <3>2. d[i] = c[i + 1] /\ d[i - 1] = c[i] /\ Tail(q)[i] = q[i + 1]
      BY <1>2, <2>2, <3>1
    <3>3. IF q[i + 1] = NoHeader THEN c[i + 1] = c[(i + 1) - 1]
          ELSE c[i + 1] = c[(i + 1) - 1] + 1 /\ h[c[i + 1]] = q[i + 1]
      BY <1>1, <3>1
    <3>4. CASE q[i + 1] = NoHeader
      BY <3>1, <3>2, <3>3, <3>4
    <3>5. CASE q[i + 1] # NoHeader
      BY <3>1, <3>2, <3>3, <3>5
    <3> QED BY <3>4, <3>5
  <2> QED BY <1>2, <2>1, <2>2, <2>3, NumberedBy
<1>4. 1 \in 1 .. n /\ 1 \in 0 .. n /\ 0 \in 0 .. n /\ 1 - 1 = 0
  BY <1>2
<1>5. IF Head(q) = NoHeader THEN c[1] = lo ELSE c[1] = lo + 1 /\ h[c[1]] = Head(q)
  BY <1>1, <1>2, <1>4
<1>6. lo \in 0 .. Len(h) /\ c[1] \in 0 .. Len(h)
  BY <1>1, <1>4
<1> QED BY <1>2, <1>3, <1>5, <1>6

(* More is given to Send. *)
LEMMA NumberedMore ==
  ASSUME NEW S, NEW T, NEW q \in Seq(S), NEW h \in Seq(T), NEW y \in T,
         NEW lo, NEW hi, Numbered(q, h, lo, hi)
  PROVE  Numbered(q, Append(h, y), lo, hi)
<1>1. PICK c \in [0 .. Len(q) -> 0 .. Len(h)] :
        /\ c[0] = lo /\ c[Len(q)] = hi
        /\ \A i \in 1 .. Len(q) : IF q[i] = NoHeader THEN c[i] = c[i - 1]
                                  ELSE c[i] = c[i - 1] + 1 /\ h[c[i]] = q[i]
  BY DEF Numbered
<1>2. /\ Len(Append(h, y)) = Len(h) + 1 /\ Len(h) \in Nat /\ Len(q) \in Nat
      /\ \A i \in 1 .. Len(h) : Append(h, y)[i] = h[i]
  OBVIOUS
<1>3. c \in [0 .. Len(q) -> 0 .. Len(Append(h, y))]
  BY <1>2
<1>4. ASSUME NEW i \in 1 .. Len(q), q[i] # NoHeader
      PROVE  c[i] = c[i - 1] + 1 /\ Append(h, y)[c[i]] = q[i]
  <2>1. c[i] = c[i - 1] + 1 /\ h[c[i]] = q[i]
    BY <1>1, <1>4
  <2>2. i \in 0 .. Len(q) /\ i - 1 \in 0 .. Len(q)
    BY <1>2
  <2>3. c[i] \in 1 .. Len(h)
    BY <1>2, <2>1, <2>2
  <2> QED BY <1>2, <2>1, <2>3
<1> QED BY <1>1, <1>3, <1>4 DEF Numbered

-----------------------------------------------------------------------------
(* A function applied along a sequence. *)
Along(q, g) == [i \in 1 .. Len(q) |-> g[q[i]]]

LEMMA AlongAppend ==
  ASSUME NEW S, NEW T, NEW q \in Seq(S), NEW g \in [S -> T], NEW y \in S
  PROVE  /\ Along(q, g) \in Seq(T) /\ Len(Along(q, g)) = Len(q)
         /\ g[y] \in T
         /\ Along(Append(q, y), g) = Append(Along(q, g), g[y])
<1>1. /\ Along(q, g) \in Seq(T) /\ Len(Along(q, g)) = Len(q) /\ Len(q) \in Nat
      /\ g[y] \in T
      /\ \A i \in 1 .. Len(q) : Along(q, g)[i] = g[q[i]]
  BY DEF Along
<1>2. /\ Append(q, y) \in Seq(S) /\ Len(Append(q, y)) = Len(q) + 1
      /\ \A i \in 1 .. Len(q) : Append(q, y)[i] = q[i]
      /\ Append(q, y)[Len(q) + 1] = y
  OBVIOUS
<1>3. /\ Along(Append(q, y), g) \in Seq(T) /\ Len(Along(Append(q, y), g)) = Len(q) + 1
      /\ \A i \in 1 .. Len(q) + 1 : Along(Append(q, y), g)[i] = g[Append(q, y)[i]]
  BY <1>1, <1>2 DEF Along
<1> DEFINE a == Along(q, g)
           b == Along(Append(q, y), g)
           z == g[y]
<1>4. /\ Append(a, z) \in Seq(T) /\ Len(Append(a, z)) = Len(a) + 1
      /\ \A i \in 1 .. Len(a) : Append(a, z)[i] = a[i]
      /\ Append(a, z)[Len(a) + 1] = z
  <2>1. a \in Seq(T) /\ z \in T
    BY <1>1
  <2> HIDE DEF a, z
  <2> QED BY <2>1
<1>5. ASSUME NEW i \in 1 .. Len(b) PROVE b[i] = Append(a, z)[i]
  <2>1. CASE i = Len(q) + 1
    BY <1>1, <1>2, <1>3, <1>4, <2>1
  <2>2. CASE i # Len(q) + 1
    <3>1. i \in 1 .. Len(q) /\ i \in 1 .. Len(q) + 1
      BY <1>1, <1>3, <2>2
    <3> QED BY <1>1, <1>2, <1>3, <1>4, <3>1
  <2> QED BY <2>1, <2>2
<1>6. b \in Seq(T) /\ Append(a, z) \in Seq(T) /\ Len(b) = Len(Append(a, z))
  BY <1>1, <1>3, <1>4
<1> HIDE DEF a, b, z
<1>7. b = Append(a, z)
  BY <1>5, <1>6, SeqEqual
<1> QED BY <1>1, <1>7 DEF a, b, z

LEMMA AlongTail ==
  ASSUME NEW S, NEW T, NEW q \in Seq(S), q # <<>>, NEW g \in [S -> T]
  PROVE  /\ Along(q, g) \in Seq(T) /\ Along(q, g) # <<>>
         /\ Head(q) \in S /\ Head(Along(q, g)) = g[Head(q)]
         /\ Along(Tail(q), g) = Tail(Along(q, g))
<1> DEFINE a == Along(q, g)
           b == Along(Tail(q), g)
<1>1. /\ Tail(q) \in Seq(S) /\ Len(q) \in Nat \ {0} /\ Len(Tail(q)) = Len(q) - 1
      /\ Head(q) = q[1] /\ Head(q) \in S
      /\ \A i \in 1 .. Len(q) - 1 : Tail(q)[i] = q[i + 1]
  BY HeadTailProperties, EmptySeq
<1>2. /\ a \in Seq(T) /\ Len(a) = Len(q) /\ \A i \in 1 .. Len(q) : a[i] = g[q[i]]
  BY DEF Along
<1>3. /\ b \in Seq(T) /\ Len(b) = Len(q) - 1
      /\ \A i \in 1 .. Len(q) - 1 : b[i] = g[Tail(q)[i]]
  BY <1>1 DEF Along
<1>4. a # <<>>
  BY <1>1, <1>2, EmptySeq
<1>5. /\ Tail(a) \in Seq(T) /\ Len(Tail(a)) = Len(a) - 1 /\ Head(a) = a[1]
      /\ \A i \in 1 .. Len(a) - 1 : Tail(a)[i] = a[i + 1]
  <2> HIDE DEF a
  <2> QED BY <1>2, <1>4, HeadTailProperties
<1>6. ASSUME NEW i \in 1 .. Len(b) PROVE b[i] = Tail(a)[i]
  <2>1. i \in 1 .. Len(q) - 1 /\ i + 1 \in 1 .. Len(q) /\ i \in 1 .. Len(a) - 1
    BY <1>1, <1>2, <1>3
  <2> QED BY <1>1, <1>2, <1>3, <1>5, <2>1
<1>7. 1 \in 1 .. Len(q)
  BY <1>1
<1>8. Len(b) = Len(Tail(a)) /\ Head(a) = g[Head(q)]
  BY <1>1, <1>2, <1>3, <1>5, <1>7
<1> HIDE DEF a, b
<1>9. b = Tail(a)
  BY <1>3, <1>5, <1>6, <1>8, SeqEqual
<1> QED BY <1>1, <1>2, <1>4, <1>8, <1>9 DEF a, b

(* Numbering the headers along a queue that grows and shrinks. *)
LEMMA NumberedPush ==
  ASSUME NEW S, NEW T, NEW q \in Seq(S), NEW g \in [S -> T], NEW y \in S, NEW h \in Seq(T),
         NEW lo, NEW hi, Numbered(Along(q, g), h, lo, hi)
  PROVE  /\ lo \in 0 .. Len(h) /\ hi \in 0 .. Len(h)
         /\ g[y] = NoHeader => Numbered(Along(Append(q, y), g), h, lo, hi)
         /\ g[y] # NoHeader /\ hi < Len(h) /\ h[hi + 1] = g[y] =>
              Numbered(Along(Append(q, y), g), h, lo, hi + 1)
<1> DEFINE a == Along(q, g)
           z == g[y]
           b == Along(Append(q, y), g)
<1>1. a \in Seq(T) /\ z \in T /\ b = Append(a, z)
  BY AlongAppend
<1> HIDE DEF a, b, z
<1>2. /\ lo \in 0 .. Len(h) /\ hi \in 0 .. Len(h)
      /\ z = NoHeader => Numbered(Append(a, z), h, lo, hi)
      /\ z # NoHeader /\ hi < Len(h) /\ h[hi + 1] = z => Numbered(Append(a, z), h, lo, hi + 1)
  BY <1>1, NumberedAppend DEF a
<1> QED BY <1>1, <1>2 DEF b, z

(* The headers of messages, of frames and of posted functions. *)
HeaderOrNone == [kind : {"header"}, id : Nat, size : Nat] \cup {NoHeader}
OfMsg == [m \in Msg |-> Header(m)]
OfFrame == [f \in Frame |-> IF f.kind = "header" THEN f ELSE NoHeader]
OfPosted == [p \in Posted |-> IF p.fn = "send" THEN Header(p.msg) ELSE NoHeader]

LEMMA HeaderTypes ==
  /\ OfMsg \in [Msg -> HeaderOrNone]
  /\ OfFrame \in [Frame -> HeaderOrNone]
  /\ OfPosted \in [Posted -> HeaderOrNone]
  /\ \A m \in Msg : Header(m) \in HeaderOrNone /\ Header(m) # NoHeader
<1>1. \A m \in Msg : Header(m) \in HeaderOrNone /\ Header(m) # NoHeader
  <2> SUFFICES ASSUME NEW m \in Msg PROVE Header(m) \in HeaderOrNone /\ Header(m) # NoHeader
    OBVIOUS
  <2>1. Header(m).kind = "header" /\ NoHeader.kind = "none"
    BY DEF Header, NoHeader
  <2> QED BY <2>1 DEF Header, HeaderOrNone, Msg
<1>2. \A f \in Frame : f.kind = "header" => f \in HeaderOrNone
  BY DEF Frame, HeaderOrNone
<1>3. \A p \in Posted : p.fn = "send" => p.msg \in Msg
  BY DEF Posted
<1>4. NoHeader \in HeaderOrNone
  BY DEF HeaderOrNone
<1> QED BY <1>1, <1>2, <1>3, <1>4 DEF OfMsg, OfFrame, OfPosted

LEMMA HeadersAlong ==
  ASSUME NEW q \in Seq(Msg)
  PROVE  HeadersOf(q) = Along(q, OfMsg)
<1>1. \A i \in 1 .. Len(q) : q[i] \in Msg
  OBVIOUS
<1> QED BY <1>1 DEF HeadersOf, Along, OfMsg

-----------------------------------------------------------------------------
(***************************************************************************)
(* One direction: of the headers h given to Send the first d have arrived, *)
(* those after them are in the stream ch, and, as long as the sender's     *)
(* socket is open, the next ones wait to be written in w and the last ones *)
(* in the posted functions po.  None is missing at the end while the io    *)
(* thread of the sender is alive; a dead one drops what is posted to it.   *)
(***************************************************************************)
FlowOf(d, h, ch, open, w, po, alive) ==
  \E b \in 0 .. Len(h) :
    /\ Numbered(Along(ch, OfFrame), h, d, b)
    /\ open => \E e, f \in 0 .. Len(h) :
         /\ Numbered(Along(w, OfMsg), h, b, e)
         /\ Numbered(Along(po, OfPosted), h, e, f)
         /\ alive => f = Len(h)

(* The receiver takes a frame. *)
LEMMA FlowReceive ==
  ASSUME NEW h \in Seq(HeaderOrNone), NEW ch \in Seq(Frame), ch # <<>>,
         NEW d, NEW open, NEW w, NEW po, NEW alive, FlowOf(d, h, ch, open, w, po, alive)
  PROVE  /\ Head(ch).kind # "header" => FlowOf(d, h, Tail(ch), open, w, po, alive)
         /\ Head(ch).kind = "header" =>
              /\ d \in 0 .. Len(h) - 1 /\ h[d + 1] = Head(ch)
              /\ FlowOf(d + 1, h, Tail(ch), open, w, po, alive)
<1> DEFINE a == Along(ch, OfFrame)
<1>1. /\ a \in Seq(HeaderOrNone) /\ a # <<>>
      /\ Along(Tail(ch), OfFrame) = Tail(a)
      /\ Head(ch) \in Frame /\ Head(a) = OfFrame[Head(ch)]
  BY AlongTail, HeaderTypes
<1>2. PICK b \in 0 .. Len(h) :
        /\ Numbered(a, h, d, b)
        /\ open => \E e, f \in 0 .. Len(h) :
             /\ Numbered(Along(w, OfMsg), h, b, e)
             /\ Numbered(Along(po, OfPosted), h, e, f)
             /\ alive => f = Len(h)
  BY DEF FlowOf
<1>3. Head(ch).kind = "header" => Head(a) = Head(ch) /\ Head(a) # NoHeader
  <2>1. NoHeader.kind = "none"
    BY DEF NoHeader
  <2> QED BY <1>1, <2>1 DEF OfFrame
<1>4. Head(ch).kind # "header" => Head(a) = NoHeader
  BY <1>1 DEF OfFrame
<1>5. d \in 0 .. Len(h)
  <2>1. Len(a) \in Nat
    BY <1>1
  <2> HIDE DEF a
  <2>2. 0 \in 0 .. Len(a)
    BY <2>1
  <2> QED BY <1>2, <2>2 DEF Numbered
<1> HIDE DEF a
<1>6. CASE Head(ch).kind # "header"
  <2>1. Numbered(Tail(a), h, d, b)
    BY <1>1, <1>2, <1>4, <1>6, NumberedTail
  <2> QED BY <1>1, <1>2, <1>6, <2>1 DEF FlowOf
<1>7. CASE Head(ch).kind = "header"
  <2>1. d < Len(h) /\ h[d + 1] = Head(ch) /\ Numbered(Tail(a), h, d + 1, b)
    BY <1>1, <1>2, <1>3, <1>7, NumberedTail
  <2>2. FlowOf(d + 1, h, Tail(ch), open, w, po, alive)
    BY <1>1, <1>2, <2>1 DEF FlowOf
  <2>3. d \in 0 .. Len(h) - 1
    BY <1>5, <2>1
  <2> QED BY <1>7, <2>1, <2>2, <2>3
<1> QED BY <1>6, <1>7

(* The sender puts a frame in the stream. *)
LEMMA FlowTransmit ==
  ASSUME NEW h \in Seq(HeaderOrNone), NEW ch \in Seq(Frame), NEW x \in Frame,
         NEW d, NEW w \in Seq(Msg), NEW po, NEW alive, FlowOf(d, h, ch, TRUE, w, po, alive)
  PROVE  /\ x.kind # "header" => FlowOf(d, h, Append(ch, x), TRUE, w, po, alive)
         /\ w # <<>> /\ x = Header(Head(w)) =>
              FlowOf(d, h, Append(ch, x), TRUE, Tail(w), po, alive)
<1> DEFINE a == Along(ch, OfFrame)
           g == Along(w, OfMsg)
<1>1. /\ a \in Seq(HeaderOrNone)
      /\ OfFrame[x] \in HeaderOrNone
      /\ Along(Append(ch, x), OfFrame) = Append(a, OfFrame[x])
  BY AlongAppend, HeaderTypes
<1>2. PICK b \in 0 .. Len(h), e \in 0 .. Len(h), f \in 0 .. Len(h) :
        /\ Numbered(a, h, d, b)
        /\ Numbered(g, h, b, e)
        /\ Numbered(Along(po, OfPosted), h, e, f)
        /\ alive => f = Len(h)
  BY DEF FlowOf
<1>3. x.kind # "header" => OfFrame[x] = NoHeader
  BY DEF OfFrame
<1>4. ASSUME w # <<>>
      PROVE  /\ g \in Seq(HeaderOrNone) /\ g # <<>>
             /\ Along(Tail(w), OfMsg) = Tail(g)
             /\ Head(g) = Header(Head(w)) /\ Head(g) # NoHeader
             /\ Header(Head(w)).kind = "header"
  <2>1. /\ g \in Seq(HeaderOrNone) /\ g # <<>> /\ Along(Tail(w), OfMsg) = Tail(g)
        /\ Head(w) \in Msg /\ Head(g) = OfMsg[Head(w)]
    BY <1>4, AlongTail, HeaderTypes
  <2>2. Head(g) = Header(Head(w))
    BY <2>1 DEF OfMsg
  <2>3. Header(Head(w)).kind = "header"
    BY DEF Header
  <2> QED BY <2>1, <2>2, <2>3, HeaderTypes
<1> HIDE DEF a, g
<1>5. ASSUME x.kind # "header" PROVE FlowOf(d, h, Append(ch, x), TRUE, w, po, alive)
  <2>1. Numbered(Append(a, OfFrame[x]), h, d, b)
    BY <1>1, <1>2, <1>3, <1>5, NumberedAppend
  <2> QED BY <1>1, <1>2, <2>1 DEF FlowOf, g
<1>6. ASSUME w # <<>>, x = Header(Head(w))
      PROVE  FlowOf(d, h, Append(ch, x), TRUE, Tail(w), po, alive)
  <2>1. b < Len(h) /\ h[b + 1] = Head(g) /\ Numbered(Tail(g), h, b + 1, e)
    BY <1>2, <1>4, <1>6, NumberedTail
  <2>2. OfFrame[x] = Head(g) /\ Head(g) # NoHeader
    BY <1>4, <1>6 DEF OfFrame
  <2>3. Numbered(Append(a, OfFrame[x]), h, d, b + 1)
    BY <1>1, <1>2, <2>1, <2>2, NumberedAppend
  <2>4. b + 1 \in 0 .. Len(h)
    BY <2>1
  <2> QED BY <1>1, <1>2, <1>4, <1>6, <2>1, <2>3, <2>4 DEF FlowOf
<1> QED BY <1>5, <1>6

(* The sender runs a posted function: a send queues its message. *)
LEMMA FlowQueue ==
  ASSUME NEW h \in Seq(HeaderOrNone), NEW ch, NEW d, NEW w \in Seq(Msg),
         NEW po \in Seq(Posted), po # <<>>, Head(po).fn = "send", NEW alive,
         FlowOf(d, h, ch, TRUE, w, po, TRUE)
  PROVE  /\ Head(po).msg \in Msg
         /\ FlowOf(d, h, ch, TRUE, Append(w, Head(po).msg), Tail(po), alive)
<1> DEFINE g == Along(w, OfMsg)
           k == Along(po, OfPosted)
           m == Head(po).msg
<1>1. PICK b \in 0 .. Len(h), e \in 0 .. Len(h), f \in 0 .. Len(h) :
        /\ Numbered(Along(ch, OfFrame), h, d, b)
        /\ Numbered(g, h, b, e)
        /\ Numbered(k, h, e, f)
        /\ f = Len(h)
  BY DEF FlowOf
<1>2. /\ k \in Seq(HeaderOrNone) /\ k # <<>> /\ Along(Tail(po), OfPosted) = Tail(k)
      /\ Head(po) \in Posted /\ Head(k) = OfPosted[Head(po)]
  BY AlongTail, HeaderTypes
<1>3. m \in Msg
  BY <1>2 DEF Posted
<1>4. Head(k) = Header(m) /\ Head(k) # NoHeader
  BY <1>2, <1>3, HeaderTypes DEF OfPosted
<1>5. /\ g \in Seq(HeaderOrNone) /\ OfMsg[m] \in HeaderOrNone
      /\ Along(Append(w, m), OfMsg) = Append(g, OfMsg[m])
  BY <1>3, AlongAppend, HeaderTypes
<1>6. OfMsg[m] = Header(m)
  BY <1>3 DEF OfMsg
<1> HIDE DEF g, k, m
<1>7. e < Len(h) /\ h[e + 1] = Head(k) /\ Numbered(Tail(k), h, e + 1, f)
  BY <1>1, <1>2, <1>4, NumberedTail
<1>8. Numbered(Append(g, OfMsg[m]), h, b, e + 1)
  BY <1>1, <1>4, <1>5, <1>6, <1>7, NumberedAppend
<1>9. e + 1 \in 0 .. Len(h)
  BY <1>7
<1>10. FlowOf(d, h, ch, TRUE, Append(w, m), Tail(po), alive)
  BY <1>1, <1>2, <1>5, <1>7, <1>8, <1>9 DEF FlowOf
<1> QED BY <1>3, <1>10 DEF m

(* A close is posted to the sender. *)
LEMMA FlowPostClose ==
  ASSUME NEW h \in Seq(HeaderOrNone), NEW ch, NEW d, NEW w, NEW po \in Seq(Posted),
         NEW x \in Posted, x.fn # "send", NEW open, NEW alive,
         FlowOf(d, h, ch, open, w, po, alive)
  PROVE  FlowOf(d, h, ch, open, w, Append(po, x), alive)
<1> DEFINE l == Along(Append(po, x), OfPosted)
<1>1. OfPosted[x] = NoHeader
  BY DEF OfPosted
<1>2. \A e, f : Numbered(Along(po, OfPosted), h, e, f) => Numbered(l, h, e, f)
  BY <1>1, HeaderTypes, NumberedPush
<1> HIDE DEF l
<1>3. PICK b \in 0 .. Len(h) :
        /\ Numbered(Along(ch, OfFrame), h, d, b)
        /\ open => \E e, f \in 0 .. Len(h) :
             /\ Numbered(Along(w, OfMsg), h, b, e)
             /\ Numbered(Along(po, OfPosted), h, e, f)
             /\ alive => f = Len(h)
  BY DEF FlowOf
<1>4. open => \E e, f \in 0 .. Len(h) :
             /\ Numbered(Along(w, OfMsg), h, b, e)
             /\ Numbered(l, h, e, f)
             /\ alive => f = Len(h)
  BY <1>2, <1>3
<1> QED BY <1>3, <1>4 DEF FlowOf, l

(* A send is posted to the sender, or lost because its thread has ended. *)
LEMMA FlowPost ==
  ASSUME NEW h \in Seq(HeaderOrNone), NEW ch \in Seq(Frame), NEW d, NEW w \in Seq(Msg),
         NEW po \in Seq(Posted), NEW x \in Posted, x.fn = "send", NEW open, NEW alive,
         FlowOf(d, h, ch, open, w, po, alive)
  PROVE  LET g == Append(h, Header(x.msg))
         IN  /\ alive => FlowOf(d, g, ch, open, w, Append(po, x), alive)
             /\ ~alive => FlowOf(d, g, ch, open, w, po, alive)
<1> DEFINE y == Header(x.msg)
           g == Append(h, y)
           a == Along(ch, OfFrame)
           v == Along(w, OfMsg)
           k == Along(po, OfPosted)
           l == Along(Append(po, x), OfPosted)
<1>1. /\ OfPosted[x] = y /\ y \in HeaderOrNone /\ y # NoHeader
  <2>1. x.msg \in Msg
    BY DEF Posted
  <2> QED BY <2>1, HeaderTypes DEF OfPosted
<1>2. a \in Seq(HeaderOrNone) /\ v \in Seq(HeaderOrNone) /\ k \in Seq(HeaderOrNone)
  BY HeaderTypes DEF Along
<1> HIDE DEF y, a, v, k
<1>3. /\ g \in Seq(HeaderOrNone) /\ Len(g) = Len(h) + 1 /\ Len(h) \in Nat
      /\ g[Len(h) + 1] = y
  BY <1>1
<1>4. \A i \in 0 .. Len(h) : i \in 0 .. Len(g)
  BY <1>3
<1>5. PICK b \in 0 .. Len(h) :
        /\ Numbered(a, h, d, b)
        /\ open => \E e, f \in 0 .. Len(h) :
             /\ Numbered(v, h, b, e)
             /\ Numbered(k, h, e, f)
             /\ alive => f = Len(h)
  BY DEF FlowOf, a, v, k
<1>6. Numbered(a, g, d, b)
  BY <1>1, <1>2, <1>5, NumberedMore
<1>7. \A e, f : Numbered(v, h, b, e) /\ Numbered(k, h, e, f) =>
                Numbered(v, g, b, e) /\ Numbered(k, g, e, f)
  BY <1>1, <1>2, NumberedMore
<1>8. ASSUME alive PROVE FlowOf(d, g, ch, open, w, Append(po, x), alive)
  <2>1. ASSUME open
        PROVE  \E e, f \in 0 .. Len(g) :
                 Numbered(v, g, b, e) /\ Numbered(l, g, e, f) /\ (alive => f = Len(g))
    <3>1. PICK e \in 0 .. Len(h), f \in 0 .. Len(h) :
            Numbered(v, h, b, e) /\ Numbered(k, h, e, f) /\ f = Len(h)
      BY <1>5, <1>8, <2>1
    <3>2. Numbered(v, g, b, e) /\ Numbered(k, g, e, f)
      BY <1>7, <3>1
    <3> HIDE DEF g
    <3>3. f < Len(g) /\ g[f + 1] = y /\ f + 1 = Len(g) /\ f + 1 \in 0 .. Len(g)
      BY <1>3, <3>1
    <3>4. Numbered(l, g, e, f + 1)
      BY <1>1, <1>3, <3>2, <3>3, HeaderTypes, NumberedPush DEF k
    <3> QED BY <1>4, <3>1, <3>2, <3>3, <3>4
  <2> HIDE DEF g, l
  <2> QED BY <1>4, <1>6, <2>1 DEF FlowOf, a, v, l
<1>9. ASSUME ~alive PROVE FlowOf(d, g, ch, open, w, po, alive)
  <2> HIDE DEF g
  <2>1. open => \E e, f \in 0 .. Len(g) :
                  Numbered(v, g, b, e) /\ Numbered(k, g, e, f) /\ (alive => f = Len(g))
    BY <1>4, <1>5, <1>7, <1>9
  <2> QED BY <1>4, <1>6, <2>1 DEF FlowOf, a, v, k
<1> QED BY <1>8, <1>9 DEF y

(* The sender's thread ends, or its socket is closed. *)
LEMMA FlowWeaken ==
  ASSUME NEW h, NEW ch, NEW d, NEW w, NEW po, NEW open, NEW alive, NEW o2, NEW a2,
         FlowOf(d, h, ch, open, w, po, alive), o2 => open, a2 => alive
  PROVE  FlowOf(d, h, ch, o2, w, po, a2)
BY DEF FlowOf

(* Nothing is said of the sender once its socket is closed. *)
LEMMA FlowClosed ==
  ASSUME NEW h, NEW ch, NEW d, NEW w, NEW po, NEW open, NEW alive,
         FlowOf(d, h, ch, open, w, po, alive)
  PROVE  \A w2, po2, a2 : FlowOf(d, h, ch, FALSE, w2, po2, a2)
BY DEF FlowOf

-----------------------------------------------------------------------------
(* Which writes are outstanding. *)
HasOp(w, op) == \E i \in DOMAIN w : w[i].op = op

LEMMA HasOpAppend ==
  ASSUME NEW w \in Seq(Write), NEW v \in Write, NEW op
  PROVE  HasOp(Append(w, v), op) <=> HasOp(w, op) \/ v.op = op
<1>1. /\ Append(w, v) \in Seq(Write)
      /\ Len(Append(w, v)) = Len(w) + 1 /\ Len(w) \in Nat
      /\ \A i \in 1 .. Len(w) : Append(w, v)[i] = w[i]
      /\ Append(w, v)[Len(w) + 1] = v
  OBVIOUS
<1>2. DOMAIN w = 1 .. Len(w) /\ DOMAIN Append(w, v) = 1 .. Len(Append(w, v))
  BY <1>1
<1> QED BY <1>1, <1>2 DEF HasOp

LEMMA HasOpTail ==
  ASSUME NEW w \in Seq(Write), w # <<>>, NEW op
  PROVE  HasOp(w, op) <=> Head(w).op = op \/ HasOp(Tail(w), op)
<1>1. /\ DOMAIN w = 1 .. Len(w) /\ Len(w) \in Nat \ {0}
      /\ DOMAIN Tail(w) = 1 .. Len(w) - 1
      /\ \A i \in 1 .. Len(w) - 1 : Tail(w)[i] = w[i + 1]
      /\ Head(w) = w[1]
  BY HeadTailProperties, EmptySeq
<1>2. ASSUME HasOp(w, op), Head(w).op # op PROVE HasOp(Tail(w), op)
  <2>1. PICK i \in DOMAIN w : w[i].op = op
    BY <1>2 DEF HasOp
  <2>2. i - 1 \in DOMAIN Tail(w) /\ Tail(w)[i - 1] = w[i]
    BY <1>1, <1>2, <2>1
  <2> QED BY <2>1, <2>2 DEF HasOp
<1>3. ASSUME HasOp(Tail(w), op) PROVE HasOp(w, op)
  <2>1. PICK i \in DOMAIN Tail(w) : Tail(w)[i].op = op
    BY <1>3 DEF HasOp
  <2>2. i + 1 \in DOMAIN w /\ Tail(w)[i] = w[i + 1]
    BY <1>1, <2>1
  <2> QED BY <2>1, <2>2 DEF HasOp
<1>4. Head(w).op = op => HasOp(w, op)
  BY <1>1 DEF HasOp
<1> QED BY <1>2, <1>3, <1>4

LEMMA HasOpHeaderWrite ==
  ASSUME NEW w \in Seq(Write), NEW q \in Seq(Msg), NEW op, op # "header"
  PROVE  HasOp(w \o HeaderWrite(q), op) <=> HasOp(w, op)
<1>1. CASE q = <<>>
  <2>1. w \o HeaderWrite(q) = w
    BY <1>1, HeaderWriteType, ConcatEmptySeq
  <2> QED BY <2>1
<1>2. CASE q # <<>>
  <2> DEFINE h == [op |-> "header", msg |-> Head(q)]
  <2>1. h \in Write /\ h.op = "header"
    BY <1>2, HeaderWriteType DEF Write
  <2>2. w \o HeaderWrite(q) = Append(w, h)
    BY <1>2, <2>1, HeaderWriteType, AppendIsConcat
  <2> HIDE DEF h
  <2> QED BY <2>1, <2>2, HasOpAppend
<1> QED BY <1>1, <1>2

-----------------------------------------------------------------------------
(***************************************************************************)
(* The invariant of one direction, to the end s.  While the body of the    *)
(* message being written is outstanding, its header has left the queue.    *)
(* A direction flows until it is reset, closed by its receiver or found    *)
(* to come from a client whose validation has failed.                      *)
(***************************************************************************)
H(s) == HeadersOf(sent[Peer(s)])
Waiting(r) == IF HasOp(wr[r], "body") THEN Tail(out[r]) ELSE out[r]
Pending(s) == IF rd[s] = "body" THEN 1 ELSE 0

Got(s) ==
  /\ Len(delivered[s]) <= Len(H(s))
  /\ \A i \in 1 .. Len(delivered[s]) : Header(delivered[s][i]) = H(s)[i]

Half(s) ==
  rd[s] = "body" => /\ Len(delivered[s]) < Len(H(s))
                    /\ Header(tmp[s]) = H(s)[Len(delivered[s]) + 1]

Flowing(s) ==
  /\ link # "reset" /\ ~desync /\ sock[s] # "closed"
  /\ s = "server" => validation # "failed"

Flow(s) ==
  FlowOf(Len(delivered[s]) + Pending(s), H(s), chan[s], sock[Peer(s)] # "closed",
         Waiting(Peer(s)), posted[Peer(s)], IOAlive(Peer(s)))

Direction(s) == Got(s) /\ Half(s) /\ (Flowing(s) => Flow(s))

LEMMA DirectionTypes ==
  ASSUME WriteInv, NEW s \in Side
  PROVE  /\ Peer(s) \in Side /\ Peer(s) # s /\ Peer(Peer(s)) = s
         /\ H(s) \in Seq(HeaderOrNone) /\ Len(H(s)) = Len(sent[Peer(s)]) /\ Len(H(s)) \in Nat
         /\ sent[Peer(s)] \in Seq(Msg) /\ delivered[s] \in Seq(Msg)
         /\ chan[s] \in Seq(Frame)
         /\ Len(delivered[s]) \in Nat
         /\ tmp[s] \in Msg
         /\ posted[Peer(s)] \in Seq(Posted)
         /\ wr[Peer(s)] \in Seq(Write) /\ out[Peer(s)] \in Seq(Msg)
         /\ Waiting(Peer(s)) \in Seq(Msg)
<1>1. Peer(s) \in Side /\ Peer(s) # s /\ Peer(Peer(s)) = s
  BY DEF Peer, Side
<1>2. /\ sent[Peer(s)] \in Seq(Msg) /\ delivered[s] \in Seq(Msg) /\ chan[s] \in Seq(Frame)
      /\ tmp[s] \in Msg /\ posted[Peer(s)] \in Seq(Posted)
      /\ wr[Peer(s)] \in Seq(Write) /\ out[Peer(s)] \in Seq(Msg)
  BY <1>1 DEF WriteInv, TypeOK
<1>3. /\ H(s) \in Seq(HeaderOrNone) /\ Len(H(s)) = Len(sent[Peer(s)]) /\ Len(H(s)) \in Nat
      /\ Len(delivered[s]) \in Nat
  BY <1>2, HeaderTypes DEF H, HeadersOf
<1>4. Waiting(Peer(s)) \in Seq(Msg)
  <2>1. CASE HasOp(wr[Peer(s)], "body")
    <3>1. PICK i \in 1 .. Len(wr[Peer(s)]) : wr[Peer(s)][i].op = "body"
      BY <1>2, <2>1 DEF HasOp
    <3>2. out[Peer(s)] # <<>>
      BY <1>1, <3>1 DEF WriteInv, OneMessageWrite, IsMessageWrite
    <3> QED BY <1>2, <2>1, <3>2, HeadTailProperties DEF Waiting
  <2> QED BY <1>2, <2>1 DEF Waiting
<1> QED BY <1>1, <1>2, <1>3, <1>4

(* A step that moves nothing in this direction, or ends it. *)
LEMMA DirectionIdle ==
  ASSUME NEW s \in Side, NEW r, r = Peer(s), Direction(s),
         delivered'[s] = delivered[s], tmp'[s] = tmp[s], sent'[r] = sent[r],
         rd'[s] = "body" => rd[s] = "body",
         Flowing(s)' =>
           /\ Flowing(s)
           /\ chan'[s] = chan[s]
           /\ rd[s] = "body" => rd'[s] = "body"
           /\ sock'[r] # "closed" =>
                /\ sock[r] # "closed"
                /\ Waiting(r)' = Waiting(r)
                /\ posted'[r] = posted[r]
                /\ IOAlive(r)' => IOAlive(r)
  PROVE  Direction(s)'
<1>1. H(s)' = H(s)
  BY DEF H
<1>2. Got(s)' /\ Half(s)'
  BY <1>1 DEF Direction, Got, Half
<1>3. ASSUME Flowing(s)' PROVE Flow(s)'
  <2>1. Flow(s)
    BY <1>3 DEF Direction
  <2>2. Pending(s)' = Pending(s)
    BY <1>3 DEF Pending
  <2> DEFINE d == Len(delivered[s]) + Pending(s)
             h == H(s)
             ch == chan[s]
  <2>3. FlowOf(d, h, ch, sock[r] # "closed", Waiting(r), posted[r], IOAlive(r))
    BY <2>1 DEF Flow
  <2>4. d' = d /\ h' = h /\ ch' = ch
    BY <1>1, <1>3, <2>2
  <2> HIDE DEF d, h, ch
  <2>5. FlowOf(d, h, ch, sock'[r] # "closed", Waiting(r)', posted'[r], IOAlive(r)')
    <3>1. CASE sock'[r] = "closed"
      <4>1. ~(sock'[r] # "closed")
        BY <3>1
      <4> QED BY <2>3, <4>1 DEF FlowOf
    <3>2. CASE sock'[r] # "closed"
      <4>1. /\ sock[r] # "closed" /\ Waiting(r)' = Waiting(r) /\ posted'[r] = posted[r]
            /\ IOAlive(r)' => IOAlive(r)
        BY <1>3, <3>2
      <4> DEFINE o == sock[r] # "closed"
                 o2 == sock'[r] # "closed"
                 a == IOAlive(r)
                 a2 == IOAlive(r)'
      <4>2. FlowOf(d, h, ch, o, Waiting(r)', posted'[r], a) /\ (o2 => o) /\ (a2 => a)
        BY <2>3, <4>1
      <4> HIDE DEF o, o2, a, a2
      <4>3. FlowOf(d, h, ch, o2, Waiting(r)', posted'[r], a2)
        BY <4>2 DEF FlowOf
      <4> QED BY <4>3 DEF o2, a2
    <3> QED BY <3>1, <3>2
  <2>6. FlowOf(d', h', ch', sock'[r] # "closed", Waiting(r)', posted'[r], IOAlive(r)')
    BY <2>4, <2>5
  <2> QED BY <2>6 DEF Flow, d, h, ch
<1> QED BY <1>2, <1>3 DEF Direction

-----------------------------------------------------------------------------
(* At most one answer among the writes of an end. *)
SingleAnswer(w) ==
  \A i, j \in DOMAIN w : w[i].op = "validation" /\ w[j].op = "validation" => i = j

LEMMA SingleAppend ==
  ASSUME NEW w \in Seq(Write), NEW v \in Write, SingleAnswer(w),
         v.op = "validation" => ~HasOp(w, "validation")
  PROVE  SingleAnswer(Append(w, v))
<1>1. /\ Append(w, v) \in Seq(Write)
      /\ Len(Append(w, v)) = Len(w) + 1 /\ Len(w) \in Nat
      /\ \A i \in 1 .. Len(w) : Append(w, v)[i] = w[i]
      /\ Append(w, v)[Len(w) + 1] = v
  OBVIOUS
<1>2. DOMAIN w = 1 .. Len(w) /\ DOMAIN Append(w, v) = 1 .. Len(Append(w, v))
  BY <1>1
<1>3. v.op = "validation" => \A i \in 1 .. Len(w) : w[i].op # "validation"
  BY <1>2 DEF HasOp
<1> QED BY <1>1, <1>2, <1>3 DEF SingleAnswer

LEMMA SingleTail ==
  ASSUME NEW w \in Seq(Write), w # <<>>, SingleAnswer(w)
  PROVE  /\ SingleAnswer(Tail(w))
         /\ Head(w).op = "validation" => ~HasOp(Tail(w), "validation")
<1>1. /\ DOMAIN w = 1 .. Len(w) /\ Len(w) \in Nat \ {0}
      /\ DOMAIN Tail(w) = 1 .. Len(w) - 1
      /\ \A i \in 1 .. Len(w) - 1 : Tail(w)[i] = w[i + 1]
      /\ Head(w) = w[1]
  BY HeadTailProperties, EmptySeq
<1>2. \A i \in DOMAIN Tail(w) : i + 1 \in DOMAIN w /\ Tail(w)[i] = w[i + 1] /\ i + 1 # 1 /\ i \in Int
  BY <1>1
<1>3. 1 \in DOMAIN w
  BY <1>1
<1>4. ASSUME NEW i \in DOMAIN Tail(w), NEW j \in DOMAIN Tail(w),
             Tail(w)[i].op = "validation", Tail(w)[j].op = "validation"
      PROVE  i = j
  <2>1. i + 1 = j + 1
    BY <1>2, <1>4 DEF SingleAnswer
  <2> QED BY <1>2, <2>1
<1>5. ASSUME Head(w).op = "validation", NEW i \in DOMAIN Tail(w), Tail(w)[i].op = "validation"
      PROVE  FALSE
  <2>1. i + 1 = 1
    BY <1>1, <1>2, <1>3, <1>5 DEF SingleAnswer
  <2> QED BY <1>2, <2>1
<1> QED BY <1>4, <1>5 DEF SingleAnswer, HasOp

LEMMA SingleHeaderWrite ==
  ASSUME NEW w \in Seq(Write), NEW q \in Seq(Msg), SingleAnswer(w)
  PROVE  SingleAnswer(w \o HeaderWrite(q))
<1>1. CASE q = <<>>
  <2>1. w \o HeaderWrite(q) = w
    BY <1>1, HeaderWriteType, ConcatEmptySeq
  <2> QED BY <2>1
<1>2. CASE q # <<>>
  <2> DEFINE h == [op |-> "header", msg |-> Head(q)]
  <2>1. h \in Write /\ h.op # "validation"
    BY <1>2, HeaderWriteType DEF Write
  <2>2. w \o HeaderWrite(q) = Append(w, h)
    BY <1>2, <2>1, HeaderWriteType, AppendIsConcat
  <2> HIDE DEF h
  <2> QED BY <2>1, <2>2, SingleAppend
<1> QED BY <1>1, <1>2

-----------------------------------------------------------------------------
(* The write handlers, with what they leave to be written. *)
LEMMA MessageWrite ==
  ASSUME WriteInv, NEW t \in Side, WriteHeader(t) \/ WriteBody(t)
  PROVE  /\ wr[t] # <<>> /\ out[t] # <<>> /\ Head(out[t]) \in Msg
         /\ link = "up" /\ sock[t] = "open"
         /\ UNCHANGED <<link, connecting, sock, rd, tmp, delivered, desync, posted, sent,
                        hsOut, validation>>
         /\ \E f \in Frame :
              /\ chan' = [chan EXCEPT ![Peer(t)] = Append(@, f)]
              /\ \/ /\ f = Header(Head(Waiting(t))) /\ Waiting(t) # <<>>
                    /\ Waiting(t)' = Tail(Waiting(t))
                 \/ f.kind = "body" /\ Waiting(t)' = Waiting(t)
         /\ \A r \in Side \ {t} : wr'[r] = wr[r] /\ out'[r] = out[r]
         /\ HasOp(wr'[t], "validation") <=> HasOp(wr[t], "validation")
         /\ SingleAnswer(wr[t]) => SingleAnswer(wr'[t])
         /\ wr'[t] \in Seq(Write)
         /\ Head(wr[t]).op # "validation"
<1> DEFINE w == wr[t]
           q == out[t]
           m == Head(out[t])
           b == [op |-> "body", msg |-> m]
<1>1. /\ w # <<>> /\ Head(w).op \in {"header", "body"} /\ link = "up" /\ sock[t] = "open"
      /\ UNCHANGED <<link, connecting, sock, rd, tmp, delivered, desync, posted, sent,
                     hsOut, validation>>
  BY DEF WriteHeader, WriteBody, CanWrite, reading, app
<1>2. IsMessageWrite(Head(w))
  BY <1>1 DEF IsMessageWrite
<1>3. /\ w \in Seq(Write) /\ q \in Seq(Msg) /\ Tail(w) \in Seq(Write) /\ q # <<>>
      /\ m \in Msg /\ Tail(q) \in Seq(Msg) /\ Head(w).msg = m
      /\ \A i \in 1 .. Len(Tail(w)) : ~IsMessageWrite(Tail(w)[i])
  BY <1>1, <1>2, HandlerOfFront
<1>4. ~HasOp(Tail(w), "body")
  <2>1. DOMAIN Tail(w) = 1 .. Len(Tail(w))
    BY <1>3
  <2> QED BY <1>3, <2>1 DEF HasOp, IsMessageWrite
<1>5. b \in Write /\ b.op = "body"
  BY <1>3 DEF Write
<1>6. wr \in [Side -> Seq(Write)] /\ out \in [Side -> Seq(Msg)] /\ chan \in [Side -> Seq(Frame)]
  BY DEF WriteInv, TypeOK
<1>7. Header(m) \in Frame /\ Body(m) \in Frame /\ Body(m).kind = "body"
  BY <1>3 DEF Header, Body, Frame, Msg
<1>8. /\ HasOp(w, "validation") <=> HasOp(Tail(w), "validation")
      /\ HasOp(w, "body") <=> Head(w).op = "body"
  BY <1>1, <1>3, <1>4, HasOpTail
<1>9. SingleAnswer(w) => SingleAnswer(Tail(w))
  BY <1>1, <1>3, SingleTail
<1>10. ASSUME WriteNext(t)
       PROVE  /\ wr' = [wr EXCEPT ![t] = Tail(w) \o HeaderWrite(Tail(q))]
              /\ out' = [out EXCEPT ![t] = Tail(q)]
              /\ wr'[t] \in Seq(Write)
              /\ Waiting(t)' = Tail(q)
              /\ HasOp(wr'[t], "validation") <=> HasOp(w, "validation")
              /\ SingleAnswer(w) => SingleAnswer(wr'[t])
  <2> DEFINE n == Tail(w) \o HeaderWrite(Tail(q))
  <2>1. wr' = [wr EXCEPT ![t] = n] /\ out' = [out EXCEPT ![t] = Tail(q)]
    BY <1>10 DEF WriteNext
  <2>2. wr'[t] = n /\ out'[t] = Tail(q)
    BY <1>6, <2>1
  <2>3. /\ n \in Seq(Write)
        /\ ~HasOp(n, "body")
        /\ HasOp(n, "validation") <=> HasOp(w, "validation")
        /\ SingleAnswer(w) => SingleAnswer(n)
    <3>1. n \in Seq(Write)
      BY <1>3, HeaderWriteType, ConcatProperties
    <3> HIDE DEF n
    <3> QED BY <1>3, <1>4, <1>8, <1>9, <3>1, HasOpHeaderWrite, SingleHeaderWrite DEF n
  <2>4. Waiting(t)' = Tail(q)
    BY <2>2, <2>3 DEF Waiting
  <2> HIDE DEF n
  <2> QED BY <2>1, <2>2, <2>3, <2>4 DEF n
<1>11. CASE WriteHeader(t)
  <2>1. /\ chan' = [chan EXCEPT ![Peer(t)] = Append(@, Header(m))]
        /\ Head(w).op = "header"
    BY <1>3, <1>11 DEF WriteHeader, Transmit
  <2>2. Waiting(t) = q
    BY <1>8, <2>1 DEF Waiting
  <2>3. CASE WriteNext(t)
    BY <1>1, <1>3, <1>6, <1>7, <1>10, <2>1, <2>2, <2>3
  <2>4. CASE wr' = [wr EXCEPT ![t] = Append(Tail(w), b)] /\ UNCHANGED out
    <3>1. wr'[t] = Append(Tail(w), b)
      BY <1>6, <2>4
    <3> HIDE DEF b
    <3>2. /\ Append(Tail(w), b) \in Seq(Write)
          /\ HasOp(Append(Tail(w), b), "body")
          /\ HasOp(Append(Tail(w), b), "validation") <=> HasOp(w, "validation")
          /\ SingleAnswer(w) => SingleAnswer(Append(Tail(w), b))
      <4> DEFINE t0 == Tail(w)
                 a0 == Append(t0, b)
      <4>1. t0 \in Seq(Write) /\ b \in Write /\ b.op = "body"
        BY <1>3, <1>5
      <4>2. a0 \in Seq(Write)
        BY <4>1
      <4>3. \A op : HasOp(a0, op) <=> HasOp(t0, op) \/ b.op = op
        <5> HIDE DEF t0
        <5> QED BY <4>1, HasOpAppend
      <4>4. SingleAnswer(t0) => SingleAnswer(a0)
        <5> HIDE DEF t0
        <5> QED BY <4>1, SingleAppend
      <4>5. /\ HasOp(w, "validation") <=> HasOp(t0, "validation")
            /\ SingleAnswer(w) => SingleAnswer(t0)
        BY <1>8, <1>9
      <4>6. HasOp(a0, "body") /\ (HasOp(a0, "validation") <=> HasOp(w, "validation"))
        <5> HIDE DEF t0, a0
        <5> QED BY <4>1, <4>3, <4>5
      <4> HIDE DEF t0, a0
      <4>7. SingleAnswer(w) => SingleAnswer(a0)
        BY <4>4, <4>5
      <4> QED BY <4>2, <4>6, <4>7 DEF a0, t0
    <3>3. Waiting(t)' = Tail(q)
      BY <2>4, <3>1, <3>2 DEF Waiting
    <3>4. \A r \in Side \ {t} : wr'[r] = wr[r] /\ out'[r] = out[r]
      BY <1>6, <2>4
    <3> QED BY <1>1, <1>3, <1>7, <2>1, <2>2, <3>1, <3>2, <3>3, <3>4
  <2> QED BY <1>6, <1>11, <2>3, <2>4 DEF WriteHeader
<1>12. CASE WriteBody(t)
  <2>1. /\ chan' = [chan EXCEPT ![Peer(t)] = Append(@, Body(m))]
        /\ Head(w).op = "body" /\ WriteNext(t)
    BY <1>3, <1>12 DEF WriteBody, Transmit
  <2>2. Waiting(t) = Tail(q)
    BY <1>8, <2>1 DEF Waiting
  <2>3. \A r \in Side \ {t} : wr'[r] = wr[r] /\ out'[r] = out[r]
    BY <1>6, <1>10, <2>1
  <2> QED BY <1>1, <1>3, <1>7, <1>10, <2>1, <2>2, <2>3
<1> QED BY <1>11, <1>12

-----------------------------------------------------------------------------
(***************************************************************************)
(* How a stream starts.  The client writes one answer, when no read is     *)
(* outstanding.  The challenge is the first frame that reaches the client: *)
(* no message can be in its place, even if the server application sends to *)
(* a connection it has not validated.                                      *)
(***************************************************************************)
OneAnswer ==
  /\ SingleAnswer(wr["client"])
  /\ HasOp(wr["client"], "validation") => rd["client"] = "none"

ChallengeFirst ==
  \/ chan["client"] # <<>> /\ Head(chan["client"]).kind = "nonce"
  \/ /\ chan["client"] = <<>>
     /\ sock["server"] = "open" => wr["server"] # <<>> /\ Head(wr["server"]).op = "validation"

Greeting ==
  /\ sock["server"] = "none" => wr["server"] = <<>>
  /\ link # "reset" /\ Unanswered => ChallengeFirst

StreamInv == ServedInv /\ HandshakeInv /\ OneAnswer /\ Greeting

LEMMA NoAnswerYet ==
  ASSUME WriteInv, HandshakeInv, Unanswered
  PROVE  ~HasOp(wr["client"], "validation")
<1>1. wr["client"] \in Seq(Write)
  BY Typed
<1>2. DOMAIN wr["client"] = 1 .. Len(wr["client"])
  BY <1>1
<1>3. \A v : ~In(wr["client"], Answers(v))
  BY DEF HandshakeInv, UnderWay
<1> QED BY <1>1, <1>2, <1>3, NoValidationLeft DEF HasOp

LEMMA GreetingIdle ==
  ASSUME Greeting, link' # "reset" => link # "reset", Unanswered' => Unanswered,
         chan'["client"] = chan["client"],
         wr'["server"] = wr["server"] \/ sock'["server"] = "closed",
         sock'["server"] # "closed" => sock'["server"] = sock["server"]
  PROVE  Greeting'
BY DEF Greeting, ChallengeFirst

LEMMA OneAnswerIdle ==
  ASSUME OneAnswer, wr'["client"] = wr["client"],
         HasOp(wr["client"], "validation") => rd'["client"] \in {rd["client"], "none"}
  PROVE  OneAnswer'
BY DEF OneAnswer

LEMMA StreamInit == Init => OneAnswer /\ Greeting
<1> SUFFICES ASSUME Init PROVE OneAnswer /\ Greeting
  OBVIOUS
<1>1. /\ \A s \in Side : wr[s] = <<>> /\ chan[s] = <<>>
      /\ sock["server"] = "none"
      /\ "client" \in Side /\ "server" \in Side
  BY DEF Init, Side
<1>2. wr["client"] = <<>> /\ DOMAIN <<>> = {}
  BY <1>1
<1> QED BY <1>1, <1>2 DEF OneAnswer, Greeting, ChallengeFirst, SingleAnswer, HasOp

LEMMA StreamOutside ==
  ASSUME StreamInv, Network \/ Application
  PROVE  OneAnswer' /\ Greeting'
<1>1. /\ UNCHANGED <<connecting, rd, wr, sock>>
      /\ chan' = chan \/ link' = "reset"
      /\ link' # "reset" => link # "reset"
  BY DEF Network, Application, Establish, Reset, Send, EchoMessage, Disconnect, StopContext,
         reading, writing, net
<1>2. OneAnswer'
  BY <1>1, OneAnswerIdle DEF StreamInv
<1>3. CASE chan' = chan
  <2>1. Greeting /\ (Unanswered' => Unanswered)
    BY <1>1 DEF StreamInv, Unanswered
  <2> QED BY <1>1, <1>2, <1>3, <2>1, GreetingIdle
<1>4. CASE link' = "reset"
  BY <1>1, <1>2, <1>4 DEF StreamInv, Greeting
<1> QED BY <1>1, <1>2, <1>3, <1>4

LEMMA StreamConnecting ==
  ASSUME StreamInv, NEW s \in Side, Connecting(s)
  PROVE  OneAnswer' /\ Greeting'
<1>1. ServedInv /\ WriteInv /\ HandshakeInv /\ OneAnswer /\ Greeting
  BY DEF StreamInv, ServedInv
<1>2. CASE s = "client"
  <2>1. /\ ConnectToServer /\ connecting
        /\ UNCHANGED <<chan, sock, wr>>
        /\ link' # "reset" => link # "reset"
    BY <1>2 DEF Connecting, ConnectToServer, writing
  <2>2. Unanswered /\ ~HasOp(wr["client"], "validation")
    BY <1>1, <2>1, NoAnswerYet DEF Unanswered
  <2>3. Greeting'
    BY <1>1, <2>1, <2>2, GreetingIdle
  <2> QED BY <1>1, <2>1, <2>2, <2>3, OneAnswerIdle
<1>3. CASE s = "server"
  <2>1. /\ ConnectToClient /\ sock["server"] = "none"
        /\ UNCHANGED <<link, connecting, chan>>
    BY <1>3 DEF Connecting, ConnectToClient, net
  <2>2. wr["server"] = <<>> /\ (link # "reset" /\ Unanswered => ChallengeFirst)
    BY <1>1, <2>1 DEF Greeting
  <2>3. rd \in [Side -> {"none", "validation", "header", "body"}] /\ wr \in [Side -> Seq(Write)]
        /\ sock \in [Side -> {"none", "open", "closed"}] /\ "server" \in Side /\ "client" \in Side
    BY <1>1, Typed
  <2>4. rd'["client"] = rd["client"] /\ wr'["client"] = wr["client"]
    BY <2>1, <2>3 DEF ConnectToClient
  <2>5. CASE sock'["server"] = "closed"
    <3>1. Greeting'
      BY <1>1, <2>1, <2>4, <2>5, GreetingIdle DEF Unanswered
    <3> QED BY <1>1, <2>4, <3>1, OneAnswerIdle
  <2>6. CASE sock'["server"] # "closed"
    <3> DEFINE v == [op |-> "validation", value |-> hsOut'["server"]]
    <3>1. wr' = [wr EXCEPT !["server"] = Append(@, v)] /\ sock'["server"] = "open"
      BY <2>1, <2>3, <2>6 DEF ConnectToClient, Close
    <3>2. wr'["server"] = <<v>>
      BY <2>2, <2>3, <3>1
    <3>3. wr'["server"] # <<>> /\ Head(wr'["server"]).op = "validation"
      BY <3>2
    <3>4. Unanswered' <=> Unanswered
      BY <2>1, <2>4 DEF Unanswered
    <3>5. Greeting'
      BY <2>1, <2>2, <3>1, <3>3, <3>4 DEF Greeting, ChallengeFirst
    <3> QED BY <1>1, <2>4, <3>5, OneAnswerIdle
  <2> QED BY <2>5, <2>6
<1> QED BY <1>2, <1>3 DEF Side

LEMMA StreamHandshake ==
  ASSUME StreamInv, NEW s \in Side, Handshake(s)
  PROVE  OneAnswer' /\ Greeting'
<1>1. ServedInv /\ WriteInv /\ HandshakeInv /\ OneAnswer /\ Greeting
  BY DEF StreamInv, ServedInv
<1>2. /\ "server" \in Side /\ "client" \in Side
      /\ chan \in [Side -> Seq(Frame)]
      /\ rd \in [Side -> {"none", "validation", "header", "body"}]
      /\ wr \in [Side -> Seq(Write)]
  BY <1>1, Typed
<1>3. CASE s = "client"
  <2> DEFINE a == Answer(ValueOf(Head(chan["client"])))
             v == [op |-> "validation", value |-> a]
             w == wr["client"]
  <2>1. /\ rd["client"] = "validation" /\ UNCHANGED <<connecting, sock>>
        /\ chan["client"] # <<>>
        /\ wr' = [wr EXCEPT !["client"] = Append(@, v)]
        /\ rd' = [rd EXCEPT !["client"] = "none"]
    BY <1>3 DEF Handshake, ReadChallenge, CanRead
  <2>2. rd'["client"] = "none" /\ wr'["client"] = Append(w, v) /\ wr'["server"] = wr["server"]
    BY <1>2, <2>1
  <2>3. ~connecting /\ ~Unanswered'
    BY <1>1, <2>1, <2>2 DEF HandshakeInv, Unanswered
  <2>4. ~HasOp(w, "validation") /\ SingleAnswer(w) /\ w \in Seq(Write)
    BY <1>1, <1>2, <2>1, NoAnswerYet DEF Unanswered, OneAnswer
  <2>5. a \in Values
    BY <1>2, <2>1, HeadTailProperties, HandshakeAssumption DEF Answer, ValueOf, Values, Frame
  <2>6. v \in Write
    BY <2>5 DEF Write
  <2>7. SingleAnswer(Append(w, v))
    <3> HIDE DEF v, w
    <3> QED BY <2>4, <2>6, SingleAppend
  <2>8. OneAnswer'
    <3> HIDE DEF v, w
    <3> QED BY <2>2, <2>7 DEF OneAnswer
  <2>9. sock'["server"] = "none" => wr'["server"] = <<>>
    BY <1>1, <2>1, <2>2 DEF Greeting
  <2> QED BY <2>3, <2>8, <2>9 DEF Greeting
<1>4. CASE s = "server"
  <2>1. /\ UNCHANGED <<link, connecting, sock, wr>>
        /\ chan'["client"] = chan["client"] /\ rd'["client"] = rd["client"]
    BY <1>2, <1>4 DEF Handshake, ReadAnswer, Consume, writing
  <2>2. Unanswered' => Unanswered
    BY <2>1 DEF Unanswered
  <2> QED BY <1>1, <2>1, <2>2, GreetingIdle, OneAnswerIdle
<1> QED BY <1>3, <1>4 DEF Side

LEMMA HeadOfAppend ==
  ASSUME NEW S, NEW q \in Seq(S), NEW x \in S
  PROVE  /\ Append(q, x) # <<>>
         /\ q = <<>> => Head(Append(q, x)) = x
         /\ q # <<>> => Head(Append(q, x)) = Head(q)
<1>1. /\ Append(q, x) \in Seq(S) /\ Len(Append(q, x)) = Len(q) + 1 /\ Len(q) \in Nat
      /\ \A i \in 1 .. Len(q) : Append(q, x)[i] = q[i]
      /\ Append(q, x)[Len(q) + 1] = x
  OBVIOUS
<1> DEFINE a == Append(q, x)
<1>2. a # <<>> /\ Head(a) = a[1]
  <2>1. a \in Seq(S) /\ Len(a) # 0
    BY <1>1
  <2> HIDE DEF a
  <2> QED BY <2>1, EmptySeq
<1>3. q = <<>> => Len(q) = 0
  OBVIOUS
<1>4. q # <<>> => Len(q) # 0 /\ Head(q) = q[1]
  BY EmptySeq
<1> QED BY <1>1, <1>2, <1>3, <1>4

LEMMA NonceFrame ==
  ASSUME NEW w \in Seq(Write), w # <<>>, Head(w).op = "validation"
  PROVE  /\ Nonce(Head(w).value) \in Frame
         /\ Nonce(Head(w).value).kind = "nonce"
<1>1. Head(w) \in Write
  BY HeadTailProperties
<1>2. Head(w).value \in Values
  BY <1>1 DEF Write
<1> QED BY <1>2 DEF Nonce, Frame

LEMMA StreamValidationWrite ==
  ASSUME StreamInv, NEW s \in Side, WriteValidation(s)
  PROVE  OneAnswer' /\ Greeting'
<1>1. ServedInv /\ WriteInv /\ HandshakeInv /\ OneAnswer /\ Greeting
  BY DEF StreamInv, ServedInv
<1>2. /\ "server" \in Side /\ "client" \in Side
      /\ chan \in [Side -> Seq(Frame)]
      /\ rd \in [Side -> {"none", "validation", "header", "body"}]
      /\ wr \in [Side -> Seq(Write)]
  BY <1>1, Typed
<1>3. /\ wr[s] # <<>> /\ Head(wr[s]).op = "validation" /\ sock[s] = "open"
      /\ chan' = [chan EXCEPT ![Peer(s)] = Append(@, Nonce(Head(wr[s]).value))]
      /\ wr' = [wr EXCEPT ![s] = Tail(@)]
      /\ UNCHANGED <<link, connecting, sock>>
  BY DEF WriteValidation, Transmit, CanWrite
<1>4. CASE s = "client"
  <2>1. /\ wr'["client"] = Tail(wr["client"]) /\ wr'["server"] = wr["server"]
        /\ chan'["client"] = chan["client"]
    BY <1>2, <1>3, <1>4 DEF Peer
  <2>2. /\ SingleAnswer(Tail(wr["client"])) /\ ~HasOp(Tail(wr["client"]), "validation")
        /\ HasOp(wr["client"], "validation")
    BY <1>1, <1>2, <1>3, <1>4, SingleTail, HasOpTail DEF OneAnswer
  <2>3. OneAnswer'
    BY <2>1, <2>2 DEF OneAnswer
  <2>4. rd'["client"] = "header"
    BY <1>2, <1>4 DEF WriteValidation
  <2>5. ~Unanswered
    BY <1>1, <2>2, NoAnswerYet
  <2>6. ~Unanswered'
    BY <1>3, <2>4, <2>5 DEF Unanswered
  <2> QED BY <1>1, <1>3, <2>1, <2>3, <2>6 DEF Greeting
<1>5. CASE s = "server"
  <2> DEFINE x == Nonce(Head(wr[s]).value)
  <2>1. /\ wr'["client"] = wr["client"] /\ rd' = rd
        /\ chan'["client"] = Append(chan["client"], x)
    BY <1>2, <1>3, <1>5 DEF Peer, WriteValidation
  <2>2. x \in Frame /\ x.kind = "nonce"
    BY <1>2, <1>3, NonceFrame
  <2>3. OneAnswer'
    BY <1>1, <2>1, OneAnswerIdle
  <2> HIDE DEF x
  <2>4. link' # "reset" /\ Unanswered' => ChallengeFirst
    BY <1>1, <1>3, <2>1 DEF Greeting, Unanswered
  <2>5. ASSUME ChallengeFirst PROVE ChallengeFirst'
    <3> DEFINE c == chan["client"]
               n == Append(c, x)
    <3>1. c \in Seq(Frame) /\ (c = <<>> \/ Head(c).kind = "nonce")
      BY <1>2, <2>5 DEF ChallengeFirst
    <3>2. n # <<>> /\ (c = <<>> => Head(n) = x) /\ (c # <<>> => Head(n) = Head(c))
      <4> HIDE DEF c
      <4> QED BY <2>2, <3>1, HeadOfAppend
    <3>3. n # <<>> /\ Head(n).kind = "nonce"
      BY <2>2, <3>1, <3>2
    <3>4. chan'["client"] = n
      BY <2>1
    <3> HIDE DEF n
    <3> QED BY <3>3, <3>4 DEF ChallengeFirst
  <2> QED BY <1>3, <1>5, <2>3, <2>4, <2>5 DEF Greeting
<1> QED BY <1>4, <1>5 DEF Side

LEMMA StreamMessageWrite ==
  ASSUME StreamInv, NEW s \in Side, WriteHeader(s) \/ WriteBody(s)
  PROVE  OneAnswer' /\ Greeting'
<1>1. ServedInv /\ WriteInv /\ HandshakeInv /\ OneAnswer /\ Greeting
  BY DEF StreamInv, ServedInv
<1>2. /\ "server" \in Side /\ "client" \in Side
      /\ chan \in [Side -> Seq(Frame)]
  BY <1>1, Typed
<1>3. /\ wr[s] # <<>> /\ sock[s] = "open"
      /\ UNCHANGED <<link, connecting, sock, rd>>
      /\ \A r \in Side \ {s} : wr'[r] = wr[r]
      /\ HasOp(wr'[s], "validation") <=> HasOp(wr[s], "validation")
      /\ SingleAnswer(wr[s]) => SingleAnswer(wr'[s])
      /\ Head(wr[s]).op # "validation"
  BY <1>1, MessageWrite
<1>4. PICK f \in Frame : chan' = [chan EXCEPT ![Peer(s)] = Append(@, f)]
  BY <1>1, MessageWrite
<1>5. Unanswered' <=> Unanswered
  BY <1>3 DEF Unanswered
<1>6. OneAnswer'
  <2>1. CASE s = "client"
    BY <1>1, <1>3, <2>1 DEF OneAnswer
  <2>2. CASE s # "client"
    BY <1>1, <1>2, <1>3, <2>2, OneAnswerIdle
  <2> QED BY <2>1, <2>2
<1>7. CASE s = "client"
  <2>1. chan'["client"] = chan["client"] /\ wr'["server"] = wr["server"]
    BY <1>2, <1>3, <1>4, <1>7 DEF Peer
  <2> QED BY <1>1, <1>3, <1>5, <1>6, <2>1, GreetingIdle
<1>8. CASE s = "server"
  <2>1. chan'["client"] = Append(chan["client"], f)
    BY <1>2, <1>4, <1>8 DEF Peer
  <2>2. ASSUME ChallengeFirst PROVE ChallengeFirst'
    BY <1>2, <1>3, <1>8, <2>1, <2>2, HeadOfAppend DEF ChallengeFirst
  <2> QED BY <1>1, <1>3, <1>5, <1>6, <1>8, <2>2 DEF Greeting
<1> QED BY <1>7, <1>8 DEF Side

LEMMA StreamWrite ==
  ASSUME StreamInv, NEW s \in Side, WriteStep(s)
  PROVE  OneAnswer' /\ Greeting'
<1>1. ServedInv /\ WriteInv /\ HandshakeInv /\ OneAnswer /\ Greeting
  BY DEF StreamInv, ServedInv
<1>2. CASE WriteError(s)
  <2>1. /\ "server" \in Side /\ "client" \in Side
        /\ sock \in [Side -> {"none", "open", "closed"}]
        /\ wr \in [Side -> Seq(Write)]
    BY <1>1, Typed
  <2>2. /\ wr[s] # <<>> /\ wr' = [wr EXCEPT ![s] = Tail(@)]
        /\ sock' = [sock EXCEPT ![s] = "closed"]
        /\ UNCHANGED <<link, connecting, chan, rd>>
    BY <1>2 DEF WriteError, Close, net, reading
  <2>3. OneAnswer'
    <3>1. CASE s = "client"
      <4>1. wr'["client"] = Tail(wr["client"])
        BY <2>1, <2>2, <3>1
      <4>2. /\ SingleAnswer(Tail(wr["client"]))
            /\ HasOp(Tail(wr["client"]), "validation") => HasOp(wr["client"], "validation")
        BY <1>1, <2>1, <2>2, <3>1, SingleTail, HasOpTail DEF OneAnswer
      <4> QED BY <1>1, <2>2, <4>1, <4>2 DEF OneAnswer
    <3>2. CASE s # "client"
      <4>1. wr'["client"] = wr["client"]
        BY <2>1, <2>2, <3>2
      <4> QED BY <1>1, <2>2, <4>1, OneAnswerIdle
    <3> QED BY <3>1, <3>2
  <2>4. \/ wr'["server"] = wr["server"] /\ sock'["server"] = sock["server"]
        \/ sock'["server"] = "closed"
    BY <2>1, <2>2
  <2>5. Unanswered' => Unanswered
    BY <2>2 DEF Unanswered
  <2> QED BY <1>1, <2>2, <2>3, <2>4, <2>5, GreetingIdle
<1> QED BY <1>2, StreamValidationWrite, StreamMessageWrite DEF WriteStep

LEMMA StreamRead ==
  ASSUME StreamInv, NEW s \in Side, ReadHeader(s) \/ ReadBody(s) \/ ReadError(s)
  PROVE  OneAnswer' /\ Greeting'
<1>1. ServedInv /\ WriteInv /\ HandshakeInv /\ OneAnswer /\ Greeting
  BY DEF StreamInv, ServedInv
<1>2. /\ "server" \in Side /\ "client" \in Side
      /\ chan \in [Side -> Seq(Frame)]
      /\ sock \in [Side -> {"none", "open", "closed"}]
      /\ rd \in [Side -> {"none", "validation", "header", "body"}]
  BY <1>1, Typed
<1>3. /\ UNCHANGED <<link, connecting, wr>>
      /\ rd[s] # "none"
      /\ \A r \in Side \ {s} : rd'[r] = rd[r] /\ chan'[r] = chan[r]
      /\ sock'["server"] # "closed" => sock'["server"] = sock["server"]
  BY <1>2 DEF ReadHeader, ReadBody, ReadError, Consume, Close, writing, net,
              AddToIncomingMessageQueue
<1>4. rd'[s] \in {"none", "header", "body"}
  BY <1>2 DEF ReadHeader, ReadBody, ReadError, AddToIncomingMessageQueue
<1>5. CASE s = "client"
  <2>1. ~HasOp(wr["client"], "validation") /\ ~connecting
    BY <1>1, <1>3, <1>5 DEF OneAnswer, HandshakeInv
  <2>2. ~Unanswered'
    BY <1>3, <1>4, <1>5, <2>1 DEF Unanswered
  <2>3. OneAnswer'
    BY <1>1, <1>3, <2>1, OneAnswerIdle
  <2>4. sock'["server"] = "none" => wr'["server"] = <<>>
    BY <1>1, <1>3 DEF Greeting
  <2> QED BY <2>2, <2>3, <2>4 DEF Greeting
<1>6. CASE s = "server"
  <2>1. rd'["client"] = rd["client"] /\ chan'["client"] = chan["client"]
    BY <1>2, <1>3, <1>6
  <2>2. Unanswered' <=> Unanswered
    BY <1>3, <2>1 DEF Unanswered
  <2> QED BY <1>1, <1>3, <2>1, <2>2, GreetingIdle, OneAnswerIdle
<1> QED BY <1>5, <1>6 DEF Side

LEMMA StreamPosted ==
  ASSUME StreamInv, NEW s \in Side, PostedStep(s)
  PROVE  OneAnswer' /\ Greeting'
<1>1. ServedInv /\ WriteInv /\ HandshakeInv /\ OneAnswer /\ Greeting /\ ClosesOnce
  BY DEF StreamInv, ServedInv
<1>2. /\ "server" \in Side /\ "client" \in Side
      /\ sock \in [Side -> {"none", "open", "closed"}]
      /\ wr \in [Side -> Seq(Write)]
      /\ posted \in [Side -> Seq(Posted)] /\ out \in [Side -> Seq(Msg)]
  BY <1>1, Typed DEF WriteInv, TypeOK
<1>3. UNCHANGED <<link, connecting, chan, rd>>
  BY DEF PostedStep, PostedSend, PostedClose, net, reading
<1>4. Unanswered' <=> Unanswered
  BY <1>3 DEF Unanswered
<1>5. CASE wr' = wr
  <2>1. sock'["server"] # "closed" => sock'["server"] = sock["server"]
    BY <1>2 DEF PostedStep, PostedSend, PostedClose, Close
  <2> QED BY <1>1, <1>3, <1>4, <1>5, <2>1, GreetingIdle, OneAnswerIdle
<1>6. CASE wr' # wr
  <2>1. /\ PostedSend(s) /\ UNCHANGED sock /\ posted[s] # <<>> /\ Head(posted[s]).fn = "send"
    BY <1>6 DEF PostedStep, PostedSend, PostedClose, writing
  <2> DEFINE m == Head(posted[s]).msg
             w == wr[s]
             q == Append(out[s], m)
             h == [op |-> "header", msg |-> Head(q)]
             n == Append(w, h)
  <2>2. m \in Msg
    BY <1>2, <2>1, HeadTailProperties DEF Posted
  <2>3. q \in Seq(Msg) /\ q # <<>> /\ Head(q) \in Msg
    <3>1. out[s] \in Seq(Msg)
      BY <1>2
    <3> HIDE DEF m
    <3>2. q \in Seq(Msg) /\ q # <<>>
      BY <2>2, <3>1, AppendProperties
    <3> HIDE DEF q
    <3> QED BY <3>2, HeadTailProperties
  <2>4. h \in Write /\ HeaderWrite(q) = <<h>> /\ h.op = "header"
    BY <2>3 DEF HeaderWrite, Write
  <2>5. w \in Seq(Write) /\ w \o HeaderWrite(q) = n /\ n \in Seq(Write)
    <3>1. w \in Seq(Write)
      BY <1>2
    <3> HIDE DEF w, h, q
    <3>2. n \in Seq(Write) /\ n = w \o <<h>>
      BY <2>4, <3>1, AppendIsConcat, AppendProperties
    <3> QED BY <2>4, <3>1, <3>2
  <2>6. wr' = [wr EXCEPT ![s] = n]
    BY <1>6, <2>1, <2>5 DEF PostedSend
  <2>7. wr'[s] = n /\ \A r \in Side \ {s} : wr'[r] = wr[r]
    BY <1>2, <2>6
  <2> HIDE DEF h, n, w
  <2>8. CASE s = "client"
    <3>1. (HasOp(n, "validation") <=> HasOp(w, "validation")) /\ (SingleAnswer(w) => SingleAnswer(n))
      BY <2>4, <2>5, HasOpAppend, SingleAppend DEF n
    <3>2. OneAnswer'
      BY <1>1, <1>3, <2>7, <2>8, <3>1 DEF OneAnswer, w
    <3> QED BY <1>1, <1>2, <1>3, <1>4, <2>1, <2>7, <2>8, <3>2, GreetingIdle
  <2>9. CASE s = "server"
    <3>1. sock["server"] # "none"
      BY <1>1, <2>1, <2>9 DEF ClosesOnce
    <3>2. n # <<>> /\ (w # <<>> => Head(n) = Head(w))
      BY <2>4, <2>5, HeadOfAppend DEF n
    <3>3. OneAnswer'
      BY <1>1, <1>2, <1>3, <2>7, <2>9, OneAnswerIdle
    <3>4. ASSUME ChallengeFirst PROVE ChallengeFirst'
      BY <1>3, <2>1, <2>7, <2>9, <3>2, <3>4 DEF ChallengeFirst, w
    <3> QED BY <1>1, <1>3, <1>4, <2>1, <3>1, <3>3, <3>4 DEF Greeting
  <2> QED BY <2>8, <2>9 DEF Side
<1> QED BY <1>5, <1>6

LEMMA StreamNext == StreamInv /\ [Next]_vars => StreamInv'
<1> SUFFICES ASSUME StreamInv, [Next]_vars PROVE StreamInv'
  OBVIOUS
<1>1. ServedInv' /\ HandshakeInv'
  BY ServedNext, HandshakeNext DEF StreamInv, ServedInv
<1>2. OneAnswer' /\ Greeting'
  <2>1. CASE UNCHANGED vars
    BY <2>1 DEF vars, StreamInv, OneAnswer, Greeting, ChallengeFirst, Unanswered
  <2>2. CASE Network \/ Application
    BY <2>2, StreamOutside
  <2>3. ASSUME NEW s \in Side,
               Connecting(s) \/ WriteStep(s) \/ ReadStep(s) \/ PostedStep(s)
        PROVE  OneAnswer' /\ Greeting'
    BY <2>3, StreamConnecting, StreamHandshake, StreamWrite, StreamRead, StreamPosted
       DEF ReadStep
  <2> QED BY <2>1, <2>2, <2>3 DEF Next
<1> QED BY <1>1, <1>2 DEF StreamInv

-----------------------------------------------------------------------------
(* How the parts of a direction follow a step. *)
LEMMA HeadersAppend ==
  ASSUME NEW q \in Seq(Msg), NEW m \in Msg
  PROVE  /\ HeadersOf(q) \in Seq(HeaderOrNone) /\ Len(HeadersOf(q)) = Len(q)
         /\ HeadersOf(Append(q, m)) = Append(HeadersOf(q), Header(m))
<1> DEFINE p == Append(q, m)
           a == HeadersOf(q)
           b == HeadersOf(p)
           z == Header(m)
<1>1. /\ Len(q) \in Nat /\ p \in Seq(Msg) /\ Len(p) = Len(q) + 1
      /\ \A i \in 1 .. Len(q) : p[i] = q[i]
      /\ p[Len(q) + 1] = m
  OBVIOUS
<1>2. /\ a \in Seq(HeaderOrNone) /\ Len(a) = Len(q)
      /\ \A i \in 1 .. Len(q) : a[i] = Header(q[i])
  BY HeaderTypes DEF HeadersOf
<1>3. z \in HeaderOrNone
  BY HeaderTypes
<1> HIDE DEF p
<1>4. /\ b \in Seq(HeaderOrNone) /\ Len(b) = Len(p)
      /\ \A i \in 1 .. Len(p) : b[i] = Header(p[i])
  BY <1>1, HeaderTypes DEF HeadersOf
<1> HIDE DEF a, b
<1>5. b = Append(a, z)
  <2> DEFINE c == Append(a, z)
  <2> HIDE DEF z
  <2>1. /\ c \in Seq(HeaderOrNone) /\ Len(c) = Len(a) + 1 /\ c[Len(a) + 1] = z
        /\ \A i \in 1 .. Len(a) : c[i] = a[i]
    BY <1>2, <1>3
  <2> HIDE DEF c
  <2>2. ASSUME NEW i \in 1 .. Len(b) PROVE b[i] = c[i]
    <3>1. CASE i = Len(q) + 1
      BY <1>1, <1>2, <1>4, <2>1, <3>1 DEF z
    <3>2. CASE i # Len(q) + 1
      <4>1. i \in 1 .. Len(q) /\ i \in 1 .. Len(p)
        BY <1>1, <1>4, <3>2
      <4> QED BY <1>1, <1>2, <1>4, <2>1, <4>1
    <3> QED BY <3>1, <3>2
  <2>3. Len(b) = Len(c)
    BY <1>1, <1>2, <1>4, <2>1
  <2>4. b = c
    BY <1>4, <2>1, <2>2, <2>3, SeqEqual
  <2> QED BY <2>4 DEF c
<1> QED BY <1>2, <1>5 DEF a, b, p

LEMMA HeadersTail ==
  ASSUME NEW q \in Seq(Msg), q # <<>>
  PROVE  /\ HeadersOf(q) # <<>> /\ Head(HeadersOf(q)) = Header(Head(q))
         /\ HeadersOf(Tail(q)) = Tail(HeadersOf(q))
<1> DEFINE p == Tail(q)
           a == HeadersOf(q)
           b == HeadersOf(p)
           c == Tail(a)
<1>1. /\ Len(q) \in Nat \ {0} /\ p \in Seq(Msg) /\ Len(p) = Len(q) - 1 /\ Head(q) = q[1]
      /\ \A i \in 1 .. Len(q) - 1 : p[i] = q[i + 1]
  BY HeadTailProperties, EmptySeq
<1>2. /\ a \in Seq(HeaderOrNone) /\ Len(a) = Len(q)
      /\ \A i \in 1 .. Len(q) : a[i] = Header(q[i])
  BY HeaderTypes DEF HeadersOf
<1> HIDE DEF p
<1>3. /\ b \in Seq(HeaderOrNone) /\ Len(b) = Len(p)
      /\ \A i \in 1 .. Len(p) : b[i] = Header(p[i])
  BY <1>1, HeaderTypes DEF HeadersOf
<1> HIDE DEF a, b
<1>4. /\ a # <<>> /\ Head(a) = a[1]
      /\ c \in Seq(HeaderOrNone) /\ Len(c) = Len(a) - 1
      /\ \A i \in 1 .. Len(a) - 1 : c[i] = a[i + 1]
  <2>1. a # <<>>
    BY <1>1, <1>2, EmptySeq
  <2> QED BY <1>2, <2>1, HeadTailProperties
<1> HIDE DEF c
<1>5. ASSUME NEW i \in 1 .. Len(b) PROVE b[i] = c[i]
  <2>1. i \in 1 .. Len(q) - 1 /\ i + 1 \in 1 .. Len(q) /\ i \in 1 .. Len(p)
    BY <1>1, <1>3
  <2> QED BY <1>1, <1>2, <1>3, <1>4, <2>1
<1>6. Len(b) = Len(c) /\ 1 \in 1 .. Len(q)
  BY <1>1, <1>2, <1>3, <1>4
<1>7. b = c
  BY <1>3, <1>4, <1>5, <1>6, SeqEqual
<1> QED BY <1>1, <1>2, <1>4, <1>6, <1>7 DEF a, b, c, p

(* The sender of a direction does nothing. *)
LEMMA FlowReceiverStep ==
  ASSUME NEW s \in Side, NEW r, r = Peer(s), sent'[r] = sent[r],
         sock'[r] = sock[r], Waiting(r)' = Waiting(r), posted'[r] = posted[r],
         IOAlive(r)' = IOAlive(r),
         FlowOf(Len(delivered'[s]) + Pending(s)', H(s), chan'[s], sock[r] # "closed",
                Waiting(r), posted[r], IOAlive(r))
  PROVE  Flow(s)'
<1>1. H(s)' = H(s)
  BY DEF H
<1> QED BY <1>1 DEF Flow

(* A function is posted to the sender. *)
LEMMA DirectionPosted ==
  ASSUME WriteInv, NEW s \in Side, NEW r, r = Peer(s), Direction(s),
         NEW x \in Posted, IOAlive(r), posted'[r] = Append(posted[r], x),
         x.fn = "send" => sent'[r] = Append(sent[r], x.msg),
         x.fn # "send" => sent'[r] = sent[r],
         delivered'[s] = delivered[s], tmp'[s] = tmp[s], rd'[s] = rd[s], chan'[s] = chan[s],
         Flowing(s)' => Flowing(s), sock'[r] = sock[r], Waiting(r)' = Waiting(r)
  PROVE  Direction(s)'
<1> DEFINE d == Len(delivered[s]) + Pending(s)
           h == H(s)
           ch == chan[s]
           w == Waiting(r)
           po == posted[r]
           o == sock[r] # "closed"
           al == IOAlive(r)
<1>1. /\ h \in Seq(HeaderOrNone) /\ Len(h) \in Nat /\ ch \in Seq(Frame) /\ w \in Seq(Msg)
      /\ po \in Seq(Posted) /\ sent[r] \in Seq(Msg) /\ delivered[s] \in Seq(Msg)
  BY DirectionTypes
<1>2. d' = d /\ ch' = ch /\ w' = w /\ o' = o /\ po' = Append(po, x) /\ al
  BY DEF Pending
<1>3. /\ x.fn = "send" => h' = Append(h, Header(x.msg)) /\ Header(x.msg) \in HeaderOrNone
      /\ x.fn # "send" => h' = h
  <2>1. x.fn = "send" => x.msg \in Msg
    BY DEF Posted
  <2>2. x.fn # "send" => h' = h
    BY DEF H
  <2>3. ASSUME x.fn = "send" PROVE h' = Append(h, Header(x.msg))
    <3>1. h = HeadersOf(sent[r]) /\ h' = HeadersOf(Append(sent[r], x.msg))
      BY <2>3 DEF H
    <3> HIDE DEF h
    <3> QED BY <1>1, <2>1, <2>3, <3>1, HeadersAppend
  <2> QED BY <2>1, <2>2, <2>3, HeaderTypes
<1> HIDE DEF d, h, ch, w, po, o, al
<1>4. /\ Len(h') >= Len(h) /\ Len(h') \in Nat
      /\ \A i \in 1 .. Len(h) : h'[i] = h[i]
  <2>1. CASE x.fn = "send"
    <3> DEFINE y == Header(x.msg)
               g == Append(h, y)
    <3>1. y \in HeaderOrNone /\ h' = g
      BY <1>3, <2>1
    <3>2. Len(g) = Len(h) + 1 /\ \A i \in 1 .. Len(h) : g[i] = h[i]
      <4> HIDE DEF y
      <4> QED BY <1>1, <3>1
    <3> HIDE DEF g
    <3> QED BY <1>1, <3>1, <3>2
  <2>2. CASE x.fn # "send"
    BY <1>1, <1>3, <2>2
  <2> QED BY <2>1, <2>2
<1>5. Got(s)' /\ Half(s)'
  <2>1. /\ Len(delivered[s]) <= Len(h) /\ Len(delivered[s]) \in Nat
        /\ \A i \in 1 .. Len(delivered[s]) : Header(delivered[s][i]) = h[i]
        /\ rd[s] = "body" => /\ Len(delivered[s]) < Len(h)
                             /\ Header(tmp[s]) = h[Len(delivered[s]) + 1]
    BY <1>1 DEF Direction, Got, Half, h
  <2>2. /\ Len(delivered'[s]) <= Len(h')
        /\ \A i \in 1 .. Len(delivered'[s]) : Header(delivered'[s][i]) = h'[i]
    BY <1>1, <1>4, <2>1
  <2>3. rd'[s] = "body" => /\ Len(delivered'[s]) < Len(h')
                           /\ Header(tmp'[s]) = h'[Len(delivered'[s]) + 1]
    <3> SUFFICES ASSUME rd[s] = "body"
                 PROVE  /\ Len(delivered[s]) < Len(h')
                        /\ Header(tmp[s]) = h'[Len(delivered[s]) + 1]
      OBVIOUS
    <3>1. Len(delivered[s]) + 1 \in 1 .. Len(h)
      BY <1>1, <2>1
    <3> QED BY <1>1, <1>4, <2>1, <3>1
  <2> QED BY <2>2, <2>3 DEF Got, Half, h
<1>6. ASSUME Flowing(s)' PROVE Flow(s)'
  <2>1. FlowOf(d, h, ch, o, w, po, al)
    BY <1>6 DEF Direction, Flow, d, h, ch, w, po, o, al
  <2>2. FlowOf(d, h', ch, o, w, Append(po, x), al)
    <3>1. CASE x.fn = "send"
      BY <1>1, <1>2, <1>3, <2>1, <3>1, FlowPost
    <3>2. CASE x.fn # "send"
      BY <1>1, <1>3, <2>1, <3>2, FlowPostClose
    <3> QED BY <3>1, <3>2
  <2>3. FlowOf(d, h', ch, o, w, Append(po, x), al')
    <3> DEFINE g == h'
               p == Append(po, x)
               a2 == al'
    <3>1. FlowOf(d, g, ch, o, w, p, al) /\ al
      BY <1>2, <2>2
    <3> HIDE DEF g, p, a2
    <3>2. FlowOf(d, g, ch, o, w, p, a2)
      BY <3>1, FlowWeaken
    <3> QED BY <3>2 DEF g, p, a2
  <2>4. FlowOf(d', h', ch', o', w', po', al')
    BY <1>2, <2>3
  <2> QED BY <2>4 DEF Flow, d, h, ch, w, po, o, al
<1> QED BY <1>5, <1>6 DEF Direction

(* What is sent is lost: the io thread of the sender has ended. *)
LEMMA DirectionDropped ==
  ASSUME WriteInv, NEW s \in Side, NEW r, r = Peer(s), Direction(s), NEW m \in Msg,
         ~IOAlive(r), ~IOAlive(r)', posted'[r] = posted[r], sent'[r] = Append(sent[r], m),
         delivered'[s] = delivered[s], tmp'[s] = tmp[s], rd'[s] = rd[s], chan'[s] = chan[s],
         Flowing(s)' => Flowing(s), sock'[r] = sock[r], Waiting(r)' = Waiting(r)
  PROVE  Direction(s)'
<1> DEFINE d == Len(delivered[s]) + Pending(s)
           h == H(s)
           ch == chan[s]
           w == Waiting(r)
           po == posted[r]
           o == sock[r] # "closed"
           al == IOAlive(r)
           x == [fn |-> "send", msg |-> m]
<1>1. /\ h \in Seq(HeaderOrNone) /\ Len(h) \in Nat /\ ch \in Seq(Frame) /\ w \in Seq(Msg)
      /\ po \in Seq(Posted) /\ sent[r] \in Seq(Msg) /\ delivered[s] \in Seq(Msg)
  BY DirectionTypes
<1>2. d' = d /\ ch' = ch /\ w' = w /\ o' = o /\ po' = po /\ ~al /\ ~al'
  BY DEF Pending
<1>3. h' = Append(h, Header(m)) /\ Header(m) \in HeaderOrNone
  <2>1. h = HeadersOf(sent[r]) /\ h' = HeadersOf(Append(sent[r], m))
    BY DEF H
  <2> HIDE DEF h
  <2> QED BY <1>1, <2>1, HeadersAppend, HeaderTypes
<1>4. x \in Posted /\ x.fn = "send" /\ x.msg = m
  BY DEF Posted
<1> HIDE DEF d, h, ch, w, po, o, al, x
<1>5. /\ Len(h') = Len(h) + 1
      /\ \A i \in 1 .. Len(h) : h'[i] = h[i]
  BY <1>1, <1>3
<1>6. Got(s)' /\ Half(s)'
  <2>1. /\ Len(delivered[s]) <= Len(h) /\ Len(delivered[s]) \in Nat
        /\ \A i \in 1 .. Len(delivered[s]) : Header(delivered[s][i]) = h[i]
        /\ rd[s] = "body" => /\ Len(delivered[s]) < Len(h)
                             /\ Header(tmp[s]) = h[Len(delivered[s]) + 1]
    BY <1>1 DEF Direction, Got, Half, h
  <2>2. /\ Len(delivered'[s]) <= Len(h')
        /\ \A i \in 1 .. Len(delivered'[s]) : Header(delivered'[s][i]) = h'[i]
    BY <1>1, <1>5, <2>1
  <2>3. rd'[s] = "body" => /\ Len(delivered'[s]) < Len(h')
                           /\ Header(tmp'[s]) = h'[Len(delivered'[s]) + 1]
    <3> SUFFICES ASSUME rd[s] = "body"
                 PROVE  /\ Len(delivered[s]) < Len(h')
                        /\ Header(tmp[s]) = h'[Len(delivered[s]) + 1]
      OBVIOUS
    <3>1. Len(delivered[s]) + 1 \in 1 .. Len(h)
      BY <1>1, <2>1
    <3> QED BY <1>1, <1>5, <2>1, <3>1
  <2> QED BY <2>2, <2>3 DEF Got, Half, h
<1>7. ASSUME Flowing(s)' PROVE Flow(s)'
  <2>1. FlowOf(d, h, ch, o, w, po, al)
    BY <1>7 DEF Direction, Flow, d, h, ch, w, po, o, al
  <2>2. FlowOf(d, Append(h, Header(x.msg)), ch, o, w, po, al)
    BY <1>1, <1>2, <1>4, <2>1, FlowPost
  <2>3. FlowOf(d', h', ch', o', w', po', al')
    <3> DEFINE g == h'
               a2 == al'
    <3>1. FlowOf(d, g, ch, o, w, po, al) /\ ~a2
      BY <1>2, <1>3, <1>4, <2>2
    <3> HIDE DEF g, a2
    <3>2. FlowOf(d, g, ch, o, w, po, a2)
      BY <3>1, FlowWeaken
    <3> QED BY <1>2, <3>2 DEF g, a2
  <2> QED BY <2>3 DEF Flow, d, h, ch, w, po, o, al
<1> QED BY <1>6, <1>7 DEF Direction

-----------------------------------------------------------------------------
(* The initial states, the network and the applications. *)
LEMMA DirectionInit == ASSUME Init, NEW s \in Side PROVE Direction(s)
<1>1. /\ Peer(s) \in Side
      /\ \A t \in Side : /\ sent[t] = <<>> /\ delivered[t] = <<>> /\ chan[t] = <<>>
                         /\ rd[t] = "none" /\ wr[t] = <<>> /\ out[t] = <<>>
                         /\ posted[t] = <<>>
  BY DEF Init, Peer, Side
<1>2. H(s) = <<>>
  BY <1>1 DEF H, HeadersOf
<1>3. Waiting(Peer(s)) = <<>>
  BY <1>1 DEF Waiting
<1>4. Got(s) /\ Half(s)
  BY <1>1, <1>2 DEF Got, Half
<1>5. \A f : Along(<<>>, f) = <<>>
  BY DEF Along
<1>6. Numbered(<<>>, <<>>, 0, 0)
  <2>1. <<>> \in Seq(Nat) /\ 0 \in 0 .. Len(<<>>)
    OBVIOUS
  <2> QED BY <2>1, NumberedEmpty
<1>7. FlowOf(0, <<>>, <<>>, sock[Peer(s)] # "closed", <<>>, <<>>, IOAlive(Peer(s)))
  <2> DEFINE o == sock[Peer(s)] # "closed"
             al == IOAlive(Peer(s))
  <2> HIDE DEF o, al
  <2>1. FlowOf(0, <<>>, <<>>, o, <<>>, <<>>, al)
    BY <1>5, <1>6 DEF FlowOf
  <2> QED BY <2>1 DEF o, al
<1>8. Len(delivered[s]) + Pending(s) = 0
  <2>1. delivered[s] = <<>> /\ rd[s] = "none"
    BY <1>1
  <2>2. Len(delivered[s]) = 0 /\ Pending(s) = 0
    BY <2>1 DEF Pending
  <2> QED BY <2>2
<1>9. Flow(s)
  BY <1>1, <1>2, <1>3, <1>7, <1>8 DEF Flow
<1> QED BY <1>4, <1>9 DEF Direction

(* Two steps of a side, and what its io thread has left to do. *)
LEMMA AliveSame ==
  ASSUME NEW r \in Side, connecting' = connecting, rd'[r] = rd[r], wr'[r] = wr[r],
         posted'[r] = posted[r]
  PROVE  IOAlive(r)' = IOAlive(r)
BY DEF IOAlive

LEMMA WaitingSame ==
  ASSUME NEW r \in Side, wr'[r] = wr[r], out'[r] = out[r]
  PROVE  Waiting(r)' = Waiting(r)
BY DEF Waiting

(* A step that leaves the streams, the receiver and the sender alone. *)
LEMMA DirectionSame ==
  ASSUME NEW s \in Side, NEW r \in Side, r = Peer(s), Direction(s),
         delivered'[s] = delivered[s], tmp'[s] = tmp[s], rd'[s] = rd[s], chan'[s] = chan[s],
         Flowing(s)' => Flowing(s),
         sent'[r] = sent[r], sock'[r] = sock[r], wr'[r] = wr[r], out'[r] = out[r],
         posted'[r] = posted[r], IOAlive(r)' => IOAlive(r)
  PROVE  Direction(s)'
<1>1. Waiting(r)' = Waiting(r)
  BY WaitingSame
<1> QED BY <1>1, DirectionIdle

LEMMA DirectionPost ==
  ASSUME WriteInv, NEW s \in Side, Direction(s), NEW r \in Side, NEW x \in Posted, Post(r, x),
         UNCHANGED <<net, sock, reading, writing, validation>>,
         \A t \in Side : sent'[t] = IF t = r /\ x.fn = "send" THEN Append(sent[t], x.msg)
                                    ELSE sent[t]
  PROVE  Direction(s)'
<1> DEFINE t == Peer(s)
<1>1. t \in Side /\ posted \in [Side -> Seq(Posted)]
  BY DEF WriteInv, TypeOK, Peer, Side
<1>2. /\ UNCHANGED <<link, connecting, chan, sock, rd, tmp, delivered, desync, wr, out>>
      /\ Flowing(s)' => Flowing(s)
  BY DEF net, reading, writing, Flowing
<1>3. Waiting(t)' = Waiting(t)
  BY <1>1, <1>2, WaitingSame
<1>4. CASE t # r \/ (~IOAlive(r) /\ x.fn # "send")
  <2>1. posted'[t] = posted[t] /\ sent'[t] = sent[t]
    BY <1>1, <1>4 DEF Post
  <2>2. IOAlive(t)' = IOAlive(t)
    BY <1>1, <1>2, <2>1, AliveSame
  <2> QED BY <1>1, <1>2, <2>1, <2>2, DirectionSame
<1>5. CASE t = r /\ IOAlive(r)
  <2>1. posted'[r] = Append(posted[r], x)
    BY <1>1, <1>5 DEF Post
  <2> QED BY <1>1, <1>2, <1>3, <1>5, <2>1, DirectionPosted
<1>6. CASE t = r /\ ~IOAlive(r) /\ x.fn = "send"
  <2>1. posted'[r] = posted[r]
    BY <1>6 DEF Post
  <2>2. ~IOAlive(r)'
    BY <1>1, <1>2, <1>6, <2>1, AliveSame
  <2>3. x.msg \in Msg /\ sent'[r] = Append(sent[r], x.msg)
    BY <1>1, <1>6 DEF Posted
  <2> QED BY <1>1, <1>2, <1>3, <1>6, <2>1, <2>2, <2>3, DirectionDropped
<1> QED BY <1>4, <1>5, <1>6

LEMMA DirectionOutside ==
  ASSUME StreamInv, NEW s \in Side, Direction(s), Network \/ Application
  PROVE  Direction(s)'
<1>1. WriteInv /\ Peer(s) \in Side /\ "server" \in Side /\ "client" \in Side
  BY DEF StreamInv, ServedInv, Peer, Side
<1>2. /\ sent \in [Side -> Seq(Msg)] /\ posted \in [Side -> Seq(Posted)]
      /\ delivered \in [Side -> Seq(Msg)] /\ handled \in Nat
  BY <1>1 DEF WriteInv, TypeOK
<1>3. ASSUME UNCHANGED <<connecting, sock, reading, writing, validation, posted, sent>>,
             Flowing(s)' => Flowing(s) /\ chan'[s] = chan[s]
      PROVE  Direction(s)'
  <2>1. Waiting(Peer(s))' = Waiting(Peer(s)) /\ IOAlive(Peer(s))' = IOAlive(Peer(s))
    BY <1>1, <1>3, WaitingSame, AliveSame DEF reading, writing
  <2> QED BY <1>1, <1>3, <2>1, DirectionIdle DEF reading
<1>4. CASE Network
  <2>1. UNCHANGED <<connecting, sock, reading, writing, validation, posted, sent>>
    BY <1>4 DEF Network, Establish, Reset, app
  <2>2. Flowing(s)' => Flowing(s) /\ chan'[s] = chan[s]
    BY <1>4 DEF Network, Establish, Reset, Flowing, reading
  <2> QED BY <1>3, <2>1, <2>2
<1>5. ASSUME NEW t \in Side, NEW size \in Sizes, Send(t, size) PROVE Direction(s)'
  <2> DEFINE m == NewMsg(Len(sent[t]) + 1, size)
             x == [fn |-> "send", msg |-> m]
  <2>1. size \in Nat /\ Len(sent[t]) + 1 \in Nat
    BY <1>2, TrafficAssumption
  <2>2. m \in Msg
    BY <2>1, NewMsgType
  <2>3. x \in Posted /\ x.fn = "send" /\ x.msg = m
    BY <2>2 DEF Posted
  <2>4. /\ Post(t, x) /\ sent' = [sent EXCEPT ![t] = Append(@, m)]
        /\ UNCHANGED <<net, sock, reading, writing, validation>>
    BY <1>5 DEF Send
  <2> HIDE DEF m, x
  <2> QED BY <1>1, <1>2, <2>3, <2>4, DirectionPost
<1>6. CASE EchoMessage
  <2> DEFINE m == delivered["server"][handled + 1]
             x == [fn |-> "send", msg |-> m]
  <2>1. m \in Msg
    BY <1>1, <1>2, <1>6 DEF EchoMessage
  <2>2. x \in Posted /\ x.fn = "send" /\ x.msg = m
    BY <2>1 DEF Posted
  <2>3. CASE sock["server"] = "open"
    <3>1. /\ Post("server", x) /\ sent' = [sent EXCEPT !["server"] = Append(@, m)]
          /\ UNCHANGED <<net, sock, reading, writing, validation>>
      BY <1>6, <2>3 DEF EchoMessage
    <3> HIDE DEF m, x
    <3> QED BY <1>1, <1>2, <2>2, <3>1, DirectionPost
  <2>4. CASE sock["server"] # "open"
    <3>1. UNCHANGED <<net, sock, reading, writing, validation, posted, sent>>
      BY <1>6, <2>4 DEF EchoMessage
    <3> QED BY <1>3, <3>1 DEF net, reading, Flowing
  <2> QED BY <2>3, <2>4
<1>7. CASE Disconnect
  <2>1. UNCHANGED <<net, sock, reading, writing, validation, sent>>
    BY <1>7 DEF Disconnect
  <2>2. CASE sock["client"] = "open"
    <3> DEFINE x == [fn |-> "close"]
    <3>1. x \in Posted /\ x.fn = "close" /\ Post("client", x)
      BY <1>7, <2>2 DEF Disconnect, Posted
    <3> HIDE DEF x
    <3> QED BY <1>1, <2>1, <3>1, DirectionPost
  <2>3. CASE sock["client"] # "open"
    <3>1. UNCHANGED posted
      BY <1>7, <2>3 DEF Disconnect
    <3> QED BY <1>3, <2>1, <3>1 DEF net, reading, Flowing
  <2> QED BY <2>2, <2>3
<1>8. CASE StopContext
  <2>1. UNCHANGED <<net, sock, reading, writing, validation, sent, posted>>
    BY <1>8 DEF StopContext
  <2> QED BY <1>3, <2>1 DEF net, reading, Flowing
<1> QED BY <1>4, <1>5, <1>6, <1>7, <1>8 DEF Application

-----------------------------------------------------------------------------
(* Connecting and the handshake. *)
(* Validations are written well typed, and move no message. *)
LEMMA ValidationWrite ==
  ASSUME NEW v \in Values
  PROVE  [op |-> "validation", value |-> v] \in Write
BY DEF Write

LEMMA DirectionConnecting ==
  ASSUME StreamInv, NEW s \in Side, Direction(s), NEW t \in Side, Connecting(t)
  PROVE  Direction(s)'
<1>1. /\ WriteInv /\ HandshakeInv /\ Peer(s) \in Side /\ Peer(s) # s
      /\ "server" \in Side /\ "client" \in Side
  BY DEF StreamInv, ServedInv, Peer, Side
<1>2. /\ rd \in [Side -> {"none", "validation", "header", "body"}] /\ wr \in [Side -> Seq(Write)]
      /\ sock \in [Side -> {"none", "open", "closed"}] /\ hsOut \in [Side -> Values]
  BY <1>1, Typed
<1>3. CASE t = "client"
  <2>1. /\ ConnectToServer /\ connecting
        /\ UNCHANGED <<chan, sock, tmp, delivered, desync, wr, out, posted, sent, validation>>
        /\ link' # "reset" => link # "reset"
    BY <1>3 DEF Connecting, ConnectToServer, writing, app
  <2>2. rd["client"] = "none"
    BY <1>1, <2>1 DEF HandshakeInv
  <2>3. (rd[s] # "body" /\ rd'[s] # "body") \/ rd'[s] = rd[s]
    BY <1>1, <1>2, <2>1, <2>2 DEF ConnectToServer
  <2>4. Waiting(Peer(s))' = Waiting(Peer(s))
    BY <1>1, <2>1, WaitingSame
  <2>5. IOAlive(Peer(s))' => IOAlive(Peer(s))
    BY <2>1 DEF IOAlive
  <2>6. Flowing(s)' => Flowing(s)
    BY <2>1 DEF Flowing
  <2> QED BY <1>1, <2>1, <2>3, <2>4, <2>5, <2>6, DirectionIdle
<1>4. CASE t = "server"
  <2>1. /\ ConnectToClient /\ sock["server"] = "none"
        /\ UNCHANGED <<link, connecting, chan, tmp, delivered, desync, out, posted, sent,
                       validation>>
    BY <1>4 DEF Connecting, ConnectToClient, net, app
  <2>2. rd["server"] = "none"
    BY <1>1, <2>1 DEF HandshakeInv
  <2>3. /\ (rd[s] # "body" /\ rd'[s] # "body") \/ rd'[s] = rd[s]
        /\ sock'[s] # "closed" => sock[s] # "closed"
        /\ sock'[Peer(s)] # "closed" => sock[Peer(s)] # "closed"
    BY <1>1, <1>2, <2>1, <2>2 DEF ConnectToClient, Close
  <2>4. Flowing(s)' => Flowing(s)
    BY <2>1, <2>3 DEF Flowing
  <2>5. CASE s = "server"
    <3>1. Peer(s) = "client" /\ rd'["client"] = rd["client"] /\ wr'["client"] = wr["client"]
      <4>1. Peer(s) = "client"
        BY <2>5 DEF Peer
      <4>2. rd' = rd \/ rd' = [rd EXCEPT !["server"] = "validation"]
        BY <2>1 DEF ConnectToClient
      <4>3. wr' = wr \/ \E x : wr' = [wr EXCEPT !["server"] = x]
        BY <2>1 DEF ConnectToClient
      <4> QED BY <1>1, <1>2, <4>1, <4>2, <4>3
    <3>2. Waiting("client")' = Waiting("client") /\ IOAlive("client")' = IOAlive("client")
      BY <1>1, <2>1, <3>1, WaitingSame, AliveSame
    <3> QED BY <1>1, <2>1, <2>3, <2>4, <3>1, <3>2, DirectionIdle
  <2>6. CASE s = "client"
    <3> DEFINE v == [op |-> "validation", value |-> hsOut'["server"]]
               w == wr["server"]
    <3>1. Peer(s) = "server" /\ IOAlive("server")
      BY <2>6 DEF Peer, IOAlive
    <3>2. v \in Write /\ v.op # "body" /\ w \in Seq(Write)
      <4>1. PICK x \in Challenges : hsOut' = [hsOut EXCEPT !["server"] = x]
        BY <2>1 DEF ConnectToClient
      <4>2. hsOut'["server"] \in Values
        BY <1>1, <1>2, <4>1, HandshakeAssumption DEF Values
      <4>3. w \in Seq(Write)
        BY <1>1, <1>2
      <4> QED BY <4>2, <4>3, ValidationWrite
    <3>3. wr'["server"] = w \/ wr'["server"] = Append(w, v)
      BY <1>2, <2>1 DEF ConnectToClient
    <3> HIDE DEF v, w
    <3>4. HasOp(Append(w, v), "body") <=> HasOp(w, "body")
      BY <3>2, HasOpAppend
    <3>5. HasOp(wr'["server"], "body") <=> HasOp(wr["server"], "body")
      BY <3>3, <3>4 DEF w
    <3>6. Waiting("server")' = Waiting("server")
      BY <2>1, <3>5 DEF Waiting
    <3> QED BY <1>1, <2>1, <2>3, <2>4, <3>1, <3>6, DirectionIdle
  <2> QED BY <2>5, <2>6 DEF Side
<1> QED BY <1>3, <1>4 DEF Side

(* The receiver takes a frame that is no header. *)
LEMMA FlowSkips ==
  ASSUME WriteInv, NEW s \in Side, NEW r, r = Peer(s), Flow(s),
         chan[s] # <<>>, Head(chan[s]).kind # "header", chan'[s] = Tail(chan[s]),
         Len(delivered'[s]) + Pending(s)' = Len(delivered[s]) + Pending(s),
         sent'[r] = sent[r], sock'[r] = sock[r], wr'[r] = wr[r], out'[r] = out[r],
         posted'[r] = posted[r], rd'[r] = rd[r], connecting' = connecting
  PROVE  Flow(s)'
<1> DEFINE d == Len(delivered[s]) + Pending(s)
           h == H(s)
           ch == chan[s]
           w == Waiting(r)
           po == posted[r]
           o == sock[r] # "closed"
           al == IOAlive(r)
<1>1. h \in Seq(HeaderOrNone) /\ ch \in Seq(Frame) /\ r \in Side
  BY DirectionTypes
<1>2. FlowOf(d, h, ch, o, w, po, al) /\ ch # <<>> /\ Head(ch).kind # "header"
  BY DEF Flow
<1>3. Waiting(r)' = Waiting(r) /\ IOAlive(r)' = IOAlive(r)
  BY <1>1, WaitingSame, AliveSame
<1>4. FlowOf(d, h, Tail(ch), o, w, po, al)
  <2> HIDE DEF d, h, ch, o, w, po, al
  <2> QED BY <1>1, <1>2, FlowReceive
<1> QED BY <1>3, <1>4, FlowReceiverStep

LEMMA DirectionHandshake ==
  ASSUME StreamInv, NEW s \in Side, Direction(s), NEW t \in Side, Handshake(t)
  PROVE  Direction(s)'
<1>1. /\ WriteInv /\ HandshakeInv /\ Greeting /\ Peer(s) \in Side /\ Peer(s) # s
      /\ "server" \in Side /\ "client" \in Side
  BY DEF StreamInv, ServedInv, Peer, Side
<1>2. /\ rd \in [Side -> {"none", "validation", "header", "body"}] /\ wr \in [Side -> Seq(Write)]
      /\ chan \in [Side -> Seq(Frame)] /\ delivered \in [Side -> Seq(Msg)]
      /\ hsOut \in [Side -> Values]
  BY <1>1, Typed
<1>3. /\ rd[t] = "validation" /\ link = "up" /\ chan[t] # <<>>
      /\ chan' = [chan EXCEPT ![t] = Tail(@)]
      /\ UNCHANGED <<link, connecting, sock, tmp, delivered, desync, out, posted, sent>>
      /\ rd'[t] \in {"none", "header"} /\ \A r \in Side \ {t} : rd'[r] = rd[r]
  BY <1>2 DEF Handshake, ReadChallenge, ReadAnswer, CanRead, Consume, app, writing
<1>4. CASE t = "client"
  <2> DEFINE v == [op |-> "validation", value |-> Answer(ValueOf(Head(chan["client"])))]
             w == wr["client"]
  <2>1. /\ wr' = [wr EXCEPT !["client"] = Append(w, v)] /\ validation' = validation
        /\ rd["client"] = "validation"
    BY <1>4 DEF Handshake, ReadChallenge
  <2>2. v \in Write /\ v.op # "body" /\ w \in Seq(Write)
    <3>1. Answer(ValueOf(Head(chan["client"]))) \in Values
      BY <1>2, <1>3, <1>4, HeadTailProperties, HandshakeAssumption
         DEF Answer, ValueOf, Values, Frame
    <3>2. w \in Seq(Write)
      BY <1>1, <1>2
    <3> QED BY <3>1, <3>2, ValidationWrite
  <2>3. Flowing(s)' => Flowing(s)
    BY <1>3, <2>1 DEF Flowing
  <2>4. CASE s = "server"
    <3>1. Peer(s) = "client" /\ chan'[s] = chan[s]
      BY <1>2, <1>3, <1>4, <2>4 DEF Peer
    <3>2. HasOp(wr'["client"], "body") <=> HasOp(wr["client"], "body")
      <4>1. wr'["client"] = Append(w, v)
        <5> HIDE DEF v
        <5> QED BY <1>1, <1>2, <2>1
      <4> HIDE DEF v, w
      <4> QED BY <2>2, <4>1, HasOpAppend DEF w
    <3>3. Waiting("client")' = Waiting("client")
      BY <1>3, <3>2 DEF Waiting
    <3>4. IOAlive("client")
      BY <2>1 DEF IOAlive
    <3> QED BY <1>1, <1>3, <1>4, <2>3, <2>4, <3>1, <3>3, <3>4, DirectionIdle
  <2>5. CASE s = "client"
    <3>1. /\ Peer(s) = "server" /\ chan'[s] = Tail(chan[s]) /\ wr'["server"] = wr["server"]
          /\ rd[s] = "validation"
      BY <1>2, <1>3, <1>4, <2>1, <2>5 DEF Peer
    <3>2. Got(s)' /\ Half(s)'
      BY <1>3, <1>4, <2>5, <3>1 DEF Direction, Got, Half, H
    <3>3. Pending(s)' = Pending(s)
      BY <1>3, <1>4, <2>5, <3>1 DEF Pending
    <3>4. Head(chan[s]).kind = "nonce"
      BY <1>1, <1>3, <1>4, <2>1, <2>5 DEF Greeting, ChallengeFirst, Unanswered
    <3>5. ASSUME Flowing(s)' PROVE Flow(s)'
      <4>1. Flow(s)
        BY <2>3, <3>5 DEF Direction
      <4> QED BY <1>1, <1>3, <1>4, <2>5, <3>1, <3>3, <3>4, <4>1, FlowSkips
    <3> QED BY <3>2, <3>5 DEF Direction
  <2> QED BY <2>4, <2>5 DEF Side
<1>5. CASE t = "server"
  <2>1. wr' = wr /\ ReadAnswer
    BY <1>5 DEF Handshake, ReadAnswer, writing
  <2>2. CASE s = "client"
    <3>1. Peer(s) = "server" /\ chan'[s] = chan[s] /\ rd'[s] = rd[s]
      BY <1>2, <1>3, <1>5, <2>2 DEF Peer
    <3>2. Flowing(s)' => Flowing(s)
      BY <1>3, <2>2 DEF Flowing
    <3>3. IOAlive("server")
      BY DEF IOAlive
    <3> QED BY <1>1, <1>3, <2>1, <2>2, <3>1, <3>2, <3>3, DirectionSame
  <2>3. CASE s = "server"
    <3>1. Peer(s) = "client" /\ chan'[s] = Tail(chan[s]) /\ rd'["client"] = rd["client"]
      <4>1. Peer(s) = "client"
        BY <2>3 DEF Peer
      <4>2. chan'[s] = Tail(chan[s])
        BY <1>1, <1>2, <1>3, <1>5, <2>3
      <4>3. rd'["client"] = rd["client"]
        BY <1>1, <1>3, <1>5
      <4> QED BY <4>1, <4>2, <4>3
    <3>2. Got(s)' /\ Half(s)'
      BY <1>3, <1>5, <2>3 DEF Direction, Got, Half, H
    <3>3. Pending(s)' = Pending(s)
      BY <1>3, <1>5, <2>3 DEF Pending
    <3>4. ASSUME Flowing(s)' PROVE Flow(s)'
      <4>1. validation' # "failed" /\ validation = "pending" /\ hsOut["server"] \in Nonces
        BY <1>1, <1>3, <1>5, <2>3, <3>4 DEF Flowing, HandshakeInv
      <4>2. Flowing(s)
        BY <1>3, <3>4, <4>1 DEF Flowing
      <4>3. ValueOf(Head(chan["server"])) = Scramble[hsOut["server"]]
        BY <2>1, <4>1 DEF ReadAnswer
      <4>4. Head(chan["server"]).kind = "nonce"
        BY <4>1, <4>3, HandshakeAssumption DEF ValueOf
      <4> QED BY <1>1, <1>3, <1>5, <2>1, <2>3, <3>1, <3>3, <4>2, <4>4, FlowSkips DEF Direction
    <3> QED BY <3>2, <3>4 DEF Direction
  <2> QED BY <2>2, <2>3 DEF Side
<1> QED BY <1>4, <1>5 DEF Side

-----------------------------------------------------------------------------
(* The read handlers: what a receiver takes is the next message given to Send. *)
LEMMA FlowTakes ==
  ASSUME WriteInv, NEW s \in Side, NEW r, r = Peer(s), Flow(s), Pending(s) = 0,
         chan[s] # <<>>, Head(chan[s]).kind = "header"
  PROVE  /\ Len(delivered[s]) < Len(H(s))
         /\ H(s)[Len(delivered[s]) + 1] = Head(chan[s])
         /\ FlowOf(Len(delivered[s]) + 1, H(s), Tail(chan[s]), sock[r] # "closed",
                   Waiting(r), posted[r], IOAlive(r))
<1> DEFINE d == Len(delivered[s])
           h == H(s)
           ch == chan[s]
           w == Waiting(r)
           po == posted[r]
           o == sock[r] # "closed"
           al == IOAlive(r)
<1>1. h \in Seq(HeaderOrNone) /\ ch \in Seq(Frame) /\ d \in Nat /\ Len(h) \in Nat
  BY DirectionTypes
<1>2. d + Pending(s) = d
  BY <1>1
<1>3. FlowOf(d, h, ch, o, w, po, al) /\ ch # <<>> /\ Head(ch).kind = "header"
  BY <1>2 DEF Flow
<1>4. d \in 0 .. Len(h) - 1 /\ h[d + 1] = Head(ch) /\ FlowOf(d + 1, h, Tail(ch), o, w, po, al)
  <2> HIDE DEF d, h, ch, o, w, po, al
  <2> QED BY <1>1, <1>3, FlowReceive
<1>5. d < Len(h)
  BY <1>1, <1>4
<1> QED BY <1>4, <1>5

(* One more has arrived, the next of those given to Send. *)
LEMMA OneMoreGot ==
  ASSUME NEW g \in Seq(Msg), NEW m \in Msg, NEW h, Len(h) \in Nat,
         \A i \in 1 .. Len(g) : Header(g[i]) = h[i],
         Len(g) < Len(h), Header(m) = h[Len(g) + 1],
         NEW k, k = Append(g, m)
  PROVE  /\ Len(k) <= Len(h) /\ Len(k) = Len(g) + 1
         /\ \A i \in 1 .. Len(k) : Header(k[i]) = h[i]
<1>1. /\ Len(g) \in Nat /\ Len(k) = Len(g) + 1 /\ k[Len(g) + 1] = m
      /\ \A i \in 1 .. Len(g) : k[i] = g[i]
  OBVIOUS
<1>2. ASSUME NEW i \in 1 .. Len(k) PROVE Header(k[i]) = h[i]
  <2>1. CASE i = Len(g) + 1
    BY <1>1, <2>1
  <2>2. CASE i # Len(g) + 1
    <3>1. i \in 1 .. Len(g)
      BY <1>1, <2>2
    <3> QED BY <1>1, <3>1
  <2> QED BY <2>1, <2>2
<1> QED BY <1>1, <1>2

LEMMA DirectionReceives ==
  ASSUME StreamInv, ~desync, NEW s \in Side, Direction(s), ReadHeader(s) \/ ReadBody(s)
  PROVE  Direction(s)'
<1> DEFINE r == Peer(s)
           f == Head(chan[s])
<1>1. /\ WriteInv /\ HandshakeInv /\ r \in Side /\ r # s
  BY DEF StreamInv, ServedInv, Peer, Side
<1>2. /\ rd \in [Side -> {"none", "validation", "header", "body"}]
      /\ chan \in [Side -> Seq(Frame)] /\ delivered \in [Side -> Seq(Msg)]
      /\ tmp \in [Side -> Msg]
      /\ Len(delivered[s]) \in Nat /\ Len(H(s)) \in Nat
  BY <1>1, Typed, DirectionTypes DEF WriteInv, TypeOK
<1>3. /\ rd[s] \in {"header", "body"} /\ link = "up" /\ sock[s] = "open" /\ chan[s] # <<>>
      /\ chan'[s] = Tail(chan[s]) /\ f \in Frame
      /\ UNCHANGED <<link, connecting, sock, wr, out, posted, sent, validation>>
      /\ rd'[r] = rd[r]
  <2>1. /\ rd[s] \in {"header", "body"} /\ link = "up" /\ sock[s] = "open" /\ chan[s] # <<>>
        /\ chan' = [chan EXCEPT ![s] = Tail(@)]
        /\ UNCHANGED <<link, connecting, sock, wr, out, posted, sent, validation>>
    BY DEF ReadHeader, ReadBody, CanRead, Consume, writing, app
  <2>2. rd' = rd \/ \E x \in {"header", "body"} : rd' = [rd EXCEPT ![s] = x]
    BY DEF ReadHeader, ReadBody, AddToIncomingMessageQueue
  <2>3. f \in Frame
    BY <1>2, <2>1, HeadTailProperties
  <2> QED BY <1>1, <1>2, <2>1, <2>2, <2>3
<1>4. H(s)' = H(s) /\ Waiting(r)' = Waiting(r) /\ IOAlive(r)' = IOAlive(r)
  BY <1>1, <1>3, WaitingSame, AliveSame DEF H
<1>5. Flow(s)
  <2>1. s = "server" => validation # "failed"
    BY <1>1, <1>3 DEF HandshakeInv
  <2> QED BY <1>3, <2>1 DEF Direction, Flowing
<1>6. ASSUME desync' PROVE Direction(s)'
  <2>1. UNCHANGED <<tmp, rd, delivered>>
    BY <1>6 DEF ReadHeader, ReadBody
  <2>2. ~Flowing(s)'
    BY <1>6 DEF Flowing
  <2> QED BY <1>4, <2>1, <2>2 DEF Direction, Got, Half
<1>7. CASE ReadHeader(s) /\ ~desync'
  <2> DEFINE m == [tmp[s] EXCEPT !.id = f.id, !.size = f.size]
             n == Len(delivered[s])
  <2>1. /\ f.kind = "header" /\ tmp' = [tmp EXCEPT ![s] = m] /\ rd[s] = "header"
        /\ IF f.size > 0
             THEN rd' = [rd EXCEPT ![s] = "body"] /\ UNCHANGED delivered
             ELSE AddToIncomingMessageQueue(s, m)
    BY <1>7 DEF ReadHeader
  <2>2. m \in Msg /\ Header(m) = f
    BY <1>2, <1>3, <2>1 DEF Frame, Msg, Header
  <2>3. tmp'[s] = m
    BY <1>2, <2>1
  <2>4. Pending(s) = 0
    BY <2>1 DEF Pending
  <2>5. /\ n < Len(H(s)) /\ H(s)[n + 1] = f
        /\ FlowOf(n + 1, H(s), Tail(chan[s]), sock[r] # "closed",
                  Waiting(r), posted[r], IOAlive(r))
    BY <1>1, <1>3, <1>5, <2>1, <2>4, FlowTakes
  <2>6. CASE f.size > 0
    <3>1. rd'[s] = "body" /\ delivered' = delivered
      BY <1>2, <2>1, <2>6
    <3>2. Len(delivered'[s]) + Pending(s)' = n + 1
      BY <3>1 DEF Pending
    <3>3. Got(s)' /\ Half(s)'
      BY <1>4, <2>2, <2>3, <2>5, <3>1 DEF Direction, Got, Half
    <3> QED BY <1>3, <1>4, <2>5, <3>2, <3>3, FlowReceiverStep DEF Direction
  <2>7. CASE ~(f.size > 0)
    <3>1. rd'[s] = "header" /\ delivered'[s] = Append(delivered[s], m)
      BY <1>2, <2>1, <2>7 DEF AddToIncomingMessageQueue
    <3>2. Len(delivered'[s]) = n + 1 /\ Pending(s)' = 0
      BY <1>2, <2>2, <3>1 DEF Pending
    <3>3. Len(delivered'[s]) + Pending(s)' = n + 1
      BY <1>2, <3>2
    <3>4. /\ Len(delivered'[s]) <= Len(H(s))
          /\ \A i \in 1 .. Len(delivered'[s]) : Header(delivered'[s][i]) = H(s)[i]
      <4>1. /\ \A i \in 1 .. n : Header(delivered[s][i]) = H(s)[i]
            /\ delivered[s] \in Seq(Msg)
        BY <1>2 DEF Direction, Got
      <4> HIDE DEF m, f
      <4> QED BY <1>2, <2>2, <2>5, <3>1, <4>1, OneMoreGot
    <3>5. Got(s)' /\ Half(s)'
      BY <1>4, <3>1, <3>4 DEF Got, Half
    <3> QED BY <1>3, <1>4, <2>5, <3>3, <3>5, FlowReceiverStep DEF Direction
  <2> QED BY <2>6, <2>7
<1>8. CASE ReadBody(s) /\ ~desync'
  <2> DEFINE m == [tmp[s] EXCEPT !.body = f.body]
             n == Len(delivered[s])
  <2>1. /\ f.kind = "body" /\ tmp' = [tmp EXCEPT ![s] = m] /\ rd[s] = "body"
        /\ AddToIncomingMessageQueue(s, m)
    BY <1>8 DEF ReadBody
  <2>2. m \in Msg /\ Header(m) = Header(tmp[s])
    BY <1>2, <1>3, <2>1 DEF Frame, Msg, Header
  <2>3. rd'[s] = "header" /\ delivered'[s] = Append(delivered[s], m)
    BY <1>2, <2>1 DEF AddToIncomingMessageQueue
  <2>4. n < Len(H(s)) /\ Header(m) = H(s)[n + 1]
    BY <2>1, <2>2 DEF Direction, Half
  <2>5. Len(delivered'[s]) = n + 1 /\ Pending(s)' = 0 /\ Pending(s) = 1
    BY <1>2, <2>1, <2>2, <2>3 DEF Pending
  <2>6. Len(delivered'[s]) + Pending(s)' = Len(delivered[s]) + Pending(s)
    BY <1>2, <2>5
  <2>7. /\ Len(delivered'[s]) <= Len(H(s))
        /\ \A i \in 1 .. Len(delivered'[s]) : Header(delivered'[s][i]) = H(s)[i]
    <3>1. /\ \A i \in 1 .. n : Header(delivered[s][i]) = H(s)[i]
          /\ delivered[s] \in Seq(Msg)
      BY <1>2 DEF Direction, Got
    <3> HIDE DEF m, f
    <3> QED BY <1>2, <2>2, <2>3, <2>4, <3>1, OneMoreGot
  <2>8. Got(s)' /\ Half(s)'
    BY <1>4, <2>3, <2>7 DEF Got, Half
  <2>9. f.kind # "header"
    BY <2>1
  <2>10. Flow(s)'
    BY <1>1, <1>3, <1>5, <2>6, <2>9, FlowSkips
  <2> QED BY <2>8, <2>10 DEF Direction
<1> QED BY <1>6, <1>7, <1>8

LEMMA DirectionRead ==
  ASSUME StreamInv, ~desync, NEW s \in Side, Direction(s), NEW t \in Side,
         ReadHeader(t) \/ ReadBody(t) \/ ReadError(t)
  PROVE  Direction(s)'
<1> DEFINE r == Peer(s)
<1>1. /\ WriteInv /\ r \in Side /\ r # s /\ Side = {r, s}
  BY DEF StreamInv, ServedInv, Peer, Side
<1>2. /\ rd \in [Side -> {"none", "validation", "header", "body"}]
      /\ chan \in [Side -> Seq(Frame)] /\ delivered \in [Side -> Seq(Msg)]
      /\ tmp \in [Side -> Msg] /\ sock \in [Side -> {"none", "open", "closed"}]
      /\ posted \in [Side -> Seq(Posted)]
  BY <1>1, Typed DEF WriteInv, TypeOK
<1>3. CASE ReadHeader(t) \/ ReadBody(t)
  <2>1. CASE t = s
    BY <1>3, <2>1, DirectionReceives
  <2>2. CASE t = r
    <3>1. /\ UNCHANGED <<link, connecting, sock, wr, out, posted, sent, validation>>
          /\ rd[r] # "none"
      BY <1>3, <2>2 DEF ReadHeader, ReadBody, writing, app
    <3>2. rd'[s] = rd[s] /\ chan'[s] = chan[s] /\ tmp'[s] = tmp[s] /\ delivered'[s] = delivered[s]
      BY <1>1, <1>2, <1>3, <2>2 DEF ReadHeader, ReadBody, Consume, AddToIncomingMessageQueue
    <3>3. IOAlive(r)
      BY <3>1 DEF IOAlive
    <3>4. Flowing(s)' => Flowing(s)
      BY <3>1 DEF Flowing
    <3> QED BY <1>1, <3>1, <3>2, <3>3, <3>4, DirectionSame
  <2> QED BY <1>1, <2>1, <2>2
<1>4. CASE ReadError(t)
  <2>1. /\ UNCHANGED <<link, connecting, chan, tmp, delivered, desync, wr, out, sent, validation>>
        /\ rd[t] # "none" /\ rd' = [rd EXCEPT ![t] = "none"]
        /\ IF rd[t] = "header"
             THEN posted' = [posted EXCEPT ![t] = Append(@, [fn |-> "close"])] /\ sock' = sock
             ELSE sock' = [sock EXCEPT ![t] = "closed"] /\ posted' = posted
    BY <1>4 DEF ReadError, net, writing, Close
  <2>2. Waiting(r)' = Waiting(r)
    BY <1>1, <2>1, WaitingSame
  <2>3. CASE t = s
    <3>1. rd'[s] = "none" /\ rd'[r] = rd[r] /\ posted'[r] = posted[r] /\ sock'[r] = sock[r]
      BY <1>1, <1>2, <2>1, <2>3
    <3>2. IOAlive(r)' = IOAlive(r)
      BY <1>1, <2>1, <3>1, AliveSame
    <3>3. Flowing(s)' => Flowing(s) /\ rd[s] # "body"
      BY <1>2, <2>1, <2>3 DEF Flowing
    <3> QED BY <1>1, <2>1, <2>2, <3>1, <3>2, <3>3, DirectionIdle
  <2>4. CASE t = r
    <3>1. rd'[s] = rd[s] /\ sock'[s] = sock[s]
      BY <1>1, <1>2, <2>1, <2>4
    <3>2. Flowing(s)' => Flowing(s)
      BY <2>1, <3>1 DEF Flowing
    <3>3. IOAlive(r)
      BY <2>1, <2>4 DEF IOAlive
    <3>4. CASE rd[r] = "header"
      <4> DEFINE x == [fn |-> "close"]
      <4>1. x \in Posted /\ x.fn # "send" /\ posted'[r] = Append(posted[r], x)
        BY <1>1, <1>2, <2>1, <2>4, <3>4 DEF Posted
      <4> HIDE DEF x
      <4> QED BY <1>1, <2>1, <2>2, <2>4, <3>1, <3>2, <3>3, <3>4, <4>1, DirectionPosted
    <3>5. CASE rd[r] # "header"
      <4>1. sock'[r] = "closed"
        BY <1>1, <1>2, <2>1, <2>4, <3>5
      <4> QED BY <1>1, <2>1, <3>1, <3>2, <4>1, DirectionIdle
    <3> QED BY <3>4, <3>5
  <2> QED BY <1>1, <2>3, <2>4
<1> QED BY <1>3, <1>4

-----------------------------------------------------------------------------
(* The write handlers: a frame goes from the sender's queue into the stream. *)
LEMMA FlowWrites ==
  ASSUME WriteInv, NEW s \in Side, NEW r, r = Peer(s), Flow(s), sock[r] = "open", IOAlive(r),
         NEW f \in Frame, chan'[s] = Append(chan[s], f),
         NEW v, v = Waiting(r)',
         \/ /\ Waiting(r) # <<>> /\ f = Header(Head(Waiting(r)))
            /\ v = Tail(Waiting(r))
         \/ f.kind # "header" /\ v = Waiting(r),
         Len(delivered'[s]) + Pending(s)' = Len(delivered[s]) + Pending(s),
         sent'[r] = sent[r], sock'[r] = sock[r], posted'[r] = posted[r]
  PROVE  Flow(s)'
<1> DEFINE d == Len(delivered[s]) + Pending(s)
           h == H(s)
           ch == chan[s]
           w == Waiting(r)
           po == posted[r]
           al == IOAlive(r)
           a2 == IOAlive(r)'
           o == sock[r] # "closed"
<1>1. h \in Seq(HeaderOrNone) /\ ch \in Seq(Frame) /\ w \in Seq(Msg)
  BY DirectionTypes
<1>2. FlowOf(d, h, ch, o, w, po, al) /\ o /\ al /\ h' = h
  BY DEF Flow, H
<1>3. \/ w # <<>> /\ f = Header(Head(w)) /\ v = Tail(w)
      \/ f.kind # "header" /\ v = w
  OBVIOUS
<1>4. FlowOf(d, h, Append(ch, f), TRUE, v, po, a2)
  <2> HIDE DEF d, h, ch, o, w, po, al, a2
  <2>1. FlowOf(d, h, ch, TRUE, w, po, al)
    BY <1>2, FlowWeaken
  <2>2. FlowOf(d, h, Append(ch, f), TRUE, v, po, al)
    BY <1>1, <1>3, <2>1, FlowTransmit
  <2> QED BY <1>2, <2>2, FlowWeaken
<1>5. FlowOf(d, h, Append(ch, f), o', v, po, a2)
  <2>1. o'
    OBVIOUS
  <2> DEFINE o2 == o'
  <2> HIDE DEF d, h, ch, o, w, po, al, a2, o2
  <2>2. FlowOf(d, h, Append(ch, f), o2, v, po, a2)
    BY <1>4 DEF FlowOf
  <2> QED BY <2>2 DEF o2
<1>6. FlowOf(d', h', ch', o', v, po', a2)
  BY <1>2, <1>5
<1> QED BY <1>6 DEF Flow

LEMMA DirectionWrite ==
  ASSUME StreamInv, NEW s \in Side, Direction(s), NEW t \in Side, WriteStep(t)
  PROVE  Direction(s)'
<1> DEFINE r == Peer(s)
<1>1. /\ WriteInv /\ OneAnswer /\ r \in Side /\ r # s /\ Side = {r, s} /\ Peer(r) = s
  BY DEF StreamInv, ServedInv, Peer, Side
<1>2. /\ rd \in [Side -> {"none", "validation", "header", "body"}]
      /\ chan \in [Side -> Seq(Frame)] /\ delivered \in [Side -> Seq(Msg)]
      /\ sock \in [Side -> {"none", "open", "closed"}] /\ wr \in [Side -> Seq(Write)]
      /\ out \in [Side -> Seq(Msg)]
  BY <1>1, Typed DEF WriteInv, TypeOK
<1>3. CASE WriteError(t)
  <2>1. /\ UNCHANGED <<link, connecting, chan, rd, tmp, delivered, desync, out, posted, sent,
                       validation>>
        /\ wr[t] # <<>> /\ wr' = [wr EXCEPT ![t] = Tail(@)]
        /\ sock' = [sock EXCEPT ![t] = "closed"]
    BY <1>3 DEF WriteError, net, reading, app, Close
  <2>2. CASE t = s
    <3>1. ~Flowing(s)'
      BY <1>2, <2>1, <2>2 DEF Flowing
    <3> QED BY <2>1, <3>1, DirectionIdle
  <2>3. CASE t = r
    <3>1. sock'[r] = "closed" /\ (Flowing(s)' => Flowing(s))
      BY <1>1, <1>2, <2>1, <2>3 DEF Flowing
    <3> QED BY <1>1, <2>1, <3>1, DirectionIdle
  <2> QED BY <1>1, <2>2, <2>3
<1>4. CASE WriteValidation(t)
  <2> DEFINE f == Nonce(Head(wr[t]).value)
  <2>1. /\ UNCHANGED <<link, connecting, sock, tmp, delivered, desync, out, posted, sent,
                       validation>>
        /\ wr[t] # <<>> /\ Head(wr[t]).op = "validation" /\ sock[t] = "open"
        /\ wr' = [wr EXCEPT ![t] = Tail(@)]
        /\ chan' = [chan EXCEPT ![Peer(t)] = Append(@, f)]
        /\ rd' = IF t = "client" THEN [rd EXCEPT !["client"] = "header"] ELSE rd
    BY <1>4 DEF WriteValidation, CanWrite, Transmit, app
  <2>2. t = "client" => rd["client"] = "none"
    BY <1>1, <1>2, <2>1, HasOpTail DEF OneAnswer
  <2>3. /\ rd'[s] = rd[s] \/ (rd[s] # "body" /\ rd'[s] # "body")
        /\ rd'[r] = rd[r] \/ r = t
    <3>1. CASE t = "client"
      <4>1. rd'[t] = "header" /\ rd[t] = "none" /\ \A x \in Side \ {t} : rd'[x] = rd[x]
        BY <1>2, <2>1, <2>2, <3>1
      <4> QED BY <1>1, <4>1
    <3>2. CASE t # "client"
      BY <2>1, <3>2
    <3> QED BY <3>1, <3>2
  <2>4. Flowing(s)' => Flowing(s)
    BY <2>1 DEF Flowing
  <2>5. CASE t = s
    <3>1. wr'[r] = wr[r] /\ chan'[s] = chan[s] /\ rd'[r] = rd[r]
      BY <1>1, <1>2, <2>1, <2>3, <2>5
    <3>2. Waiting(r)' = Waiting(r) /\ IOAlive(r)' = IOAlive(r)
      BY <1>1, <2>1, <3>1, WaitingSame, AliveSame
    <3> QED BY <1>1, <2>1, <2>3, <2>4, <3>1, <3>2, DirectionIdle
  <2>6. CASE t = r
    <3>1. f \in Frame /\ f.kind # "header"
      BY <1>1, <1>2, <2>1, <2>6, NonceFrame
    <3>2. chan'[s] = Append(chan[s], f) /\ wr'[r] = Tail(wr[r])
      BY <1>1, <1>2, <2>1, <2>6
    <3>3. HasOp(Tail(wr[r]), "body") <=> HasOp(wr[r], "body")
      BY <1>1, <1>2, <2>1, <2>6, HasOpTail
    <3>4. Waiting(r)' = Waiting(r)
      BY <2>1, <3>2, <3>3 DEF Waiting
    <3>5. IOAlive(r)
      BY <2>1, <2>6 DEF IOAlive
    <3>6. Got(s)' /\ Half(s)' /\ Pending(s)' = Pending(s)
      BY <2>1, <2>3 DEF Direction, Got, Half, H, Pending
    <3> HIDE DEF f
    <3>7. Flow(s) => Flow(s)'
      BY <1>1, <2>1, <2>6, <3>1, <3>2, <3>4, <3>5, <3>6, FlowWrites
    <3> QED BY <2>4, <3>6, <3>7 DEF Direction
  <2> QED BY <1>1, <2>5, <2>6
<1>5. CASE WriteHeader(t) \/ WriteBody(t)
  <2>1. /\ wr[t] # <<>> /\ sock[t] = "open"
        /\ UNCHANGED <<link, connecting, sock, rd, tmp, delivered, desync, posted, sent,
                       hsOut, validation>>
        /\ \A x \in Side \ {t} : wr'[x] = wr[x] /\ out'[x] = out[x]
    BY <1>1, <1>5, MessageWrite
  <2>2. PICK f \in Frame :
          /\ chan' = [chan EXCEPT ![Peer(t)] = Append(@, f)]
          /\ \/ /\ f = Header(Head(Waiting(t))) /\ Waiting(t) # <<>>
                /\ Waiting(t)' = Tail(Waiting(t))
             \/ f.kind = "body" /\ Waiting(t)' = Waiting(t)
    BY <1>1, <1>5, MessageWrite
  <2>3. Flowing(s)' => Flowing(s)
    BY <2>1 DEF Flowing
  <2>4. CASE t = s
    <3>1. wr'[r] = wr[r] /\ out'[r] = out[r] /\ chan'[s] = chan[s]
      BY <1>1, <1>2, <2>1, <2>2, <2>4
    <3>2. IOAlive(r)' = IOAlive(r)
      BY <1>1, <2>1, <3>1, AliveSame
    <3> QED BY <1>1, <2>1, <2>3, <3>1, <3>2, DirectionSame
  <2>5. CASE t = r
    <3>1. chan'[s] = Append(chan[s], f)
      BY <1>1, <1>2, <2>2, <2>5
    <3>2. IOAlive(r)
      BY <2>1, <2>5 DEF IOAlive
    <3>3. Got(s)' /\ Half(s)' /\ Pending(s)' = Pending(s)
      BY <2>1 DEF Direction, Got, Half, H, Pending
    <3>4. /\ sent'[r] = sent[r] /\ sock'[r] = sock[r] /\ posted'[r] = posted[r]
          /\ sock[r] = "open"
          /\ Len(delivered'[s]) + Pending(s)' = Len(delivered[s]) + Pending(s)
      BY <2>1, <2>5, <3>3
    <3>5. \/ /\ Waiting(r) # <<>> /\ f = Header(Head(Waiting(r)))
             /\ Waiting(r)' = Tail(Waiting(r))
          \/ f.kind # "header" /\ Waiting(r)' = Waiting(r)
      BY <2>2, <2>5
    <3>6. Flow(s) => Flow(s)'
      BY <1>1, <3>1, <3>2, <3>4, <3>5, FlowWrites
    <3> QED BY <2>3, <3>3, <3>6 DEF Direction
  <2> QED BY <1>1, <2>4, <2>5
<1> QED BY <1>3, <1>4, <1>5 DEF WriteStep

-----------------------------------------------------------------------------
(* The posted functions: a send moves its message into the queue. *)
LEMMA QueuedBehind ==
  ASSUME WriteInv, NEW r \in Side, PostedSend(r)
  PROVE  Waiting(r)' = Append(Waiting(r), Head(posted[r]).msg)
<1> DEFINE m == Head(posted[r]).msg
           w == wr[r]
           q == out[r]
           p == Append(q, m)
<1>1. /\ posted \in [Side -> Seq(Posted)] /\ wr \in [Side -> Seq(Write)]
      /\ out \in [Side -> Seq(Msg)]
      /\ posted[r] # <<>> /\ Head(posted[r]).fn = "send"
  BY DEF WriteInv, TypeOK, PostedSend
<1>2. m \in Msg
  BY <1>1, HeadTailProperties DEF Posted
<1>3. w \in Seq(Write) /\ q \in Seq(Msg) /\ p \in Seq(Msg)
  BY <1>1, <1>2
<1>4. out'[r] = p /\ (wr'[r] = w \/ wr'[r] = w \o HeaderWrite(p))
  BY <1>1 DEF PostedSend
<1>5. HasOp(wr'[r], "body") <=> HasOp(w, "body")
  <2> HIDE DEF w, q, p
  <2>1. HasOp(w \o HeaderWrite(p), "body") <=> HasOp(w, "body")
    BY <1>3, HasOpHeaderWrite
  <2> QED BY <1>4, <2>1
<1>6. ASSUME HasOp(w, "body") PROVE q # <<>> /\ Tail(p) = Append(Tail(q), m)
  <2>1. PICK i \in 1 .. Len(w) : w[i].op = "body"
    BY <1>3, <1>6 DEF HasOp
  <2>2. q # <<>>
    BY <2>1 DEF WriteInv, OneMessageWrite, IsMessageWrite
  <2> HIDE DEF q, m
  <2>3. Len(q) \in Nat \ {0} /\ Tail(q) \in Seq(Msg) /\ Len(Tail(q)) = Len(q) - 1
        /\ \A j \in 1 .. Len(q) - 1 : Tail(q)[j] = q[j + 1]
    BY <1>3, <2>2, HeadTailProperties, EmptySeq
  <2>4. /\ p \in Seq(Msg) /\ p # <<>> /\ Len(p) = Len(q) + 1 /\ p[Len(q) + 1] = m
        /\ \A j \in 1 .. Len(q) : p[j] = q[j]
    BY <1>2, <1>3, HeadOfAppend
  <2>5. Tail(p) \in Seq(Msg) /\ Len(Tail(p)) = Len(q)
        /\ \A j \in 1 .. Len(q) : Tail(p)[j] = p[j + 1]
    <3> HIDE DEF p
    <3> QED BY <2>3, <2>4, HeadTailProperties
  <2> DEFINE t0 == Tail(q)
             b == Append(t0, m)
  <2>6. /\ b \in Seq(Msg) /\ Len(b) = Len(q) /\ b[Len(q)] = m
        /\ \A j \in 1 .. Len(q) - 1 : b[j] = t0[j]
    <3>1. t0 \in Seq(Msg) /\ Len(t0) = Len(q) - 1
      BY <2>3
    <3> HIDE DEF t0
    <3>2. /\ b \in Seq(Msg) /\ Len(b) = Len(t0) + 1 /\ b[Len(t0) + 1] = m
          /\ \A j \in 1 .. Len(t0) : b[j] = t0[j]
      BY <1>2, <3>1
    <3> QED BY <2>3, <3>1, <3>2
  <2>7. ASSUME NEW j \in 1 .. Len(b) PROVE b[j] = Tail(p)[j]
    <3>1. CASE j = Len(q)
      BY <2>3, <2>4, <2>5, <2>6, <3>1
    <3>2. CASE j # Len(q)
      <4>1. Len(b) = Len(q) /\ Len(q) \in Nat
        BY <2>3, <2>6
      <4> HIDE DEF b
      <4>2. j \in 1 .. Len(q) - 1 /\ j \in 1 .. Len(q) /\ j + 1 \in 1 .. Len(q)
        BY <3>2, <4>1
      <4> QED BY <2>3, <2>4, <2>5, <2>6, <4>2
    <3> QED BY <3>1, <3>2
  <2>8. b = Tail(p)
    <3> DEFINE c == Tail(p)
    <3>1. /\ b \in Seq(Msg) /\ c \in Seq(Msg) /\ Len(b) = Len(c)
          /\ \A j \in 1 .. Len(b) : b[j] = c[j]
      BY <2>5, <2>6, <2>7
    <3> HIDE DEF b, c
    <3>2. b = c
      BY <3>1, SeqEqual
    <3> QED BY <3>2 DEF c
  <2> QED BY <2>2, <2>8
<1> QED BY <1>4, <1>5, <1>6 DEF Waiting

LEMMA DirectionPostedStep ==
  ASSUME StreamInv, NEW s \in Side, Direction(s), NEW t \in Side, PostedStep(t)
  PROVE  Direction(s)'
<1> DEFINE r == Peer(s)
<1>1. /\ WriteInv /\ r \in Side /\ r # s /\ Side = {r, s}
  BY DEF StreamInv, ServedInv, Peer, Side
<1>2. /\ posted \in [Side -> Seq(Posted)] /\ wr \in [Side -> Seq(Write)]
      /\ out \in [Side -> Seq(Msg)] /\ sock \in [Side -> {"none", "open", "closed"}]
  BY <1>1 DEF WriteInv, TypeOK
<1>3. /\ UNCHANGED <<link, connecting, chan, rd, tmp, delivered, desync, sent, validation>>
      /\ posted[t] # <<>> /\ posted' = [posted EXCEPT ![t] = Tail(@)]
      /\ \A x \in Side \ {t} : wr'[x] = wr[x] /\ out'[x] = out[x] /\ sock'[x] = sock[x]
      /\ sock'[s] # "closed" => sock[s] # "closed"
  BY <1>2 DEF PostedStep, PostedSend, PostedClose, Close, net, reading, writing
<1>4. Flowing(s)' => Flowing(s)
  BY <1>3 DEF Flowing
<1>5. CASE t = s
  <2>1. wr'[r] = wr[r] /\ out'[r] = out[r] /\ sock'[r] = sock[r] /\ posted'[r] = posted[r]
    BY <1>1, <1>2, <1>3, <1>5
  <2>2. IOAlive(r)' = IOAlive(r)
    BY <1>1, <1>3, <2>1, AliveSame
  <2> QED BY <1>1, <1>3, <1>4, <2>1, <2>2, DirectionSame
<1>6. CASE t = r /\ sock'[r] = "closed"
  BY <1>1, <1>3, <1>4, <1>6, DirectionIdle
<1>7. CASE t = r /\ sock'[r] # "closed"
  <2> DEFINE d == Len(delivered[s]) + Pending(s)
             h == H(s)
             ch == chan[s]
             w == Waiting(r)
             po == posted[r]
             o == sock[r] # "closed"
             al == IOAlive(r)
             a2 == IOAlive(r)'
  <2>1. PostedSend(r) /\ Head(po).fn = "send" /\ sock' = sock
    BY <1>2, <1>7 DEF PostedStep, PostedSend, PostedClose, Close
  <2>2. h \in Seq(HeaderOrNone) /\ w \in Seq(Msg) /\ po \in Seq(Posted) /\ po # <<>>
    BY <1>1, <1>3, <1>7, DirectionTypes
  <2>3. w' = Append(w, Head(po).msg) /\ po' = Tail(po)
    BY <1>1, <1>2, <1>3, <1>7, <2>1, QueuedBehind
  <2>4. h' = h /\ d' = d /\ ch' = ch /\ o' = o /\ o /\ al
    BY <1>3, <1>7, <2>1 DEF H, Pending, IOAlive
  <2>5. Got(s)' /\ Half(s)'
    BY <1>3, <2>4 DEF Direction, Got, Half
  <2>6. ASSUME Flowing(s)' PROVE Flow(s)'
    <3>1. FlowOf(d, h, ch, o, w, po, al)
      BY <1>4, <2>6 DEF Direction, Flow
    <3>2. FlowOf(d, h, ch, o, Append(w, Head(po).msg), Tail(po), a2)
      <4> HIDE DEF d, h, ch, w, po, o, al, a2
      <4>1. FlowOf(d, h, ch, TRUE, w, po, TRUE)
        BY <2>4, <3>1, FlowWeaken
      <4>2. FlowOf(d, h, ch, TRUE, Append(w, Head(po).msg), Tail(po), a2)
        BY <2>1, <2>2, <4>1, FlowQueue
      <4> QED BY <4>2, FlowWeaken
    <3>3. FlowOf(d', h', ch', o', w', po', a2)
      BY <2>3, <2>4, <3>2
    <3> QED BY <3>3 DEF Flow
  <2> QED BY <2>5, <2>6 DEF Direction
<1> QED BY <1>1, <1>5, <1>6, <1>7

-----------------------------------------------------------------------------
(***************************************************************************)
(* The inductive invariant, and the refinement it supports.                *)
(***************************************************************************)
ClientHeaders ==
  \A i \in 1 .. Len(sent["client"]) : Header(sent["client"][i]) \in Headers("client")

FlowInv == StreamInv /\ (\A s \in Side : Direction(s)) /\ ClientHeaders

Carried(s) == IF s = "server" THEN Headers("client") ELSE Headers("client") \cup Headers("server")

(* All that happens to what is sent to an end and what arrives there. *)
Given(s) ==
  \E m \in Msg : /\ Header(m) \in Carried(s) /\ sent'[Peer(s)] = Append(sent[Peer(s)], m)
                 /\ delivered'[s] = delivered[s]
Arrived(s) ==
  \E m \in Msg : delivered'[s] = Append(delivered[s], m) /\ sent'[Peer(s)] = sent[Peer(s)]
Nothing(s) == delivered'[s] = delivered[s] /\ sent'[Peer(s)] = sent[Peer(s)]

LEMMA SendGives ==
  ASSUME FlowInv, NEW t \in Side, NEW size \in Sizes, Send(t, size), NEW s \in Side
  PROVE  (Given(s) \/ Nothing(s)) /\ ClientHeaders'
<1> DEFINE m == NewMsg(Len(sent[t]) + 1, size)
<1>1. sent \in [Side -> Seq(Msg)] /\ Peer(s) \in Side
  BY DEF FlowInv, StreamInv, ServedInv, WriteInv, TypeOK, Peer, Side
<1>2. size \in Nat /\ Len(sent[t]) + 1 \in Nat /\ Len(sent[t]) \in Nat /\ MaxSend[t] \in Nat
  BY <1>1, TrafficAssumption
<1>3. m \in Msg /\ m.id = Len(sent[t]) + 1 /\ m.size = size
  BY <1>2, NewMsgType DEF NewMsg
<1>4. /\ sent' = [sent EXCEPT ![t] = Append(@, m)] /\ delivered' = delivered
      /\ Len(sent[t]) < MaxSend[t]
  BY DEF Send, reading
<1>5. Header(m) \in Headers(t)
  BY <1>2, <1>3, <1>4 DEF Header, Headers
<1>6. Peer(s) = t => Headers(t) \subseteq Carried(s)
  BY DEF Peer, Carried, Side
<1> HIDE DEF m
<1>7. Given(s) \/ Nothing(s)
  BY <1>1, <1>3, <1>4, <1>5, <1>6 DEF Given, Nothing
<1>8. ClientHeaders'
  <2>1. CASE t = "client"
    <3>1. /\ sent'["client"] = Append(sent["client"], m)
          /\ Header(m) \in Headers("client") /\ sent["client"] \in Seq(Msg)
      BY <1>1, <1>4, <1>5, <2>1
    <3>2. \A i \in 1 .. Len(sent["client"]) : Header(sent["client"][i]) \in Headers("client")
      BY DEF FlowInv, ClientHeaders
    <3>3. /\ Len(sent'["client"]) = Len(sent["client"]) + 1 /\ Len(sent["client"]) \in Nat
          /\ sent'["client"][Len(sent["client"]) + 1] = m
          /\ \A i \in 1 .. Len(sent["client"]) : sent'["client"][i] = sent["client"][i]
      BY <1>3, <3>1
    <3>4. Headers("client")' = Headers("client")
      BY DEF Headers
    <3>5. ASSUME NEW i \in 1 .. Len(sent'["client"])
          PROVE  Header(sent'["client"][i]) \in Headers("client")
      <4>1. CASE i = Len(sent["client"]) + 1
        BY <3>1, <3>3, <4>1
      <4>2. CASE i # Len(sent["client"]) + 1
        <5>1. i \in 1 .. Len(sent["client"])
          BY <3>3, <4>2
        <5> QED BY <3>2, <3>3, <5>1
      <4> QED BY <4>1, <4>2
    <3> QED BY <3>4, <3>5 DEF ClientHeaders
  <2>2. CASE t # "client"
    <3>1. sent'["client"] = sent["client"]
      BY <1>1, <1>4, <2>2 DEF Side
    <3> QED BY <3>1 DEF FlowInv, ClientHeaders, Headers
  <2> QED BY <2>1, <2>2
<1> QED BY <1>7, <1>8

LEMMA EchoGives ==
  ASSUME FlowInv, EchoMessage, NEW s \in Side
  PROVE  (Given(s) \/ Nothing(s)) /\ sent'["client"] = sent["client"]
<1> DEFINE m == delivered["server"][handled + 1]
<1>1. /\ sent \in [Side -> Seq(Msg)] /\ delivered \in [Side -> Seq(Msg)] /\ handled \in Nat
      /\ "server" \in Side /\ "client" \in Side /\ Peer(s) \in Side
  BY DEF FlowInv, StreamInv, ServedInv, WriteInv, TypeOK, Peer, Side
<1>2. delivered' = delivered /\ handled < Len(delivered["server"])
  BY DEF EchoMessage, reading
<1>3. handled + 1 \in 1 .. Len(delivered["server"]) /\ Len(delivered["server"]) \in Nat
  BY <1>1, <1>2
<1>4. m \in Msg
  BY <1>1, <1>3
<1>5. Header(m) \in Headers("client")
  <2>1. /\ Len(delivered["server"]) <= Len(H("server"))
        /\ Header(m) = H("server")[handled + 1]
    BY <1>1, <1>3 DEF FlowInv, Direction, Got
  <2>2. Peer("server") = "client"
    BY DEF Peer
  <2>3. Len(H("server")) = Len(sent["client"]) /\ Len(sent["client"]) \in Nat
    BY <1>1, <2>2 DEF H, HeadersOf
  <2>4. handled + 1 \in 1 .. Len(sent["client"])
    BY <1>3, <2>1, <2>3
  <2>5. H("server")[handled + 1] = Header(sent["client"][handled + 1])
    BY <2>2, <2>4 DEF H, HeadersOf
  <2> QED BY <2>1, <2>4, <2>5 DEF FlowInv, ClientHeaders
<1>6. sent' = [sent EXCEPT !["server"] = Append(@, m)] \/ sent' = sent
  BY DEF EchoMessage
<1>7. sent'["client"] = sent["client"]
  BY <1>1, <1>6
<1>8. CASE s = "client"
  <2>1. Peer(s) = "server" /\ Header(m) \in Carried(s)
    BY <1>5, <1>8 DEF Peer, Carried
  <2>2. sent'["server"] = Append(sent["server"], m) \/ sent' = sent
    BY <1>1, <1>6
  <2> HIDE DEF m
  <2> QED BY <1>2, <1>4, <1>7, <2>1, <2>2 DEF Given, Nothing
<1>9. CASE s = "server"
  BY <1>2, <1>7, <1>9 DEF Nothing, Peer
<1> QED BY <1>8, <1>9 DEF Side

LEMMA StepGives ==
  ASSUME FlowInv, [Next]_vars, NEW s \in Side
  PROVE  (Given(s) \/ Arrived(s) \/ Nothing(s)) /\ ClientHeaders'
<1>1. /\ delivered \in [Side -> Seq(Msg)] /\ tmp \in [Side -> Msg] /\ chan \in [Side -> Seq(Frame)]
  BY DEF FlowInv, StreamInv, ServedInv, WriteInv, TypeOK
<1>2. ASSUME sent' = sent, delivered' = delivered
      PROVE  Nothing(s) /\ ClientHeaders'
  BY <1>2 DEF Nothing, FlowInv, ClientHeaders, Headers
<1>3. ASSUME sent' = sent, NEW t \in Side, NEW m \in Msg,
             delivered' = [delivered EXCEPT ![t] = Append(@, m)]
      PROVE  (Arrived(s) \/ Nothing(s)) /\ ClientHeaders'
  BY <1>1, <1>3 DEF Arrived, Nothing, FlowInv, ClientHeaders, Headers
<1>4. CASE UNCHANGED vars
  BY <1>2, <1>4 DEF vars
<1>5. CASE Network \/ Disconnect \/ StopContext
  <2>1. sent' = sent /\ delivered' = delivered
    BY <1>5 DEF Network, Establish, Reset, Disconnect, StopContext, reading, app
  <2> QED BY <1>2, <2>1
<1>6. ASSUME NEW t \in Side, NEW size \in Sizes, Send(t, size)
      PROVE  (Given(s) \/ Nothing(s)) /\ ClientHeaders'
  BY <1>6, SendGives
<1>7. CASE EchoMessage
  <2>1. (Given(s) \/ Nothing(s)) /\ sent'["client"] = sent["client"]
    BY <1>7, EchoGives
  <2> QED BY <2>1 DEF FlowInv, ClientHeaders, Headers
<1>8. ASSUME NEW t \in Side, Connecting(t) \/ WriteStep(t) \/ Handshake(t) \/ PostedStep(t) \/ ReadError(t)
      PROVE  Nothing(s) /\ ClientHeaders'
  <2>1. sent' = sent /\ delivered' = delivered
    BY <1>8 DEF Connecting, ConnectToServer, ConnectToClient, WriteStep, WriteValidation,
       WriteHeader, WriteBody, WriteError, Handshake, ReadChallenge, ReadAnswer,
       PostedStep, PostedSend, PostedClose, ReadError, reading, app
  <2> QED BY <1>2, <2>1
<1>9. ASSUME NEW t \in Side, ReadHeader(t) \/ ReadBody(t)
      PROVE  (Arrived(s) \/ Nothing(s)) /\ ClientHeaders'
  <2> DEFINE f == Head(chan[t])
             m == [tmp[t] EXCEPT !.id = f.id, !.size = f.size]
             b == [tmp[t] EXCEPT !.body = f.body]
  <2>1. sent' = sent /\ chan[t] # <<>>
    BY <1>9 DEF ReadHeader, ReadBody, CanRead, app
  <2>2. f \in Frame
    BY <1>1, <2>1, HeadTailProperties
  <2>3. /\ f.kind = "header" => m \in Msg
        /\ f.kind = "body" => b \in Msg
    BY <1>1, <2>2 DEF Frame, Msg
  <2>4. \/ delivered' = delivered
        \/ f.kind = "header" /\ delivered' = [delivered EXCEPT ![t] = Append(@, m)]
        \/ f.kind = "body" /\ delivered' = [delivered EXCEPT ![t] = Append(@, b)]
    BY <1>9 DEF ReadHeader, ReadBody, AddToIncomingMessageQueue
  <2> HIDE DEF f, m, b
  <2> QED BY <1>2, <1>3, <2>1, <2>3, <2>4
<1> QED BY <1>4, <1>5, <1>6, <1>7, <1>8, <1>9 DEF Next, Application, ReadStep

LEMMA FlowInit == Init => FlowInv
<1> SUFFICES ASSUME Init PROVE FlowInv
  OBVIOUS
<1>1. StreamInv
  BY WriteInit, ServedInit, HandshakeInit, StreamInit DEF StreamInv, ServedInv
<1>2. Len(sent["client"]) = 0
  BY DEF Init, Side
<1> QED BY <1>1, <1>2, DirectionInit DEF FlowInv, ClientHeaders

LEMMA FlowNext == FlowInv /\ [Next]_vars => FlowInv'
<1> SUFFICES ASSUME FlowInv, [Next]_vars PROVE FlowInv'
  OBVIOUS
<1>1. StreamInv' /\ StreamInv
  BY StreamNext DEF FlowInv
<1>2. ClientHeaders'
  <2>1. "server" \in Side
    BY DEF Side
  <2> QED BY <2>1, StepGives
<1>3. ASSUME NEW s \in Side PROVE Direction(s)'
  <2>1. Direction(s)
    BY DEF FlowInv
  <2>2. CASE UNCHANGED vars
    <3>1. /\ Peer(s) \in Side /\ Flowing(s)' = Flowing(s)
          /\ IOAlive(Peer(s))' = IOAlive(Peer(s))
      BY <2>2 DEF vars, Peer, Side, Flowing, IOAlive
    <3> QED BY <2>1, <2>2, <3>1, DirectionSame DEF vars
  <2>3. CASE Network \/ Application
    BY <1>1, <2>1, <2>3, DirectionOutside
  <2>4. ASSUME ~desync, NEW t \in Side,
               Connecting(t) \/ WriteStep(t) \/ ReadStep(t) \/ PostedStep(t)
        PROVE  Direction(s)'
    BY <1>1, <2>1, <2>4, DirectionConnecting, DirectionHandshake, DirectionWrite,
       DirectionRead, DirectionPostedStep DEF ReadStep
  <2> QED BY <2>2, <2>3, <2>4 DEF Next
<1> QED BY <1>1, <1>2, <1>3 DEF FlowInv

-----------------------------------------------------------------------------
(* The queue of what has not arrived, when one is put in and one taken out. *)
Rest(p, n) == HeadersOf(SubSeq(p, n + 1, Len(p)))

LEMMA RestPut ==
  ASSUME NEW p \in Seq(Msg), NEW n \in 0 .. Len(p), NEW m \in Msg
  PROVE  Rest(Append(p, m), n) = Append(Rest(p, n), Header(m))
<1> DEFINE k == Len(p)
           a == Append(p, m)
           u == SubSeq(p, n + 1, k)
           v == SubSeq(a, n + 1, k + 1)
<1>1. /\ k \in Nat /\ a \in Seq(Msg) /\ Len(a) = k + 1 /\ a[k + 1] = m
      /\ \A i \in 1 .. k : a[i] = p[i] /\ p[i] \in Msg
  OBVIOUS
<1>2. /\ n + 1 \in Int /\ k + 1 \in Int
      /\ \A i \in n + 1 .. k : p[i] \in Msg
      /\ \A i \in n + 1 .. k + 1 : a[i] \in Msg
  BY <1>1
<1>3. /\ u \in Seq(Msg) /\ Len(u) = k - n
      /\ \A i \in 1 .. k - n : u[i] = p[n + i]
  <2>1. /\ u \in Seq(Msg)
        /\ Len(u) = IF n + 1 <= k THEN k - (n + 1) + 1 ELSE 0
        /\ \A i \in 1 .. k - (n + 1) + 1 : u[i] = p[(n + 1) + i - 1]
    BY <1>1, <1>2, SubSeqProperties
  <2>2. k - (n + 1) + 1 = k - n /\ (n + 1 <= k \/ k - n = 0)
    BY <1>1
  <2>3. \A i \in 1 .. k - n : (n + 1) + i - 1 = n + i
    BY <1>1
  <2> HIDE DEF u
  <2> QED BY <2>1, <2>2, <2>3
<1>4. /\ v \in Seq(Msg) /\ Len(v) = k - n + 1
      /\ \A i \in 1 .. k - n + 1 : v[i] = a[n + i]
  <2> HIDE DEF a
  <2>1. /\ v \in Seq(Msg)
        /\ Len(v) = IF n + 1 <= k + 1 THEN (k + 1) - (n + 1) + 1 ELSE 0
        /\ \A i \in 1 .. (k + 1) - (n + 1) + 1 : v[i] = a[(n + 1) + i - 1]
    BY <1>1, <1>2, SubSeqProperties
  <2>2. (k + 1) - (n + 1) + 1 = k - n + 1 /\ n + 1 <= k + 1
    BY <1>1
  <2>3. \A i \in 1 .. k - n + 1 : (n + 1) + i - 1 = n + i
    BY <1>1
  <2> HIDE DEF v
  <2> QED BY <2>1, <2>2, <2>3
<1>5. v = Append(u, m)
  <2> HIDE DEF u, v, a
  <2>1. Append(u, m) \in Seq(Msg) /\ Len(Append(u, m)) = k - n + 1
        /\ Append(u, m)[k - n + 1] = m
        /\ \A i \in 1 .. k - n : Append(u, m)[i] = u[i]
    BY <1>1, <1>3
  <2>2. ASSUME NEW i \in 1 .. Len(v) PROVE v[i] = Append(u, m)[i]
    <3>1. CASE i = k - n + 1
      BY <1>1, <1>4, <2>1, <3>1
    <3>2. CASE i # k - n + 1
      <4>1. k \in Nat /\ n \in 0 .. k /\ i \in 1 .. k - n + 1
        BY <1>1, <1>4
      <4>2. i \in 1 .. k - n /\ n + i \in 1 .. k
        <5> HIDE DEF k
        <5> QED BY <3>2, <4>1
      <4> QED BY <1>1, <1>3, <1>4, <2>1, <4>1, <4>2
    <3> QED BY <3>1, <3>2
  <2> QED BY <1>4, <2>1, <2>2, SeqEqual
<1> HIDE DEF u, v, a, k
<1>6. HeadersOf(v) = Append(HeadersOf(u), Header(m))
  BY <1>3, <1>5, HeadersAppend
<1>7. Len(a) = k + 1
  BY <1>1
<1> QED BY <1>6, <1>7 DEF Rest, u, v, a, k

LEMMA RestTake ==
  ASSUME NEW p \in Seq(Msg), NEW n \in Nat, n < Len(p)
  PROVE  /\ Rest(p, n) # <<>> /\ Head(Rest(p, n)) = Header(p[n + 1])
         /\ Rest(p, n + 1) = Tail(Rest(p, n))
<1> DEFINE k == Len(p)
           u == SubSeq(p, n + 1, k)
<1>1. k \in Nat /\ n + 1 \in 1 .. k /\ k \in n + 1 .. k /\ (n + 1) + 1 = n + 2
  OBVIOUS
<1>2. Head(u) = p[n + 1] /\ Tail(u) = SubSeq(p, (n + 1) + 1, k)
  BY <1>1, HeadTailOfSubSeq
<1>3. u \in Seq(Msg) /\ Len(u) # 0
  <2>1. \A i \in n + 1 .. k : p[i] \in Msg
    OBVIOUS
  <2>2. u \in Seq(Msg) /\ Len(u) = IF n + 1 <= k THEN k - (n + 1) + 1 ELSE 0
    BY <1>1, <2>1, SubSeqProperties
  <2> HIDE DEF u
  <2> QED BY <1>1, <2>2
<1> HIDE DEF u
<1>4. u # <<>>
  BY <1>3
<1>5. /\ HeadersOf(u) # <<>> /\ Head(HeadersOf(u)) = Header(Head(u))
      /\ HeadersOf(Tail(u)) = Tail(HeadersOf(u))
  BY <1>3, <1>4, HeadersTail
<1>6. Rest(p, n) = HeadersOf(u) /\ Rest(p, n + 1) = HeadersOf(Tail(u))
  BY <1>2 DEF Rest, u
<1> QED BY <1>2, <1>5, <1>6

(* One step of the abstract queue. *)
QueueStep(s) ==
  \/ \E x \in Carried(s) :
       /\ Undelivered(s)' = Append(Undelivered(s), x)
       /\ HeadersOf(sent[Peer(s)])' = Append(HeadersOf(sent[Peer(s)]), x)
       /\ HeadersOf(delivered[s])' = HeadersOf(delivered[s])
  \/ /\ Undelivered(s) # <<>>
     /\ Undelivered(s)' = Tail(Undelivered(s))
     /\ HeadersOf(delivered[s])' = Append(HeadersOf(delivered[s]), Head(Undelivered(s)))
     /\ HeadersOf(sent[Peer(s)])' = HeadersOf(sent[Peer(s)])
  \/ UNCHANGED <<Undelivered(s), HeadersOf(sent[Peer(s)]), HeadersOf(delivered[s])>>

LEMMA DirectionStep ==
  ASSUME FlowInv, [Next]_vars, NEW s \in Side
  PROVE  QueueStep(s)
<1> DEFINE p == sent[Peer(s)]
           g == delivered[s]
           n == Len(delivered[s])
<1>1. /\ p \in Seq(Msg) /\ g \in Seq(Msg) /\ n \in Nat /\ Len(p) \in Nat
      /\ Peer(s) \in Side
  BY DirectionTypes DEF FlowInv, StreamInv, ServedInv
<1>2. Direction(s) /\ Direction(s)' /\ Len(H(s)) = Len(p)
  BY <1>1, FlowNext, DirectionTypes DEF FlowInv, StreamInv, ServedInv
<1>3. Undelivered(s) = Rest(p, n) /\ Undelivered(s)' = Rest(p', n')
  BY DEF Undelivered, Rest
<1>4. n \in 0 .. Len(p)
  BY <1>1, <1>2 DEF Direction, Got
<1>5. CASE Given(s)
  <2>1. PICK m \in Msg : Header(m) \in Carried(s) /\ p' = Append(p, m) /\ g' = g
    BY <1>5 DEF Given
  <2>2. n' = n
    BY <2>1
  <2>3. Rest(p', n') = Append(Rest(p, n), Header(m))
    BY <1>1, <1>4, <2>1, <2>2, RestPut
  <2>4. HeadersOf(p)' = Append(HeadersOf(p), Header(m)) /\ HeadersOf(g)' = HeadersOf(g)
    <3>1. HeadersOf(p)' = HeadersOf(p') /\ HeadersOf(g)' = HeadersOf(g')
      BY DEF HeadersOf
    <3>2. HeadersOf(Append(p, m)) = Append(HeadersOf(p), Header(m))
      BY <1>1, HeadersAppend
    <3> QED BY <2>1, <3>1, <3>2
  <2>5. Undelivered(s)' = Append(Undelivered(s), Header(m))
    BY <1>3, <2>3
  <2> QED BY <2>1, <2>4, <2>5 DEF QueueStep
<1>6. CASE Arrived(s)
  <2>1. PICK m \in Msg : g' = Append(g, m) /\ p' = p
    BY <1>6 DEF Arrived
  <2>2. n' = n + 1 /\ g'[n + 1] = m /\ n + 1 \in 1 .. n'
    BY <1>1, <2>1
  <2>3. H(s)' = H(s)
    BY <2>1 DEF H
  <2>4. n + 1 <= Len(p) /\ Header(m) = H(s)[n + 1]
    BY <1>2, <2>2, <2>3 DEF Direction, Got
  <2>5. n < Len(p) /\ n + 1 \in 1 .. Len(p)
    BY <1>1, <2>4
  <2>6. Header(m) = Header(p[n + 1])
    BY <2>4, <2>5 DEF H, HeadersOf
  <2>7. /\ Rest(p, n) # <<>> /\ Head(Rest(p, n)) = Header(m)
        /\ Rest(p', n') = Tail(Rest(p, n))
    BY <1>1, <2>1, <2>2, <2>5, <2>6, RestTake
  <2>8. HeadersOf(g)' = Append(HeadersOf(g), Header(m)) /\ HeadersOf(p)' = HeadersOf(p)
    <3>1. HeadersOf(p)' = HeadersOf(p') /\ HeadersOf(g)' = HeadersOf(g')
      BY DEF HeadersOf
    <3>2. HeadersOf(Append(g, m)) = Append(HeadersOf(g), Header(m))
      BY <1>1, HeadersAppend
    <3> QED BY <2>1, <3>1, <3>2
  <2>9. /\ Undelivered(s) # <<>> /\ Undelivered(s)' = Tail(Undelivered(s))
        /\ Head(Undelivered(s)) = Header(m)
    BY <1>3, <2>7
  <2> QED BY <2>8, <2>9 DEF QueueStep
<1>7. CASE Nothing(s)
  <2>1. p' = p /\ g' = g
    BY <1>7 DEF Nothing
  <2> QED BY <2>1 DEF QueueStep, Undelivered, HeadersOf
<1> QED BY <1>5, <1>6, <1>7, StepGives

(***************************************************************************)
(* Each direction of a connection is a FIFO channel: whatever is posted,   *)
(* written, read, lost, reset or closed, and in whatever order the two io  *)
(* threads and applications take their steps, the headers that reach       *)
(* m_qMessagesIn are those given to Send, in that order.                   *)
(***************************************************************************)
THEOREM EachDirectionFIFO == Spec => ImplementsFIFO
<1>1. "server" \in Side /\ "client" \in Side
      /\ Peer("server") = "client" /\ Peer("client") = "server"
  BY DEF Peer, Side
<1>2. Init => ToServer!Init /\ ToClient!Init
  <2> SUFFICES ASSUME Init PROVE ToServer!Init /\ ToClient!Init
    OBVIOUS
  <2>1. \A s \in Side : sent[s] = <<>> /\ delivered[s] = <<>>
    BY DEF Init
  <2>2. HeadersOf(<<>>) = <<>>
    BY DEF HeadersOf
  <2>3. Undelivered("server") = <<>> /\ Undelivered("client") = <<>>
    <3>1. SubSeq(<<>>, 1, 0) = <<>>
      BY SubSeqEmpty
    <3>2. Len(<<>>) + 1 = 1 /\ Len(<<>>) = 0
      OBVIOUS
    <3> QED BY <1>1, <2>1, <2>2, <3>1, <3>2 DEF Undelivered
  <2> QED BY <1>1, <2>1, <2>2, <2>3 DEF ToServer!Init, ToClient!Init
<1>3. FlowInv /\ [Next]_vars => [ToServer!Next]_(ToServer!vars)
  <2> SUFFICES ASSUME FlowInv, [Next]_vars PROVE ToServer!Next \/ UNCHANGED ToServer!vars
    OBVIOUS
  <2>1. QueueStep("server")
    BY <1>1, DirectionStep
  <2> QED BY <1>1, <2>1 DEF QueueStep, Carried, ToServer!Next, ToServer!Put, ToServer!Take, ToServer!vars
<1>4. FlowInv /\ [Next]_vars => [ToClient!Next]_(ToClient!vars)
  <2> SUFFICES ASSUME FlowInv, [Next]_vars PROVE ToClient!Next \/ UNCHANGED ToClient!vars
    OBVIOUS
  <2>1. QueueStep("client")
    BY <1>1, DirectionStep
  <2> QED BY <1>1, <2>1 DEF QueueStep, Carried, ToClient!Next, ToClient!Put, ToClient!Take, ToClient!vars
<1>5. Spec => ToServer!Spec
  BY <1>2, <1>3, FlowInit, FlowNext, PTL DEF Spec, ToServer!Spec
<1>6. Spec => ToClient!Spec
  BY <1>2, <1>4, FlowInit, FlowNext, PTL DEF Spec, ToClient!Spec
<1> QED BY <1>5, <1>6 DEF ImplementsFIFO

-----------------------------------------------------------------------------
(***************************************************************************)
(* Bodies, when no message is built without one.  The messages that exist  *)
(* have the body they were built with; a body in the stream follows the    *)
(* header of its message, maybe with the answer of the handshake between   *)
(* them, and the next header is not written before it.                     *)
(***************************************************************************)
Bodied == {m \in Msg : m.size > 0 /\ m.body = m.id}
BodiedPosted == [fn : {"send"}, msg : Bodied] \cup [fn : {"close"}]

MessagesBodied ==
  /\ sent \in [Side -> Seq(Bodied)]
  /\ delivered \in [Side -> Seq(Bodied)]
  /\ out \in [Side -> Seq(Bodied)]
  /\ posted \in [Side -> Seq(BodiedPosted)]

\* After a frame the last header is that with this id, if it was n before it.
Title(f, n) == IF f.kind = "header" THEN f.id ELSE n
MayFollow(f, n) ==
  /\ f.kind = "header" => f.size > 0
  /\ f.kind = "body" => f.body = n

Titled(q, lo, hi) ==
  \E c \in [0 .. Len(q) -> Nat] :
    /\ c[0] = lo /\ c[Len(q)] = hi
    /\ \A i \in 1 .. Len(q) : c[i] = Title(q[i], c[i - 1]) /\ MayFollow(q[i], c[i - 1])

BodyWritesOf(w, n) == \A i \in DOMAIN w : w[i].op = "body" => w[i].msg.id = n

Bodies(s) ==
  /\ Flowing(s) => \E n \in Nat : Titled(chan[s], tmp[s].id, n) /\ BodyWritesOf(wr[Peer(s)], n)
  /\ rd[s] = "body" => tmp[s].size > 0

BodyInv == FlowInv /\ MessagesBodied /\ \A s \in Side : Bodies(s)

LEMMA TitledBy ==
  ASSUME NEW q, NEW n, n = Len(q), NEW d \in [0 .. n -> Nat],
         \A i \in 1 .. n : d[i] = Title(q[i], d[i - 1]) /\ MayFollow(q[i], d[i - 1])
  PROVE  Titled(q, d[0], d[n])
BY DEF Titled

LEMMA TitledEmpty ==
  ASSUME NEW n \in Nat, NEW q, q = <<>>
  PROVE  Titled(q, n, n)
<1> DEFINE c == [i \in 0 .. Len(q) |-> n]
<1>1. Len(q) = 0
  OBVIOUS
<1>2. c \in [0 .. Len(q) -> Nat] /\ c[0] = n /\ c[Len(q)] = n
  BY <1>1
<1> HIDE DEF c
<1> QED BY <1>1, <1>2 DEF Titled

LEMMA TitledAppend ==
  ASSUME NEW q \in Seq(Frame), NEW x \in Frame, NEW lo, NEW hi, Titled(q, lo, hi),
         MayFollow(x, hi)
  PROVE  Titled(Append(q, x), lo, Title(x, hi)) /\ Title(x, hi) \in Nat
<1> DEFINE n == Len(q)
           k == Title(x, hi)
<1>1. PICK c \in [0 .. n -> Nat] :
        /\ c[0] = lo /\ c[n] = hi
        /\ \A i \in 1 .. n : c[i] = Title(q[i], c[i - 1]) /\ MayFollow(q[i], c[i - 1])
  BY DEF Titled
<1>2. /\ n \in Nat /\ Len(Append(q, x)) = n + 1
      /\ \A i \in 1 .. n : Append(q, x)[i] = q[i]
      /\ Append(q, x)[n + 1] = x
  OBVIOUS
<1>3. k \in Nat
  <2>1. hi \in Nat
    BY <1>1, <1>2
  <2>2. x.kind = "header" => x.id \in Nat
    BY DEF Frame
  <2> QED BY <2>1, <2>2 DEF Title
<1> DEFINE d == [i \in 0 .. n + 1 |-> IF i = n + 1 THEN k ELSE c[i]]
<1> HIDE DEF k
<1>4. d \in [0 .. n + 1 -> Nat]
  BY <1>2, <1>3
<1>5. d[0] = lo /\ d[n + 1] = k /\ \A i \in 0 .. n : d[i] = c[i]
  BY <1>1, <1>2
<1> HIDE DEF d
<1>6. ASSUME NEW i \in 1 .. n + 1
      PROVE  d[i] = Title(Append(q, x)[i], d[i - 1]) /\ MayFollow(Append(q, x)[i], d[i - 1])
  <2>1. CASE i = n + 1
    <3>1. i - 1 = n /\ d[i - 1] = hi /\ d[i] = k /\ Append(q, x)[i] = x
      BY <1>1, <1>2, <1>5, <2>1
    <3> QED BY <3>1 DEF k
  <2>2. CASE i # n + 1
    <3>1. i \in 1 .. n /\ i - 1 \in 0 .. n /\ i \in 0 .. n
      BY <1>2, <2>2
    <3>2. d[i] = c[i] /\ d[i - 1] = c[i - 1] /\ Append(q, x)[i] = q[i]
      BY <1>2, <1>5, <3>1
    <3> QED BY <1>1, <3>1, <3>2
  <2> QED BY <2>1, <2>2
<1>7. Titled(Append(q, x), d[0], d[n + 1])
  BY <1>2, <1>4, <1>6, TitledBy
<1> QED BY <1>3, <1>5, <1>7 DEF k

LEMMA TitledTail ==
  ASSUME NEW q \in Seq(Frame), q # <<>>, NEW lo, NEW hi, Titled(q, lo, hi)
  PROVE  MayFollow(Head(q), lo) /\ Titled(Tail(q), Title(Head(q), lo), hi)
<1> DEFINE n == Len(q)
<1>1. PICK c \in [0 .. n -> Nat] :
        /\ c[0] = lo /\ c[n] = hi
        /\ \A i \in 1 .. n : c[i] = Title(q[i], c[i - 1]) /\ MayFollow(q[i], c[i - 1])
  BY DEF Titled
<1>2. /\ n \in Nat \ {0} /\ Len(Tail(q)) = n - 1 /\ Head(q) = q[1]
      /\ \A i \in 1 .. n - 1 : Tail(q)[i] = q[i + 1]
  BY HeadTailProperties, EmptySeq
<1> DEFINE d == [i \in 0 .. n - 1 |-> c[i + 1]]
<1>3. d \in [0 .. n - 1 -> Nat]
  BY <1>2
<1>4. d[0] = c[1] /\ d[n - 1] = hi /\ \A i \in 0 .. n - 1 : d[i] = c[i + 1]
  BY <1>1, <1>2
<1> HIDE DEF d
<1>5. ASSUME NEW i \in 1 .. n - 1
      PROVE  d[i] = Title(Tail(q)[i], d[i - 1]) /\ MayFollow(Tail(q)[i], d[i - 1])
  <2>1. /\ i + 1 \in 1 .. n /\ i - 1 \in 0 .. n - 1 /\ i \in 0 .. n - 1
        /\ (i - 1) + 1 = i /\ (i + 1) - 1 = i
    BY <1>2
  <2>2. d[i] = c[i + 1] /\ d[i - 1] = c[i] /\ Tail(q)[i] = q[i + 1]
    BY <1>2, <1>4, <2>1
  <2>3. c[i + 1] = Title(q[i + 1], c[(i + 1) - 1]) /\ MayFollow(q[i + 1], c[(i + 1) - 1])
    BY <1>1, <2>1
  <2> QED BY <2>1, <2>2, <2>3
<1>6. Titled(Tail(q), d[0], d[n - 1])
  BY <1>2, <1>3, <1>5, TitledBy
<1>7. 1 \in 1 .. n /\ 1 - 1 = 0
  BY <1>2
<1>8. c[1] = Title(Head(q), lo) /\ MayFollow(Head(q), lo)
  <2>1. c[1] = Title(q[1], c[1 - 1]) /\ MayFollow(q[1], c[1 - 1])
    BY <1>1, <1>7
  <2> QED BY <1>1, <1>2, <1>7, <2>1
<1> QED BY <1>4, <1>6, <1>8

(* What handlers make of the bodies to be written. *)
LEMMA BodyWritesAppend ==
  ASSUME NEW w \in Seq(Write), NEW v, NEW n, BodyWritesOf(w, n), v.op = "body" => v.msg.id = n
  PROVE  BodyWritesOf(Append(w, v), n)
<1>1. /\ Len(w) \in Nat /\ DOMAIN w = 1 .. Len(w)
      /\ DOMAIN Append(w, v) = 1 .. Len(w) + 1 /\ Append(w, v)[Len(w) + 1] = v
      /\ \A i \in 1 .. Len(w) : Append(w, v)[i] = w[i]
  OBVIOUS
<1>2. ASSUME NEW i \in DOMAIN Append(w, v), Append(w, v)[i].op = "body"
      PROVE  Append(w, v)[i].msg.id = n
  <2>1. CASE i = Len(w) + 1
    BY <1>1, <1>2, <2>1
  <2>2. CASE i # Len(w) + 1
    <3>1. i \in DOMAIN w /\ Append(w, v)[i] = w[i]
      BY <1>1, <1>2, <2>2
    <3> QED BY <1>2, <3>1 DEF BodyWritesOf
  <2> QED BY <2>1, <2>2
<1> QED BY <1>2 DEF BodyWritesOf

LEMMA BodyWritesTail ==
  ASSUME NEW w \in Seq(Write), w # <<>>, NEW n, BodyWritesOf(w, n)
  PROVE  BodyWritesOf(Tail(w), n) /\ (Head(w).op = "body" => Head(w).msg.id = n)
<1>1. /\ Len(w) \in Nat \ {0} /\ DOMAIN w = 1 .. Len(w) /\ Head(w) = w[1]
      /\ DOMAIN Tail(w) = 1 .. Len(w) - 1
      /\ \A i \in 1 .. Len(w) - 1 : Tail(w)[i] = w[i + 1]
  BY HeadTailProperties, EmptySeq
<1>2. \A i \in DOMAIN Tail(w) : i + 1 \in DOMAIN w /\ Tail(w)[i] = w[i + 1]
  BY <1>1
<1>3. 1 \in DOMAIN w
  BY <1>1
<1> QED BY <1>1, <1>2, <1>3 DEF BodyWritesOf

LEMMA BodyWritesNone ==
  ASSUME NEW w, ~HasOp(w, "body"), NEW n
  PROVE  BodyWritesOf(w, n)
BY DEF HasOp, BodyWritesOf

LEMMA BodyWritesHeader ==
  ASSUME NEW w \in Seq(Write), NEW q \in Seq(Msg), NEW n, BodyWritesOf(w, n)
  PROVE  BodyWritesOf(w \o HeaderWrite(q), n)
<1>1. CASE q = <<>>
  <2>1. w \o HeaderWrite(q) = w
    BY <1>1, HeaderWriteType, ConcatEmptySeq
  <2> QED BY <2>1
<1>2. CASE q # <<>>
  <2> DEFINE h == [op |-> "header", msg |-> Head(q)]
  <2>1. h \in Write /\ h.op # "body"
    BY <1>2, HeaderWriteType DEF Write
  <2>2. w \o HeaderWrite(q) = Append(w, h)
    BY <1>2, <2>1, HeaderWriteType, AppendIsConcat
  <2> HIDE DEF h
  <2> QED BY <2>1, <2>2, BodyWritesAppend
<1> QED BY <1>1, <1>2

(* The messages, when one is given to Send or to the application. *)
LEMMA BodiedPost ==
  ASSUME posted \in [Side -> Seq(BodiedPosted)], NEW t \in Side,
         NEW x \in BodiedPosted, Post(t, x)
  PROVE  posted' \in [Side -> Seq(BodiedPosted)]
<1>1. Append(posted[t], x) \in Seq(BodiedPosted)
  OBVIOUS
<1>2. [posted EXCEPT ![t] = Append(@, x)] \in [Side -> Seq(BodiedPosted)]
  BY <1>1
<1> QED BY <1>2 DEF Post

LEMMA BodiedPosts ==
  /\ \A m \in Bodied : [fn |-> "send", msg |-> m] \in BodiedPosted
  /\ [fn |-> "close"] \in BodiedPosted
BY DEF BodiedPosted

LEMMA BodiedOutside ==
  ASSUME 0 \notin Sizes, BodyInv, Network \/ Application
  PROVE  MessagesBodied'
<1>1. MessagesBodied /\ handled \in Nat /\ "server" \in Side /\ "client" \in Side
  BY DEF BodyInv, FlowInv, StreamInv, ServedInv, WriteInv, TypeOK, Side
<1>2. delivered' = delivered /\ out' = out
  BY DEF Network, Application, Establish, Reset, Send, EchoMessage, Disconnect, StopContext,
     reading, writing
<1>3. CASE Network \/ StopContext
  <2>1. sent' = sent /\ posted' = posted
    BY <1>3 DEF Network, Establish, Reset, StopContext, app
  <2> QED BY <1>1, <1>2, <2>1 DEF MessagesBodied
<1>4. ASSUME NEW t \in Side, NEW m \in Bodied,
             Post(t, [fn |-> "send", msg |-> m]), sent' = [sent EXCEPT ![t] = Append(@, m)]
      PROVE  MessagesBodied'
  <2>1. [fn |-> "send", msg |-> m] \in BodiedPosted
    BY BodiedPosts
  <2>2. posted' \in [Side -> Seq(BodiedPosted)]
    BY <1>1, <1>4, <2>1, BodiedPost DEF MessagesBodied
  <2>3. sent' \in [Side -> Seq(Bodied)]
    <3>1. Append(sent[t], m) \in Seq(Bodied)
      BY <1>1 DEF MessagesBodied
    <3> QED BY <1>1, <1>4, <3>1 DEF MessagesBodied
  <2> QED BY <1>1, <1>2, <2>2, <2>3 DEF MessagesBodied
<1>5. ASSUME NEW t \in Side, NEW size \in Sizes, Send(t, size) PROVE MessagesBodied'
  <2> DEFINE m == NewMsg(Len(sent[t]) + 1, size)
  <2>1. size \in Nat /\ size > 0 /\ Len(sent[t]) + 1 \in Nat
    BY <1>1, TrafficAssumption DEF MessagesBodied
  <2>2. m \in Bodied
    BY <2>1, NewMsgType DEF NewMsg, Bodied
  <2>3. Post(t, [fn |-> "send", msg |-> m]) /\ sent' = [sent EXCEPT ![t] = Append(@, m)]
    BY <1>5 DEF Send
  <2> HIDE DEF m
  <2> QED BY <1>4, <2>2, <2>3
<1>6. CASE EchoMessage
  <2> DEFINE m == delivered["server"][handled + 1]
  <2>1. CASE sock["server"] = "open"
    <3>1. /\ Post("server", [fn |-> "send", msg |-> m])
          /\ sent' = [sent EXCEPT !["server"] = Append(@, m)]
          /\ handled < Len(delivered["server"])
      BY <1>6, <2>1 DEF EchoMessage
    <3>2. m \in Bodied
      BY <1>1, <3>1 DEF MessagesBodied
    <3> HIDE DEF m
    <3> QED BY <1>1, <1>4, <3>1, <3>2
  <2>2. CASE sock["server"] # "open"
    <3>1. UNCHANGED <<posted, sent>>
      BY <1>6, <2>2 DEF EchoMessage
    <3> QED BY <1>1, <1>2, <3>1 DEF MessagesBodied
  <2> QED BY <2>1, <2>2
<1>7. CASE Disconnect
  <2>1. sent' = sent
    BY <1>7 DEF Disconnect
  <2>2. posted' \in [Side -> Seq(BodiedPosted)]
    <3>1. Post("client", [fn |-> "close"]) \/ posted' = posted
      BY <1>7 DEF Disconnect
    <3>2. [fn |-> "close"] \in BodiedPosted /\ posted \in [Side -> Seq(BodiedPosted)]
      BY <1>1, BodiedPosts DEF MessagesBodied
    <3> QED BY <1>1, <3>1, <3>2, BodiedPost
  <2> QED BY <1>1, <1>2, <2>1, <2>2 DEF MessagesBodied
<1> QED BY <1>3, <1>5, <1>6, <1>7 DEF Application

LEMMA BodiedHandlers ==
  ASSUME BodyInv, NEW t \in Side,
         Connecting(t) \/ Handshake(t) \/ WriteStep(t) \/ ReadError(t) \/ PostedStep(t)
  PROVE  MessagesBodied'
<1>1. /\ sent \in [Side -> Seq(Bodied)] /\ delivered \in [Side -> Seq(Bodied)]
      /\ out \in [Side -> Seq(Bodied)] /\ posted \in [Side -> Seq(BodiedPosted)]
  BY DEF BodyInv, MessagesBodied
<1>2. sent' = sent /\ delivered' = delivered
  BY DEF Connecting, ConnectToServer, ConnectToClient, Handshake, ReadChallenge, ReadAnswer,
     WriteStep, WriteValidation, WriteHeader, WriteBody, WriteError, ReadError,
     PostedStep, PostedSend, PostedClose, reading, app
<1>3. ASSUME out[t] # <<>>, out' = [out EXCEPT ![t] = Tail(@)] PROVE out' \in [Side -> Seq(Bodied)]
  <2>1. Tail(out[t]) \in Seq(Bodied)
    BY <1>1, <1>3, HeadTailProperties
  <2> QED BY <1>1, <1>3, <2>1
<1>4. ASSUME posted[t] # <<>>, posted' = [posted EXCEPT ![t] = Tail(@)]
      PROVE  posted' \in [Side -> Seq(BodiedPosted)] /\ Head(posted[t]) \in BodiedPosted
  <2>1. Tail(posted[t]) \in Seq(BodiedPosted) /\ Head(posted[t]) \in BodiedPosted
    BY <1>1, <1>4, HeadTailProperties
  <2> QED BY <1>1, <1>4, <2>1
<1>5. CASE Connecting(t) \/ Handshake(t) \/ WriteValidation(t) \/ WriteError(t)
  <2>1. out' = out /\ posted' = posted
    BY <1>5 DEF Connecting, ConnectToServer, ConnectToClient, Handshake, ReadChallenge,
       ReadAnswer, WriteValidation, WriteError, writing, app
  <2> QED BY <1>1, <1>2, <2>1 DEF MessagesBodied
<1>6. CASE WriteHeader(t) \/ WriteBody(t)
  <2>1. posted' = posted /\ (out' = out \/ out' = [out EXCEPT ![t] = Tail(@)])
    BY <1>6 DEF WriteHeader, WriteBody, WriteNext, app
  <2>2. out[t] # <<>>
    BY <1>6, MessageWrite DEF BodyInv, FlowInv, StreamInv, ServedInv
  <2>3. out' \in [Side -> Seq(Bodied)]
    BY <1>1, <1>3, <2>1, <2>2
  <2> QED BY <1>1, <1>2, <2>1, <2>3 DEF MessagesBodied
<1>7. CASE ReadError(t)
  <2> DEFINE x == [fn |-> "close"]
  <2>1. out' = out /\ (posted' = posted \/ posted' = [posted EXCEPT ![t] = Append(@, x)])
    BY <1>7 DEF ReadError, writing
  <2>2. x \in BodiedPosted
    BY BodiedPosts
  <2> HIDE DEF x
  <2>3. Append(posted[t], x) \in Seq(BodiedPosted)
    BY <1>1, <2>2
  <2>4. posted' \in [Side -> Seq(BodiedPosted)]
    BY <1>1, <2>1, <2>3
  <2> QED BY <1>1, <1>2, <2>1, <2>4 DEF MessagesBodied
<1>8. CASE PostedSend(t)
  <2> DEFINE m == Head(posted[t]).msg
  <2>1. /\ posted[t] # <<>> /\ Head(posted[t]).fn = "send"
        /\ posted' = [posted EXCEPT ![t] = Tail(@)]
        /\ out' = [out EXCEPT ![t] = Append(@, m)]
    BY <1>8 DEF PostedSend
  <2>2. posted' \in [Side -> Seq(BodiedPosted)] /\ m \in Bodied
    BY <1>4, <2>1 DEF BodiedPosted
  <2> HIDE DEF m
  <2>3. Append(out[t], m) \in Seq(Bodied)
    BY <1>1, <2>2
  <2>4. out' \in [Side -> Seq(Bodied)]
    BY <1>1, <2>1, <2>3
  <2> QED BY <1>1, <1>2, <2>2, <2>4 DEF MessagesBodied
<1>9. CASE PostedClose(t)
  <2>1. out' = out /\ posted[t] # <<>> /\ posted' = [posted EXCEPT ![t] = Tail(@)]
    BY <1>9 DEF PostedClose, writing
  <2> QED BY <1>1, <1>2, <1>4, <2>1 DEF MessagesBodied
<1> QED BY <1>5, <1>6, <1>7, <1>8, <1>9 DEF WriteStep, PostedStep

(* A step that neither reads nor writes a frame in this direction. *)
LEMMA BodiesIdle ==
  ASSUME NEW s \in Side, Bodies(s), tmp'[s] = tmp[s], rd'[s] = "body" => rd[s] = "body",
         Flowing(s)' =>
           /\ Flowing(s)
           /\ chan'[s] = chan[s]
           /\ \A n \in Nat : BodyWritesOf(wr[Peer(s)], n) => BodyWritesOf(wr'[Peer(s)], n)
  PROVE  Bodies(s)'
<1>1. ASSUME Flowing(s)'
      PROVE  \E n \in Nat : Titled(chan'[s], tmp'[s].id, n) /\ BodyWritesOf(wr'[Peer(s)], n)
  BY <1>1 DEF Bodies
<1>2. rd'[s] = "body" => tmp'[s].size > 0
  BY DEF Bodies
<1> QED BY <1>1, <1>2 DEF Bodies

(* The receiver takes the first frame, after which its last header is lo. *)
LEMMA BodiesTaken ==
  ASSUME WriteInv, NEW s \in Side, Bodies(s), Flowing(s), chan[s] # <<>>, chan'[s] = Tail(chan[s]),
         wr'[Peer(s)] = wr[Peer(s)], tmp'[s].id = Title(Head(chan[s]), tmp[s].id),
         rd'[s] = "body" => tmp'[s].size > 0
  PROVE  Bodies(s)'
<1>1. PICK n \in Nat : Titled(chan[s], tmp[s].id, n) /\ BodyWritesOf(wr[Peer(s)], n)
  BY DEF Bodies
<1>2. chan[s] \in Seq(Frame)
  BY Typed
<1>3. Titled(chan'[s], tmp'[s].id, n)
  BY <1>1, <1>2, TitledTail
<1>4. BodyWritesOf(wr'[Peer(s)], n)
  BY <1>1
<1> QED BY <1>3, <1>4 DEF Bodies

(* The sender adds a frame. *)
LEMMA BodiesPut ==
  ASSUME WriteInv, NEW t \in Side, NEW s, s = Peer(t), Bodies(s), NEW f \in Frame,
         chan' = [chan EXCEPT ![s] = Append(@, f)], tmp'[s] = tmp[s], rd'[s] = rd[s],
         Flowing(s)' => Flowing(s),
         \A n \in Nat : BodyWritesOf(wr[t], n) =>
           MayFollow(f, n) /\ BodyWritesOf(wr'[t], Title(f, n))
  PROVE  Bodies(s)'
<1>1. s \in Side /\ Peer(s) = t /\ chan \in [Side -> Seq(Frame)]
  BY Typed DEF Peer, Side
<1>2. chan'[s] = Append(chan[s], f) /\ chan[s] \in Seq(Frame)
  BY <1>1
<1>3. ASSUME Flowing(s)'
      PROVE  \E n \in Nat : Titled(chan'[s], tmp'[s].id, n) /\ BodyWritesOf(wr'[Peer(s)], n)
  <2>1. PICK n \in Nat : Titled(chan[s], tmp[s].id, n) /\ BodyWritesOf(wr[t], n)
    BY <1>1, <1>3 DEF Bodies
  <2>2. MayFollow(f, n) /\ BodyWritesOf(wr'[t], Title(f, n))
    BY <2>1
  <2>3. Titled(chan'[s], tmp'[s].id, Title(f, n)) /\ Title(f, n) \in Nat
    BY <1>2, <2>1, <2>2, TitledAppend
  <2> QED BY <1>1, <2>2, <2>3
<1>4. rd'[s] = "body" => tmp'[s].size > 0
  BY DEF Bodies
<1> QED BY <1>3, <1>4 DEF Bodies

LEMMA BodiesOutside ==
  ASSUME NEW s \in Side, Bodies(s), Network \/ Application
  PROVE  Bodies(s)'
<1>1. /\ UNCHANGED <<sock, tmp, rd, wr, validation, desync>>
      /\ (link' # "reset" => link # "reset" /\ chan' = chan)
  BY DEF Network, Application, Establish, Reset, Send, EchoMessage, Disconnect, StopContext,
     reading, writing, net
<1>2. Flowing(s)' => Flowing(s) /\ chan'[s] = chan[s]
  BY <1>1 DEF Flowing
<1> QED BY <1>1, <1>2, BodiesIdle

LEMMA BodiesConnecting ==
  ASSUME StreamInv, NEW s \in Side, Bodies(s), NEW t \in Side, Connecting(t)
  PROVE  Bodies(s)'
<1>1. WriteInv /\ Peer(s) \in Side /\ "server" \in Side /\ "client" \in Side
  BY DEF StreamInv, ServedInv, Peer, Side
<1>2. /\ rd \in [Side -> {"none", "validation", "header", "body"}] /\ wr \in [Side -> Seq(Write)]
      /\ sock \in [Side -> {"none", "open", "closed"}]
  BY <1>1, Typed
<1>3. CASE t = "client"
  <2>1. /\ UNCHANGED <<chan, sock, tmp, desync, wr, validation>>
        /\ link' # "reset" => link # "reset"
        /\ rd' = rd \/ rd' = [rd EXCEPT !["client"] = "validation"]
    BY <1>3 DEF Connecting, ConnectToServer, writing
  <2>2. (rd'[s] = "body" => rd[s] = "body") /\ (Flowing(s)' => Flowing(s))
    BY <1>2, <2>1 DEF Flowing
  <2> QED BY <2>1, <2>2, BodiesIdle
<1>4. CASE t = "server"
  <2> DEFINE v == [op |-> "validation", value |-> hsOut'["server"]]
  <2>1. /\ UNCHANGED <<link, chan, tmp, desync, validation>>
        /\ sock["server"] = "none"
        /\ rd' = rd \/ rd' = [rd EXCEPT !["server"] = "validation"]
        /\ wr' = wr \/ wr' = [wr EXCEPT !["server"] = Append(@, v)]
        /\ sock' = [sock EXCEPT !["server"] = "open"] \/ sock' = [sock EXCEPT !["server"] = "closed"]
    BY <1>4 DEF Connecting, ConnectToClient, Close, net
  <2>2. v.op # "body"
    OBVIOUS
  <2> HIDE DEF v
  <2>3. (rd'[s] = "body" => rd[s] = "body") /\ (Flowing(s)' => Flowing(s))
    BY <1>2, <2>1 DEF Flowing
  <2>4. ASSUME NEW n \in Nat, BodyWritesOf(wr[Peer(s)], n) PROVE BodyWritesOf(wr'[Peer(s)], n)
    <3>1. wr'[Peer(s)] = wr[Peer(s)] \/ wr'[Peer(s)] = Append(wr[Peer(s)], v)
      BY <1>1, <1>2, <2>1
    <3> QED BY <1>1, <1>2, <2>2, <2>4, <3>1, BodyWritesAppend
  <2> QED BY <2>1, <2>3, <2>4, BodiesIdle
<1> QED BY <1>3, <1>4 DEF Side

LEMMA BodiesHandshake ==
  ASSUME StreamInv, NEW s \in Side, Bodies(s), NEW t \in Side, Handshake(t)
  PROVE  Bodies(s)'
<1>1. /\ WriteInv /\ HandshakeInv /\ Greeting /\ Peer(s) \in Side /\ Peer(s) # s
      /\ "server" \in Side /\ "client" \in Side
  BY DEF StreamInv, ServedInv, Peer, Side
<1>2. /\ rd \in [Side -> {"none", "validation", "header", "body"}] /\ wr \in [Side -> Seq(Write)]
      /\ chan \in [Side -> Seq(Frame)]
  BY <1>1, Typed
<1>3. /\ rd[t] = "validation" /\ link = "up" /\ chan[t] # <<>>
      /\ chan' = [chan EXCEPT ![t] = Tail(@)]
      /\ UNCHANGED <<link, sock, tmp, desync>>
      /\ rd'[t] \in {"none", "header"} /\ \A r \in Side \ {t} : rd'[r] = rd[r]
  BY <1>2 DEF Handshake, ReadChallenge, ReadAnswer, CanRead, Consume, app, writing
<1>4. rd'[s] = "body" => rd[s] = "body"
  BY <1>3
<1>5. ASSUME Flowing(s)', s = t PROVE Flowing(s) /\ Head(chan[s]).kind = "nonce"
  <2>1. CASE s = "client"
    <3>1. Head(chan[s]).kind = "nonce"
      BY <1>1, <1>3, <1>5, <2>1 DEF Greeting, ChallengeFirst, Unanswered
    <3> QED BY <1>3, <1>5, <2>1, <3>1 DEF Flowing
  <2>2. CASE s = "server"
    <3>1. ReadAnswer
      BY <1>5, <2>2 DEF Handshake
    <3>2. validation' # "failed" /\ validation = "pending" /\ hsOut["server"] \in Nonces
      BY <1>1, <1>3, <1>5, <2>2 DEF Flowing, HandshakeInv
    <3>3. ValueOf(Head(chan["server"])) = Scramble[hsOut["server"]]
      BY <3>1, <3>2 DEF ReadAnswer
    <3>4. Head(chan["server"]).kind = "nonce"
      BY <3>2, <3>3, HandshakeAssumption DEF ValueOf
    <3> QED BY <1>3, <1>5, <2>2, <3>2, <3>4 DEF Flowing
  <2> QED BY <2>1, <2>2 DEF Side
<1>6. ASSUME s # t, Flowing(s)' PROVE Flowing(s)
  <2>1. s = "server" => validation' = validation
    BY <1>6 DEF Handshake, ReadChallenge, Side
  <2> QED BY <1>3, <1>6, <2>1 DEF Flowing
<1>7. CASE s # t
  <2>1. chan'[s] = chan[s]
    BY <1>2, <1>3, <1>7
  <2>2. ASSUME NEW n \in Nat, BodyWritesOf(wr[Peer(s)], n) PROVE BodyWritesOf(wr'[Peer(s)], n)
    <3>1. CASE wr' = wr
      BY <2>2, <3>1
    <3>2. CASE \E x : wr' = [wr EXCEPT !["client"] = Append(@, [op |-> "validation", value |-> x])]
      <4>1. PICK x : wr' = [wr EXCEPT !["client"] = Append(@, [op |-> "validation", value |-> x])]
        BY <3>2
      <4> DEFINE v == [op |-> "validation", value |-> x]
      <4>2. v.op # "body" /\ wr' = [wr EXCEPT !["client"] = Append(@, v)]
        BY <4>1
      <4> HIDE DEF v
      <4>3. wr'[Peer(s)] = wr[Peer(s)] \/ wr'[Peer(s)] = Append(wr[Peer(s)], v)
        BY <1>1, <1>2, <4>2
      <4> QED BY <1>1, <1>2, <2>2, <4>2, <4>3, BodyWritesAppend
    <3> QED BY <3>1, <3>2 DEF Handshake, ReadChallenge, ReadAnswer, writing
  <2> QED BY <1>3, <1>4, <1>6, <1>7, <2>1, <2>2, BodiesIdle
<1>8. CASE s = t
  <2>1. chan'[s] = Tail(chan[s]) /\ rd'[s] # "body"
    BY <1>2, <1>3, <1>8
  <2>2. wr'[Peer(s)] = wr[Peer(s)]
    BY <1>1, <1>2, <1>8 DEF Handshake, ReadChallenge, ReadAnswer, writing
  <2>3. CASE Flowing(s)'
    <3>1. Title(Head(chan[s]), tmp[s].id) = tmp[s].id
      BY <1>5, <1>8, <2>3 DEF Title
    <3> QED BY <1>1, <1>3, <1>5, <1>8, <2>1, <2>2, <2>3, <3>1, BodiesTaken
  <2>4. CASE ~Flowing(s)'
    BY <2>1, <2>4 DEF Bodies
  <2> QED BY <2>3, <2>4
<1> QED BY <1>7, <1>8

LEMMA BodiesMessageWrite ==
  ASSUME StreamInv, MessagesBodied, NEW s \in Side, Bodies(s), NEW t \in Side,
         WriteHeader(t) \/ WriteBody(t)
  PROVE  Bodies(s)'
<1> DEFINE w == wr[t]
           m == Head(out[t])
           b == [op |-> "body", msg |-> m]
<1>1. /\ WriteInv /\ Peer(s) \in Side /\ Peer(t) \in Side /\ Peer(t) # t
  BY DEF StreamInv, ServedInv, Peer, Side
<1>2. /\ wr \in [Side -> Seq(Write)] /\ chan \in [Side -> Seq(Frame)]
  BY <1>1, Typed
<1>3. /\ w # <<>> /\ link = "up"
      /\ UNCHANGED <<link, sock, rd, tmp, desync, validation>>
  BY DEF WriteHeader, WriteBody, CanWrite, reading
<1>4. /\ Head(w).op \in {"header", "body"} /\ w \in Seq(Write) /\ Tail(w) \in Seq(Write)
      /\ out[t] # <<>> /\ m \in Msg /\ Tail(out[t]) \in Seq(Msg) /\ Head(w).msg = m
      /\ ~HasOp(Tail(w), "body")
  <2>1. Head(w).op \in {"header", "body"}
    BY DEF WriteHeader, WriteBody
  <2>2. /\ w \in Seq(Write) /\ Tail(w) \in Seq(Write)
        /\ out[t] # <<>> /\ m \in Msg /\ Tail(out[t]) \in Seq(Msg) /\ Head(w).msg = m
        /\ \A i \in 1 .. Len(Tail(w)) : ~IsMessageWrite(Tail(w)[i])
    BY <1>1, <1>3, <2>1, HandlerOfFront DEF IsMessageWrite
  <2>3. ~HasOp(Tail(w), "body")
    <3>1. DOMAIN Tail(w) = 1 .. Len(Tail(w))
      BY <2>2
    <3> QED BY <2>2, <3>1 DEF HasOp, IsMessageWrite
  <2> QED BY <2>1, <2>2, <2>3
<1>5. m \in Bodied
  <2>1. out[t] \in Seq(Bodied)
    BY DEF MessagesBodied
  <2> QED BY <1>4, <2>1, HeadTailProperties
<1>6. Header(m) \in Frame /\ Body(m) \in Frame
  BY <1>4 DEF Header, Body, Frame, Msg
<1>7. \A n : BodyWritesOf(Tail(w), n)
  BY <1>4, BodyWritesNone
<1>8. Flowing(s)' => Flowing(s)
  BY <1>3 DEF Flowing
<1>9. ASSUME WriteNext(t), NEW n PROVE BodyWritesOf(wr'[t], n)
  <2>1. wr'[t] = Tail(w) \o HeaderWrite(Tail(out[t]))
    BY <1>2, <1>9 DEF WriteNext
  <2> DEFINE a == Tail(w)
             q == Tail(out[t])
  <2>2. a \in Seq(Write) /\ q \in Seq(Msg) /\ BodyWritesOf(a, n)
    BY <1>4, <1>7
  <2> HIDE DEF a, q
  <2>3. BodyWritesOf(a \o HeaderWrite(q), n)
    BY <2>2, BodyWritesHeader
  <2> QED BY <2>1, <2>3 DEF a, q
<1>10. wr' = [wr EXCEPT ![t] = wr'[t]] /\ chan' = [chan EXCEPT ![Peer(t)] = chan'[Peer(t)]]
  <2>1. \E x : wr' = [wr EXCEPT ![t] = x]
    BY DEF WriteHeader, WriteBody, WriteNext
  <2>2. \E x : chan' = [chan EXCEPT ![Peer(t)] = x]
    BY DEF WriteHeader, WriteBody, Transmit
  <2> QED BY <1>1, <1>2, <2>1, <2>2
<1>11. CASE s = t
  <2>1. chan'[s] = chan[s] /\ wr'[Peer(s)] = wr[Peer(s)]
    BY <1>1, <1>2, <1>10, <1>11
  <2> QED BY <1>3, <1>8, <2>1, BodiesIdle
<1>12. CASE s = Peer(t) /\ WriteHeader(t)
  <2>1. chan' = [chan EXCEPT ![s] = Append(@, Header(m))]
    BY <1>4, <1>12 DEF WriteHeader, Transmit
  <2>2. BodyWritesOf(wr'[t], m.id)
    <3>1. CASE WriteNext(t)
      BY <1>9, <3>1
    <3>2. CASE wr' = [wr EXCEPT ![t] = Append(Tail(@), b)]
      <4>1. wr'[t] = Append(Tail(w), b) /\ b.op = "body" /\ b.msg.id = m.id
        BY <1>2, <3>2
      <4> HIDE DEF b, m
      <4> QED BY <1>4, <1>7, <4>1, BodyWritesAppend
    <3> QED BY <1>12, <3>1, <3>2 DEF WriteHeader
  <2>3. Header(m).kind = "header" /\ Header(m).size > 0 /\ Header(m).id = m.id
    BY <1>5 DEF Header, Bodied
  <2> HIDE DEF m
  <2>4. ASSUME NEW n \in Nat
        PROVE  MayFollow(Header(m), n) /\ BodyWritesOf(wr'[t], Title(Header(m), n))
    BY <2>2, <2>3 DEF MayFollow, Title
  <2> QED BY <1>1, <1>3, <1>6, <1>8, <1>12, <2>1, <2>4, BodiesPut
<1>13. CASE s = Peer(t) /\ WriteBody(t)
  <2>1. /\ chan' = [chan EXCEPT ![s] = Append(@, Body(m))] /\ Head(w).op = "body" /\ WriteNext(t)
    BY <1>4, <1>13 DEF WriteBody, Transmit
  <2>2. Body(m).kind = "body" /\ Body(m).body = m.id
    BY <1>5 DEF Body, Bodied
  <2>3. ASSUME NEW n \in Nat, BodyWritesOf(w, n)
        PROVE  MayFollow(Body(m), n) /\ BodyWritesOf(wr'[t], Title(Body(m), n))
    <3>1. m.id = n
      BY <1>3, <1>4, <2>1, <2>3, BodyWritesTail
    <3>2. BodyWritesOf(wr'[t], n)
      BY <1>9, <2>1
    <3> HIDE DEF m
    <3> QED BY <2>2, <3>1, <3>2 DEF MayFollow, Title
  <2> HIDE DEF m
  <2> QED BY <1>1, <1>3, <1>6, <1>8, <1>13, <2>1, <2>3, BodiesPut
<1>14. s = t \/ s = Peer(t)
  BY DEF Peer, Side
<1> QED BY <1>11, <1>12, <1>13, <1>14

LEMMA BodiesWrite ==
  ASSUME StreamInv, MessagesBodied, NEW s \in Side, Bodies(s), NEW t \in Side, WriteStep(t)
  PROVE  Bodies(s)'
<1>1. WriteInv /\ Peer(s) \in Side /\ Peer(t) \in Side /\ Peer(t) # t /\ (s = t \/ s = Peer(t))
      /\ Peer(Peer(t)) = t
  BY DEF StreamInv, ServedInv, Peer, Side
<1>2. /\ wr \in [Side -> Seq(Write)] /\ chan \in [Side -> Seq(Frame)]
      /\ rd \in [Side -> {"none", "validation", "header", "body"}]
      /\ sock \in [Side -> {"none", "open", "closed"}]
  BY <1>1, Typed
<1>3. CASE WriteHeader(t) \/ WriteBody(t)
  BY <1>3, BodiesMessageWrite
<1>4. ASSUME wr[t] # <<>>, wr' = [wr EXCEPT ![t] = Tail(@)], NEW n \in Nat
      PROVE  /\ BodyWritesOf(wr[t], n) => BodyWritesOf(wr'[t], n)
             /\ wr'[Peer(t)] = wr[Peer(t)]
  BY <1>1, <1>2, <1>4, BodyWritesTail
<1>5. CASE WriteValidation(t)
  <2> DEFINE f == Nonce(Head(wr[t]).value)
  <2>1. /\ wr[t] # <<>> /\ wr' = [wr EXCEPT ![t] = Tail(@)] /\ Head(wr[t]).op = "validation"
        /\ chan' = [chan EXCEPT ![Peer(t)] = Append(@, f)]
        /\ UNCHANGED <<link, sock, tmp, desync, validation>>
        /\ rd' = rd \/ rd' = [rd EXCEPT ![t] = "header"]
    BY <1>5 DEF WriteValidation, Transmit
  <2>2. f \in Frame /\ f.kind = "nonce"
    <3>1. Head(wr[t]) \in Write
      BY <1>2, <2>1, HeadTailProperties
    <3> QED BY <2>1, <3>1 DEF Nonce, Frame, Write
  <2> HIDE DEF f
  <2>3. Flowing(s)' => Flowing(s)
    BY <2>1 DEF Flowing
  <2>4. CASE s = t
    <3>1. chan'[s] = chan[s] /\ (rd'[s] = "body" => rd[s] = "body")
      BY <1>1, <1>2, <2>1, <2>4
    <3>2. wr'[Peer(s)] = wr[Peer(s)]
      BY <1>1, <1>2, <2>1, <2>4
    <3> QED BY <2>1, <2>3, <3>1, <3>2, BodiesIdle
  <2>5. CASE s = Peer(t)
    <3>1. rd'[s] = rd[s] /\ tmp'[s] = tmp[s]
      BY <1>1, <1>2, <2>1, <2>5
    <3>2. ASSUME NEW n \in Nat, BodyWritesOf(wr[t], n)
          PROVE  MayFollow(f, n) /\ BodyWritesOf(wr'[t], Title(f, n))
      BY <1>4, <2>1, <2>2, <3>2 DEF MayFollow, Title
    <3>3. chan' = [chan EXCEPT ![s] = Append(@, f)]
      BY <2>1, <2>5
    <3> QED BY <1>1, <2>2, <2>3, <2>5, <3>1, <3>2, <3>3, BodiesPut
  <2> QED BY <1>1, <2>4, <2>5
<1>6. CASE WriteError(t)
  <2>1. /\ wr[t] # <<>> /\ wr' = [wr EXCEPT ![t] = Tail(@)]
        /\ sock' = [sock EXCEPT ![t] = "closed"]
        /\ UNCHANGED <<link, chan, tmp, rd, desync, validation>>
    BY <1>6 DEF WriteError, Close, net, reading
  <2>2. Flowing(s)' => Flowing(s) /\ s # t
    BY <1>2, <2>1 DEF Flowing
  <2>3. ASSUME s = Peer(t), NEW n \in Nat, BodyWritesOf(wr[Peer(s)], n)
        PROVE  BodyWritesOf(wr'[Peer(s)], n)
    BY <1>1, <1>4, <2>1, <2>3
  <2> QED BY <1>1, <2>1, <2>2, <2>3, BodiesIdle
<1> QED BY <1>3, <1>5, <1>6 DEF WriteStep

LEMMA BodiesPosted ==
  ASSUME StreamInv, NEW s \in Side, Bodies(s), NEW t \in Side, PostedStep(t)
  PROVE  Bodies(s)'
<1>1. WriteInv /\ Peer(s) \in Side
  BY DEF StreamInv, ServedInv, Peer, Side
<1>2. /\ wr \in [Side -> Seq(Write)] /\ sock \in [Side -> {"none", "open", "closed"}]
      /\ out \in [Side -> Seq(Msg)] /\ posted \in [Side -> Seq(Posted)]
  BY <1>1 DEF WriteInv, TypeOK
<1>3. CASE PostedSend(t)
  <2> DEFINE q == Append(out[t], Head(posted[t]).msg)
  <2>1. /\ UNCHANGED <<link, chan, sock, rd, tmp, desync, validation>>
        /\ wr' = wr \/ wr' = [wr EXCEPT ![t] = @ \o HeaderWrite(q)]
        /\ posted[t] # <<>> /\ Head(posted[t]).fn = "send"
    BY <1>3 DEF PostedSend, net, reading
  <2>2. q \in Seq(Msg)
    <3>1. Head(posted[t]) \in Posted
      BY <1>2, <2>1, HeadTailProperties
    <3>2. Head(posted[t]).msg \in Msg
      BY <2>1, <3>1 DEF Posted
    <3> QED BY <1>2, <3>2
  <2> HIDE DEF q
  <2>3. ASSUME NEW n \in Nat, BodyWritesOf(wr[Peer(s)], n) PROVE BodyWritesOf(wr'[Peer(s)], n)
    <3>1. wr'[Peer(s)] = wr[Peer(s)] \/ wr'[Peer(s)] = wr[Peer(s)] \o HeaderWrite(q)
      BY <1>1, <1>2, <2>1
    <3> QED BY <1>1, <1>2, <2>2, <2>3, <3>1, BodyWritesHeader
  <2>4. Flowing(s)' => Flowing(s)
    BY <2>1 DEF Flowing
  <2> QED BY <2>1, <2>3, <2>4, BodiesIdle
<1>4. CASE PostedClose(t)
  <2>1. /\ UNCHANGED <<link, chan, wr, rd, tmp, desync, validation>>
        /\ sock' = [sock EXCEPT ![t] = "closed"]
    BY <1>4 DEF PostedClose, Close, net, reading, writing
  <2>2. Flowing(s)' => Flowing(s)
    BY <1>2, <2>1 DEF Flowing
  <2> QED BY <2>1, <2>2, BodiesIdle
<1> QED BY <1>3, <1>4 DEF PostedStep

(* The read handlers: a header has a body behind it, and it is the right one. *)
LEMMA BodiesRead ==
  ASSUME StreamInv, MessagesBodied, ~desync, NEW s \in Side, Bodies(s), NEW t \in Side, Bodies(t),
         ReadHeader(t) \/ ReadBody(t)
  PROVE  Bodies(s)' /\ MessagesBodied'
<1> DEFINE f == Head(chan[t])
<1>1. WriteInv /\ HandshakeInv /\ Peer(s) \in Side
  BY DEF StreamInv, ServedInv, Peer, Side
<1>2. /\ rd \in [Side -> {"none", "validation", "header", "body"}]
      /\ chan \in [Side -> Seq(Frame)] /\ tmp \in [Side -> Msg]
      /\ delivered \in [Side -> Seq(Bodied)]
  BY <1>1, Typed DEF WriteInv, TypeOK, MessagesBodied
<1>3. /\ rd[t] \in {"header", "body"} /\ link = "up" /\ sock[t] = "open" /\ chan[t] # <<>>
      /\ chan' = [chan EXCEPT ![t] = Tail(@)]
      /\ UNCHANGED <<link, sock, wr, out, posted, sent, validation>>
  BY DEF ReadHeader, ReadBody, CanRead, Consume, writing, app
<1>4. /\ \E x : rd' = [rd EXCEPT ![t] = x]
      /\ \E x : tmp' = [tmp EXCEPT ![t] = x]
  <2>1. rd' = rd \/ \E x : rd' = [rd EXCEPT ![t] = x]
    BY DEF ReadHeader, ReadBody, AddToIncomingMessageQueue
  <2>2. tmp' = tmp \/ \E x : tmp' = [tmp EXCEPT ![t] = x]
    BY DEF ReadHeader, ReadBody
  <2>3. rd = [rd EXCEPT ![t] = rd[t]] /\ tmp = [tmp EXCEPT ![t] = tmp[t]]
    BY <1>2
  <2> QED BY <2>1, <2>2, <2>3
<1>5. f \in Frame /\ chan'[t] = Tail(chan[t])
  BY <1>2, <1>3, HeadTailProperties
<1>6. Flowing(t)
  BY <1>1, <1>3 DEF HandshakeInv, Flowing
<1>7. MayFollow(f, tmp[t].id)
  <2>1. PICK n \in Nat : Titled(chan[t], tmp[t].id, n)
    BY <1>6 DEF Bodies
  <2> QED BY <1>2, <1>3, <2>1, TitledTail
<1>8. CASE desync'
  <2>1. UNCHANGED <<tmp, rd, delivered>>
    BY <1>8 DEF ReadHeader, ReadBody
  <2>2. ~Flowing(s)'
    BY <1>8 DEF Flowing
  <2>3. Bodies(s)'
    BY <2>1, <2>2 DEF Bodies
  <2> QED BY <1>3, <2>1, <2>3 DEF MessagesBodied
<1>9. ASSUME ~desync', tmp'[t].id = Title(f, tmp[t].id), rd'[t] = "body" => tmp'[t].size > 0
      PROVE  Bodies(s)'
  <2>1. CASE s = t
    <3>1. wr'[Peer(s)] = wr[Peer(s)]
      BY <1>3
    <3> QED BY <1>1, <1>3, <1>5, <1>6, <1>9, <2>1, <3>1, BodiesTaken
  <2>2. CASE s # t
    <3>1. chan'[s] = chan[s] /\ tmp'[s] = tmp[s] /\ rd'[s] = rd[s]
      BY <1>2, <1>3, <1>4, <2>2
    <3>2. Flowing(s)' => Flowing(s)
      BY <1>3 DEF Flowing
    <3> QED BY <1>3, <3>1, <3>2, BodiesIdle
  <2> QED BY <2>1, <2>2
<1>10. CASE ReadHeader(t) /\ ~desync'
  <2> DEFINE m == [tmp[t] EXCEPT !.id = f.id, !.size = f.size]
  <2>1. /\ f.kind = "header"
        /\ tmp' = [tmp EXCEPT ![t] = m]
        /\ f.size > 0 => rd' = [rd EXCEPT ![t] = "body"] /\ UNCHANGED delivered
    BY <1>10 DEF ReadHeader
  <2>2. f.size > 0
    BY <1>7, <2>1 DEF MayFollow
  <2>3. tmp'[t] = m /\ delivered' = delivered
    BY <1>2, <2>1, <2>2
  <2>4. m.id = f.id /\ m.size = f.size
    BY <1>2 DEF Msg
  <2> HIDE DEF f, m
  <2>5. tmp'[t].id = Title(f, tmp[t].id) /\ tmp'[t].size > 0
    BY <2>1, <2>2, <2>3, <2>4 DEF Title
  <2>6. Bodies(s)'
    BY <1>9, <1>10, <2>5
  <2> QED BY <1>3, <2>3, <2>6 DEF MessagesBodied
<1>11. CASE ReadBody(t) /\ ~desync'
  <2> DEFINE m == [tmp[t] EXCEPT !.body = f.body]
  <2>1. /\ f.kind = "body" /\ tmp' = [tmp EXCEPT ![t] = m] /\ rd[t] = "body"
        /\ delivered' = [delivered EXCEPT ![t] = Append(@, m)]
        /\ rd' = [rd EXCEPT ![t] = "header"]
    BY <1>11 DEF ReadBody, AddToIncomingMessageQueue
  <2>2. f.body = tmp[t].id /\ f.body \in Nat
    BY <1>5, <1>7, <2>1 DEF MayFollow, Frame
  <2>3. m \in Bodied /\ m.id = tmp[t].id
    <3>1. tmp[t] \in Msg /\ tmp[t].size > 0
      BY <1>2, <2>1 DEF Bodies
    <3>2. /\ m \in Msg /\ m.id = tmp[t].id /\ m.size = tmp[t].size /\ m.body = f.body
      BY <2>2, <3>1 DEF Msg
    <3> QED BY <2>2, <3>1, <3>2 DEF Bodied
  <2>4. tmp'[t] = m /\ rd'[t] = "header"
    BY <1>2, <2>1
  <2> HIDE DEF f, m
  <2>5. tmp'[t].id = Title(f, tmp[t].id)
    BY <2>1, <2>3, <2>4 DEF Title
  <2>6. Bodies(s)'
    BY <1>9, <1>11, <2>4, <2>5
  <2>7. delivered' \in [Side -> Seq(Bodied)]
    <3>1. Append(delivered[t], m) \in Seq(Bodied)
      BY <1>2, <2>3
    <3> QED BY <1>2, <2>1, <3>1
  <2> QED BY <1>3, <2>6, <2>7 DEF MessagesBodied
<1> QED BY <1>8, <1>10, <1>11

LEMMA BodiesReadError ==
  ASSUME StreamInv, NEW s \in Side, Bodies(s), NEW t \in Side, ReadError(t)
  PROVE  Bodies(s)'
<1>1. /\ rd \in [Side -> {"none", "validation", "header", "body"}]
      /\ sock \in [Side -> {"none", "open", "closed"}]
  BY Typed DEF StreamInv, ServedInv
<1>2. /\ UNCHANGED <<link, chan, wr, tmp, desync, validation>>
      /\ rd' = [rd EXCEPT ![t] = "none"]
      /\ sock' = sock \/ sock' = [sock EXCEPT ![t] = "closed"]
  BY DEF ReadError, Close, net, writing
<1>3. (Flowing(s)' => Flowing(s)) /\ (rd'[s] = "body" => rd[s] = "body")
  BY <1>1, <1>2 DEF Flowing
<1> QED BY <1>2, <1>3, BodiesIdle

LEMMA BodyInit == Init => BodyInv
<1> SUFFICES ASSUME Init PROVE BodyInv
  OBVIOUS
<1>1. FlowInv
  BY FlowInit
<1>2. MessagesBodied
  <2>1. <<>> \in Seq(Bodied) /\ <<>> \in Seq(BodiedPosted)
    OBVIOUS
  <2> QED BY <2>1 DEF Init, MessagesBodied
<1>3. ASSUME NEW s \in Side PROVE Bodies(s)
  <2>1. /\ chan[s] = <<>> /\ wr[Peer(s)] = <<>> /\ rd[s] = "none" /\ tmp[s].id = 0
    BY DEF Init, NewMsg, Peer, Side
  <2>2. Titled(chan[s], tmp[s].id, 0)
    BY <2>1, TitledEmpty
  <2>3. BodyWritesOf(wr[Peer(s)], 0)
    <3>1. DOMAIN <<>> = {}
      OBVIOUS
    <3> QED BY <2>1, <3>1 DEF BodyWritesOf
  <2> QED BY <2>1, <2>2, <2>3 DEF Bodies
<1> QED BY <1>1, <1>2, <1>3 DEF BodyInv

LEMMA BodyNext ==
  ASSUME 0 \notin Sizes, BodyInv, [Next]_vars
  PROVE  BodyInv'
<1>1. FlowInv /\ FlowInv' /\ StreamInv /\ MessagesBodied /\ \A s \in Side : Bodies(s)
  BY FlowNext DEF BodyInv, FlowInv
<1>2. CASE UNCHANGED vars
  <2>1. MessagesBodied'
    BY <1>1, <1>2 DEF vars, MessagesBodied
  <2>2. ASSUME NEW s \in Side PROVE Bodies(s)'
    <3>1. Flowing(s)' => Flowing(s)
      BY <1>2 DEF vars, Flowing
    <3> QED BY <1>1, <1>2, <3>1, BodiesIdle DEF vars
  <2> QED BY <1>1, <2>1, <2>2 DEF BodyInv
<1>3. CASE Network \/ Application
  <2>1. MessagesBodied'
    BY <1>3, BodiedOutside
  <2> QED BY <1>1, <1>3, <2>1, BodiesOutside DEF BodyInv
<1>4. ASSUME ~desync, NEW t \in Side, Connecting(t) \/ WriteStep(t) \/ ReadStep(t) \/ PostedStep(t)
      PROVE  BodyInv'
  <2>1. CASE Connecting(t) \/ WriteStep(t) \/ Handshake(t) \/ ReadError(t) \/ PostedStep(t)
    <3>1. MessagesBodied'
      BY <2>1, BodiedHandlers
    <3>2. ASSUME NEW s \in Side PROVE Bodies(s)'
      BY <1>1, <2>1, BodiesConnecting, BodiesWrite, BodiesHandshake, BodiesReadError, BodiesPosted
    <3> QED BY <1>1, <3>1, <3>2 DEF BodyInv
  <2>2. CASE ReadHeader(t) \/ ReadBody(t)
    <3>1. ASSUME NEW s \in Side PROVE Bodies(s)' /\ MessagesBodied'
      BY <1>1, <1>4, <2>2, BodiesRead
    <3> QED BY <1>1, <3>1 DEF BodyInv
  <2> QED BY <1>4, <2>1, <2>2 DEF ReadStep
<1> QED BY <1>2, <1>3, <1>4 DEF Next

(***************************************************************************)
(* If the applications build no message without a body, each message       *)
(* arrives with the body it was sent with, whatever the network, faults    *)
(* and a sender that does not wait make of the rest; an echo of one too.   *)
(* Without the hypothesis it is false: a message without a body is         *)
(* delivered with the body of the one before.                              *)
(***************************************************************************)
THEOREM DeliveredWithBodies ==
  ASSUME 0 \notin Sizes
  PROVE  Spec => []DeliveredAsSent
<1>1. ASSUME BodyInv PROVE DeliveredAsSent
  <2> SUFFICES ASSUME NEW s \in Side, NEW i \in 1 .. Len(delivered[s])
               PROVE  i <= Len(sent[Peer(s)]) /\ delivered[s][i] = sent[Peer(s)][i]
    BY DEF DeliveredAsSent
  <2> DEFINE d == delivered[s][i]
             m == sent[Peer(s)][i]
  <2>1. /\ delivered[s] \in Seq(Bodied) /\ sent[Peer(s)] \in Seq(Bodied)
        /\ Got(s) /\ WriteInv /\ Peer(s) \in Side
    BY <1>1 DEF BodyInv, MessagesBodied, FlowInv, Direction, StreamInv, ServedInv, Peer, Side
  <2>2. Len(delivered[s]) \in Nat /\ Len(H(s)) = Len(sent[Peer(s)]) /\ Len(H(s)) \in Nat
    BY <2>1, DirectionTypes
  <2>3. i \in 1 .. Len(sent[Peer(s)]) /\ i <= Len(sent[Peer(s)]) /\ Header(d) = H(s)[i]
    BY <2>1, <2>2 DEF Got
  <2>4. Header(d) = Header(m)
    BY <2>3 DEF H, HeadersOf
  <2>5. d \in Bodied /\ m \in Bodied
    BY <2>1, <2>3
  <2> HIDE DEF d, m
  <2>6. d.id = m.id /\ d.size = m.size
    <3>1. /\ Header(d).id = d.id /\ Header(d).size = d.size
          /\ Header(m).id = m.id /\ Header(m).size = m.size
      BY DEF Header
    <3> QED BY <2>4, <3>1
  <2>7. d.body = m.body /\ d \in Msg /\ m \in Msg
    BY <2>5, <2>6 DEF Bodied
  <2>8. d = m
    BY <2>6, <2>7 DEF Msg
  <2> QED BY <2>3, <2>8 DEF d, m
<1>2. BodyInv /\ [Next]_vars => BodyInv'
  BY BodyNext
<1> QED BY <1>1, <1>2, BodyInit, PTL DEF Spec
=============================================================================
