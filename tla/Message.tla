------------------------------ MODULE Message ------------------------------
(***************************************************************************)
(* library/message.h: a message's body as the stack of values that << and  *)
(* >> make of it.  << puts the bytes of a value at the end, and for a      *)
(* string or a vector its length behind them; >> takes the last bytes off  *)
(* as a value of whatever type it is given.  Nothing in the body says what *)
(* was put there.                                                          *)
(*                                                                         *)
(* A byte is a number below Base, a size_type is Word bytes, the low one   *)
(* first.  Bodies are shorter than Base, so that a length with anything in *)
(* its high bytes is longer than every body.                               *)
(***************************************************************************)
EXTENDS Naturals, Sequences

CONSTANTS
  Base,      \* number of byte values
  Content,   \* the byte values that occur in the values inserted
  Word,      \* sizeof(size_type)
  Plain,     \* sizes of the plain types in use
  Element,   \* sizes of the elements of the vectors and strings in use
  MaxBody,   \* bound: length of a body
  MaxLength  \* bound: length of a vector or string

ASSUME SizesAssumption ==
  /\ Base \in Nat \ {0} /\ Word \in Nat \ {0}
  /\ Content \subseteq 0 .. Base - 1
  /\ Plain \subseteq Nat \ {0} /\ Element \subseteq Nat \ {0}
  /\ MaxLength \in Nat
  /\ MaxBody \in 0 .. Base - 1

Byte == 0 .. Base - 1

\* A string is a vector of one-byte elements: same layout, same code.
Type == [kind : {"plain"}, size : Plain] \cup [kind : {"list"}, size : Element]

\* How many elements a value of a type has; its own bytes are theirs.
Counts(t) == IF t.kind = "plain" THEN {1} ELSE 0 .. MaxLength

VARIABLES
  body,       \* body
  size,       \* header.size: of the body alone, though its comment adds the header
  extracted,  \* what >> assigned to its operand, if it was the last operator
  aborted,    \* an assertion failed, or >> read outside the body
  items       \* history: what << put on the body and >> has not touched yet

messageVars == <<body, size, extracted, aborted, items>>

MessageInit ==
  /\ body = <<>>
  /\ size = 0
  /\ extracted = <<>>
  /\ aborted = FALSE
  /\ items = <<>>

-----------------------------------------------------------------------------
\* A length as a size_type, and what a size_type read from the body says.
SizeBytes(n) == [i \in 1 .. Word |-> IF i = 1 THEN n ELSE 0]
SizeOf(w) == IF \A i \in 2 .. Word : w[i] = 0 THEN w[1] ELSE Base

\* Mutated form: the length of a vector is its number of bytes.
ByteLength(t, v, n) == IF t.kind = "plain" THEN v ELSE v \o SizeBytes(n * t.size)

\* What << appends for value v; n is str.size() or vec.size().
Layout(t, v, n) == IF t.kind = "plain" THEN v ELSE v \o SizeBytes(n)

\* operator<<
Insert(t, v, n) ==
  /\ body' = body \o Layout(t, v, n)
  /\ size' = Len(body')
  /\ items' = Append(items, [type |-> t, value |-> v, below |-> body])
  /\ extracted' = <<>>
  /\ UNCHANGED aborted

\* The bytes of the body that >> takes for a list, its length included, or
\* Base when that is more than any body has.
ListBytes(t) ==
  LET count == SizeOf(SubSeq(body, Len(body) - Word + 1, Len(body)))
  IN  IF count = Base THEN Base ELSE count * t.size + Word

Taken(t) == IF t.kind = "plain" THEN t.size ELSE ListBytes(t)

\* The assertion of the plain operator, and the memory the others read.
Fits(t) ==
  /\ t.kind = "list" => Len(body) >= Word
  /\ Taken(t) <= Len(body)

\* What the value on top of the history says >> must do.
Top == items[Len(items)]
Matches(t) == items # <<>> /\ Top.type = t

Untouched(t) == IF Matches(t) THEN SubSeq(items, 1, Len(items) - 1) ELSE <<>>

\* operator>>
Extract(t) ==
  LET new_size == Len(body) - Taken(t)
      data == IF t.kind = "plain" THEN t.size ELSE Taken(t) - Word
  IN  /\ Fits(t)
      /\ extracted' = SubSeq(body, new_size + 1, new_size + data)
      /\ body' = SubSeq(body, 1, new_size)
      /\ size' = Len(body')
      /\ items' = Untouched(t)
      /\ UNCHANGED aborted

\* operator>> on a body that does not hold a value of that type: the
\* assertion stops the program, a string or vector reads outside the body.
ExtractBeyond(t) ==
  /\ ~Fits(t)
  /\ aborted' = TRUE
  /\ UNCHANGED <<body, size, extracted, items>>

Put ==
  \E t \in Type : \E n \in Counts(t) : \E v \in [1 .. n * t.size -> Content] :
    /\ Len(body) + Len(v) + Word <= MaxBody
    /\ Insert(t, v, n)
Take == \E t \in Type : Extract(t)
TakeBeyond == \E t \in Type : ExtractBeyond(t)

MessageNext == ~aborted /\ (Put \/ Take \/ TakeBeyond)

MessageSpec == MessageInit /\ [][MessageNext]_messageVars

-----------------------------------------------------------------------------
Item == [type : Type, value : Seq(Byte), below : Seq(Byte)]

MessageTypeOK ==
  /\ body \in Seq(Byte)
  /\ size = Len(body)
  /\ extracted \in Seq(Byte)
  /\ aborted \in BOOLEAN
  /\ items \in Seq(Item)

\* >> undoes <<: as long as the types come back in the reverse order of
\* their insertion, every extraction finds its value whole and leaves what
\* was below it, whatever was extracted with wrong types before that.
LastInFirstOut ==
  [][\A t \in Type : Matches(t) =>
       /\ ~ExtractBeyond(t)
       /\ Extract(t) => extracted' = Top.value /\ body' = Top.below]_messageVars
=============================================================================
