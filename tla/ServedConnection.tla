-------------------------- MODULE ServedConnection --------------------------
(***************************************************************************)
(* What library/server.h knows of one connection it serves: its socket,    *)
(* the outcome of its validation, and which asynchronous operations are    *)
(* outstanding on it.  Connection, with both ends of a connection and all  *)
(* its handlers, implements this; ServerInterface, with many connections,  *)
(* keeps to it for each.                                                   *)
(***************************************************************************)
EXTENDS Naturals

VARIABLES
  sock,     \* m_socket: not yet made, open, closed
  valid,    \* outcome of the validation
  reading,  \* what the outstanding async_read is for
  writing,  \* a posted Send or an async_write is outstanding
  closing,  \* a posted close is outstanding
  heard     \* how many messages reached m_qMessagesIn

vars == <<sock, valid, reading, writing, closing, heard>>

TypeOK ==
  /\ sock \in {"none", "open", "closed"}
  /\ valid \in {"pending", "ok", "failed"}
  /\ reading \in {"none", "validation", "message"}
  /\ writing \in BOOLEAN
  /\ closing \in BOOLEAN
  /\ heard \in Nat

Init ==
  /\ sock = "none"
  /\ valid = "pending"
  /\ reading = "none"
  /\ writing = FALSE
  /\ closing = FALSE
  /\ heard = 0

-----------------------------------------------------------------------------
\* OnClientConnect lets it in, and its handshake starts, or does not.
Accept ==
  /\ sock = "none"
  /\ sock' = "open"
  /\ reading' = "validation"
  /\ writing' = TRUE
  /\ UNCHANGED <<valid, closing, heard>>

Deny ==
  /\ sock = "none"
  /\ sock' = "closed"
  /\ UNCHANGED <<valid, reading, writing, closing, heard>>

\* OnClientValidated may send.
Validated ==
  /\ reading = "validation"
  /\ sock = "open"
  /\ valid' = "ok"
  /\ reading' = "message"
  /\ writing' \in {writing, TRUE}
  /\ UNCHANGED <<sock, closing, heard>>

ValidationFailed ==
  /\ reading = "validation"
  /\ sock = "open"
  /\ valid' = "failed"
  /\ reading' = "none"
  /\ UNCHANGED <<sock, writing, closing, heard>>

Receive ==
  /\ reading = "message"
  /\ sock = "open"
  /\ heard' = heard + 1
  /\ UNCHANGED <<sock, valid, reading, writing, closing>>

\* A failed read is the last: it has posted the close, or closed at once.
ReadFails ==
  /\ reading # "none"
  /\ reading' = "none"
  /\ \/ reading = "message" /\ closing' = TRUE /\ UNCHANGED sock
     \/ sock' = "closed" /\ UNCHANGED closing
  /\ UNCHANGED <<valid, writing, heard>>

Close ==
  /\ closing
  /\ closing' = FALSE
  /\ sock' = "closed"
  /\ UNCHANGED <<valid, reading, writing, heard>>

\* Send(), which MessageClient and MessageAllClients call if IsConnected().
Send ==
  /\ sock = "open"
  /\ writing' = TRUE
  /\ UNCHANGED <<sock, valid, reading, closing, heard>>

\* Writes end, or go on; one that fails closes the socket.
WritesEnd ==
  /\ writing
  /\ writing' \in BOOLEAN
  /\ sock' \in {sock, "closed"}
  /\ UNCHANGED <<valid, reading, closing, heard>>

Next ==
  \/ Accept \/ Deny \/ Validated \/ ValidationFailed \/ Receive
  \/ ReadFails \/ Close \/ Send \/ WritesEnd

Spec == Init /\ [][Next]_vars
=============================================================================
