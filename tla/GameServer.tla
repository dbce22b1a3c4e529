----------------------------- MODULE GameServer -----------------------------
(***************************************************************************)
(* examples/raylib_2d_example: the server that keeps a roster of players   *)
(* and relays what they do, and the clients' tables of players.            *)
(*                                                                         *)
(* What a player looks like and where it is stays out: no step depends on  *)
(* it.  An entry of a client's table is "known" when it came with the id   *)
(* of its player, or made by players[id] for an id that was not there, a   *)
(* "ghost" whose uUniqueID is 0.  The main thread of the server goes from  *)
(* one MessageClient or MessageAllClients to the next; in between sockets  *)
(* close and clients connect on its io thread, and where a callback of the *)
(* two threads touches what both use the run may stop (Overlap).           *)
(***************************************************************************)
EXTENDS Naturals, Sequences, SequencesExt

CONSTANTS
  MaxGamers,  \* bound: clients that connect
  MaxFrames,  \* bound: times each client sends its position or its look
  Leavers,    \* bound: the clients that may vanish
  Wrong       \* bound: the clients that may answer their challenge wrongly

ASSUME GameAssumption ==
  /\ MaxGamers \in Nat
  /\ MaxFrames \in [1 .. MaxGamers -> Nat]
  /\ Leavers \subseteq 1 .. MaxGamers
  /\ Wrong \subseteq 1 .. MaxGamers

Gamer == 1 .. MaxGamers
NoId == 0

VARIABLES
  clientRoster,  \* the ids in clientRoster
  GarbageIDs,    \* GarbageIDs
  listed,        \* m_deqConnections
  requests,      \* m_qMessagesIn
  wire,          \* the server's end of each connection
  sent,          \* messages under way to each client
  at,            \* where the main thread is in Update() and OnMessage()
  current,       \* the message it handles
  visit,         \* the ids its loop over GarbageIDs or clientRoster has before it
  gamer,         \* the members of each Game
  late,          \* the main thread sleeps in wait() on a request that is there
  undefined,     \* a loop lost the element it was at, or the two threads raced
  dropped        \* history: ids pushed to GarbageIDs while it was being flushed

game == <<clientRoster, GarbageIDs, at, current, visit, late, undefined, dropped>>
gameVars == <<game, listed, requests, wire, sent, gamer>>

NoRequest == [id |-> "none", from |-> NoId]

NewGame == [known |-> {}, ghost |-> {}, thisPlayerID |-> NoId,
            bWaitingForConnection |-> TRUE, frames |-> 0]

GameInit ==
  /\ clientRoster = {}
  /\ GarbageIDs = <<>>
  /\ listed = <<>>
  /\ requests = <<>>
  /\ wire = [c \in Gamer |-> "none"]
  /\ sent = [c \in Gamer |-> <<>>]
  /\ at = "idle"
  /\ current = NoRequest
  /\ visit = {}
  /\ gamer = [c \in Gamer |-> NewGame]
  /\ late = FALSE
  /\ undefined = FALSE
  /\ dropped = {}

-----------------------------------------------------------------------------
(* ServerInterface as the game uses it. *)

\* A wrong answer leaves the socket as it is.
Wired(c) == wire[c] \in {"pending", "open", "failed"}

\* Mutated form: the roster forgets the player and nobody is reminded.
ForgetsDeparture(gone) ==
  /\ clientRoster' = clientRoster \ gone
  /\ UNCHANGED <<GarbageIDs, dropped>>

\* OnClientDisconnect for each client of a set: those of the roster are
\* removed and remembered.  While GarbageIDs is being flushed the loop does
\* not see them, and clear() takes them away.
Departures(gone) ==
  LET players == gone \cap clientRoster IN
  /\ clientRoster' = clientRoster \ gone
  /\ IF at = "flush" THEN dropped' = dropped \cup players /\ UNCHANGED GarbageIDs
     ELSE /\ GarbageIDs' = GarbageIDs \o SetToSeq(players)
          /\ UNCHANGED dropped

\* MessageClient: a closed connection is kicked instead.
TellOne(c, msg) ==
  sent' = IF Wired(c) THEN [sent EXCEPT ![c] = Append(@, msg)] ELSE sent

\* MessageAllClients, but for one client.
TellAll(msg, ignore) ==
  sent' = [c \in Gamer |-> IF c \in ToSet(listed) \ {ignore} /\ Wired(c)
                             THEN Append(sent[c], msg) ELSE sent[c]]
Unwired(ignore) == {c \in ToSet(listed) \ {ignore} : ~Wired(c)}

-----------------------------------------------------------------------------
(* The io thread of the server. *)

Arrives(c) == wire[c] = "none" /\ \A d \in Gamer : d < c => wire[d] # "none"

AcceptGamer(c) ==
  /\ Arrives(c)
  /\ wire' = [wire EXCEPT ![c] = "pending"]
  /\ listed' = Append(listed, c)
  /\ UNCHANGED <<game, requests, sent, gamer>>

\* OnClientValidated
ValidateGamer(c) ==
  /\ wire[c] = "pending"
  /\ wire' = [wire EXCEPT ![c] = "open"]
  /\ TellOne(c, [id |-> "Client_Accepted"])
  /\ UNCHANGED <<game, listed, requests, gamer>>

\* A wrong answer: KickClient tells OnClientDisconnect, to which the client is
\* unknown, and the connection stays open and listed.  Nothing is read from it
\* any more.
FailGamer(c) ==
  /\ c \in Wrong
  /\ wire[c] = "pending"
  /\ wire' = [wire EXCEPT ![c] = "failed"]
  /\ UNCHANGED <<game, listed, requests, sent, gamer>>

\* The main thread is in OnMessage(), which goes through m_deqConnections and
\* clientRoster, while an accept adds to the one or KickClient looks at the other.
Overlap(c) ==
  /\ at # "idle"
  /\ Arrives(c) \/ (c \in Wrong /\ wire[c] = "pending")
  /\ undefined' = TRUE
  /\ UNCHANGED <<clientRoster, GarbageIDs, at, current, visit, late, dropped>>
  /\ UNCHANGED <<listed, requests, wire, sent, gamer>>

\* The window of the client is closed, or the connection is lost; either
\* way nothing more is sent or received.
Vanish(c) ==
  /\ c \in Leavers
  /\ Wired(c)
  /\ wire' = [wire EXCEPT ![c] = "closed"]
  /\ sent' = [sent EXCEPT ![c] = <<>>]
  /\ gamer' = [gamer EXCEPT ![c] = NewGame]
  /\ UNCHANGED <<game, listed, requests>>

-----------------------------------------------------------------------------
(* The main thread: Update() with OnMessage(). *)

\* Update(-1, true) begins with wait().  A request that arrives between its
\* test of the queue and its sleep is not noticed; whether the thread wakes up
\* without being told, or for a later one, is open.
MissWakeup ==
  /\ at = "idle"
  /\ requests # <<>>
  /\ ~late
  /\ late' = TRUE
  /\ UNCHANGED <<clientRoster, GarbageIDs, at, current, visit, undefined, dropped>>
  /\ UNCHANGED <<listed, requests, wire, sent, gamer>>

TakeRequest ==
  /\ at = "idle"
  /\ requests # <<>>
  /\ current' = Head(requests)
  /\ requests' = Tail(requests)
  /\ at' = IF GarbageIDs = <<>> THEN "act" ELSE "flush"
  /\ visit' = ToSet(GarbageIDs)
  /\ late' = FALSE
  /\ UNCHANGED <<clientRoster, GarbageIDs, listed, wire, sent, gamer, undefined, dropped>>

\* One id of GarbageIDs; after the last the vector is cleared.  A push_back
\* may move the vector while the loop has ids to visit.
Flush ==
  /\ at = "flush"
  /\ \E id \in visit :
       /\ TellAll([id |-> "Game_RemovePlayer", player |-> id], NoId)
       /\ visit' = visit \ {id}
  /\ clientRoster' = clientRoster \ Unwired(NoId)
  /\ dropped' = dropped \cup (clientRoster \cap Unwired(NoId))
  /\ GarbageIDs' = IF visit' = {} THEN <<>> ELSE GarbageIDs
  /\ at' = IF visit' = {} THEN "act" ELSE "flush"
  /\ undefined' \in IF visit' # {} /\ clientRoster' # clientRoster THEN BOOLEAN ELSE {FALSE}
  /\ UNCHANGED <<listed, requests, wire, current, gamer, late>>

\* Client_RegisterWithServer up to the loop over clientRoster: the id goes to
\* the client, the client to the others.  What vanishes between the two
\* might as well have done so before or after them.
Register ==
  /\ at = "act"
  /\ current.id = "Client_RegisterWithServer"
  /\ LET c == current.from
         add == [id |-> "Game_AddPlayer", player |-> c]
         assign == [id |-> "Client_AssignID", player |-> c]
         gone == {d \in ToSet(listed) : ~Wired(d)}
         players == gone \cap (clientRoster \cup {c})
     IN  /\ sent' = [d \in Gamer |->
                        IF d \notin ToSet(listed) \ gone THEN sent[d]
                        ELSE Append(sent[d], IF d = c THEN assign ELSE add)]
         /\ clientRoster' = (clientRoster \cup {c}) \ gone
         /\ GarbageIDs' = GarbageIDs \o SetToSeq(players)
  /\ visit' = clientRoster'
  /\ at' = IF visit' = {} THEN "check" ELSE "roster"
  /\ UNCHANGED <<listed, requests, wire, current, gamer, late, undefined, dropped>>

\* One entry of the roster, in the order of the hash table.  If the client
\* has gone, KickClient erases it, and the loop may be at its entry.
SendRoster ==
  /\ at = "roster"
  /\ \E id \in visit :
       /\ TellOne(current.from, [id |-> "Game_AddPlayer", player |-> id])
       /\ IF Wired(current.from)
            THEN /\ visit' = visit \ {id}
                 /\ UNCHANGED <<clientRoster, GarbageIDs, undefined, dropped>>
            ELSE /\ visit' = visit \ {id, current.from}
                 /\ Departures({current.from})
                 /\ undefined' = (id = current.from /\ id \in clientRoster)
  /\ at' = IF visit' = {} THEN "check" ELSE "roster"
  /\ UNCHANGED <<listed, requests, wire, current, gamer, late>>

\* Game_UpdatePlayer and Game_UpdatePlayerLook go to all the others; then
\* Update() kicks the sender if it is gone.
Relay ==
  /\ at = "act"
  /\ current.id \in {"Game_UpdatePlayer", "Game_UpdatePlayerLook"}
  /\ TellAll([id |-> current.id, player |-> current.player], current.from)
  /\ Departures(Unwired(NoId))
  /\ at' = "idle"
  /\ current' = NoRequest
  /\ UNCHANGED <<listed, requests, wire, visit, gamer, late, undefined>>

\* The same check after a registration.
CheckSender ==
  /\ at = "check"
  /\ Departures(IF Wired(current.from) THEN {} ELSE {current.from})
  /\ at' = "idle"
  /\ current' = NoRequest
  /\ UNCHANGED <<listed, requests, wire, sent, visit, gamer, late, undefined>>

ServerMain ==
  TakeRequest \/ Flush \/ Register \/ SendRoster \/ Relay \/ CheckSender

-----------------------------------------------------------------------------
(* Clients: Game::Update() and DrawScreen(). *)

\* players[id], which makes an entry for an id that is not there.
Touch(g, id) == IF id \in g.known THEN g ELSE [g EXCEPT !.ghost = @ \cup {id}]

\* Mutated form: the client never stops waiting.
AddedWaits(g, id) == [g EXCEPT !.known = @ \cup {id}, !.ghost = @ \ {id}]

\* Mutated form: stops waiting with whatever player it gets.
AddedAny(g, id) ==
  [g EXCEPT !.known = @ \cup {id}, !.ghost = @ \ {id}, !.bWaitingForConnection = FALSE]

\* Mutated form: only listens to the roster it gets when it registers.
AddedOnce(g, id) ==
  IF ~g.bWaitingForConnection THEN g
  ELSE [g EXCEPT !.known = @ \cup {id}, !.ghost = @ \ {id},
                 !.bWaitingForConnection = (id # g.thisPlayerID)]

Added(g, id) ==
  [g EXCEPT !.known = @ \cup {id}, !.ghost = @ \ {id},
            !.bWaitingForConnection = @ /\ id # g.thisPlayerID]

Removed(g, id) == [g EXCEPT !.known = @ \ {id}, !.ghost = @ \ {id}]

Reaction(g, msg) ==
  CASE msg.id = "Client_Accepted" -> g
    [] msg.id = "Client_AssignID" -> [g EXCEPT !.thisPlayerID = msg.player]
    [] msg.id = "Game_AddPlayer" -> Added(g, msg.player)
    [] msg.id = "Game_RemovePlayer" -> Removed(g, msg.player)
    [] OTHER -> Touch(g, msg.player)

\* One message of the loop of Update().
TakeMessage(c) ==
  /\ Wired(c)
  /\ sent[c] # <<>>
  /\ sent' = [sent EXCEPT ![c] = Tail(@)]
  /\ LET msg == Head(sent[c]) IN
       /\ gamer' = [gamer EXCEPT ![c] = Reaction(@, msg)]
       /\ requests' = IF msg.id = "Client_Accepted"
            THEN Append(requests, [id |-> "Client_RegisterWithServer", from |-> c])
            ELSE requests
  /\ UNCHANGED <<game, listed, wire>>

\* What the user does reaches the server with the id of the player.
Act(c, id) ==
  /\ Wired(c)
  /\ ~gamer[c].bWaitingForConnection
  /\ gamer[c].frames < MaxFrames[c]
  /\ LET g == gamer[c] IN
       /\ gamer' = [gamer EXCEPT ![c] = [Touch(g, g.thisPlayerID) EXCEPT !.frames = @ + 1]]
       /\ requests' = Append(requests, [id |-> id, from |-> c, player |-> g.thisPlayerID])
  /\ UNCHANGED <<game, listed, wire, sent>>

\* The rest of Update(): the position.
Frame(c) == Act(c, "Game_UpdatePlayer")

\* In DrawScreen(), GuiButton("Save") clicked: the look.
Save(c) == Act(c, "Game_UpdatePlayerLook")

GameNext ==
  /\ ~undefined
  /\ \/ ServerMain \/ MissWakeup
     \/ \E c \in Gamer : \/ AcceptGamer(c) \/ ValidateGamer(c) \/ FailGamer(c)
                         \/ Overlap(c) \/ Vanish(c)
                         \/ TakeMessage(c) \/ Frame(c) \/ Save(c)

GameSpec == GameInit /\ [][GameNext]_gameVars

\* The main thread goes on unless it sleeps; the clients' loops never wait.
GameFairness ==
  /\ WF_gameVars(~undefined /\ ~late /\ ServerMain)
  /\ \A c \in Gamer : WF_gameVars(~undefined /\ TakeMessage(c))

-----------------------------------------------------------------------------
Note == [id : {"Client_Accepted"}]
  \cup [id : {"Client_AssignID", "Game_AddPlayer", "Game_RemovePlayer",
              "Game_UpdatePlayer", "Game_UpdatePlayerLook"}, player : Gamer]
Request == [id : {"Client_RegisterWithServer"}, from : Gamer]
  \cup [id : {"Game_UpdatePlayer", "Game_UpdatePlayerLook"}, from : Gamer, player : Gamer]

Members == [known : SUBSET Gamer, ghost : SUBSET Gamer, thisPlayerID : Gamer \cup {NoId},
            bWaitingForConnection : BOOLEAN, frames : Nat]

GameTypeOK ==
  /\ clientRoster \in SUBSET Gamer
  /\ GarbageIDs \in Seq(Gamer)
  /\ listed \in Seq(Gamer)
  /\ requests \in Seq(Request)
  /\ wire \in [Gamer -> {"none", "pending", "open", "failed", "closed"}]
  /\ sent \in [Gamer -> Seq(Note)]
  /\ at \in {"idle", "flush", "act", "roster", "check"}
  /\ at # "idle" => current \in Request
  /\ visit \in SUBSET Gamer
  /\ gamer \in [Gamer -> Members]
  /\ late \in BOOLEAN
  /\ undefined \in BOOLEAN
  /\ dropped \in SUBSET Gamer

Coming(c, what, d) == \E i \in DOMAIN sent[c] : sent[c][i] = [id |-> what, player |-> d]

\* Between messages, whoever is in the roster and connected knows everybody
\* in the roster, or is about to be told.
RosterShared ==
  at = "idle" /\ ~undefined =>
    \A c, d \in clientRoster :
      Wired(c) => d \in gamer[c].known \/ Coming(c, "Game_AddPlayer", d)

\* A client knows a player that has left the roster only as long as it can
\* still be told: the removal is under way to it or waits in GarbageIDs.
\* What OnClientDisconnect adds to GarbageIDs during its flush is lost.
DepartureRemembered ==
  ~undefined =>
    \A c \in Gamer : \A d \in gamer[c].known \ (clientRoster \cup dropped) :
      Wired(c) => \/ Coming(c, "Game_RemovePlayer", d)
                  \/ d \in ToSet(GarbageIDs)

\* A player that no longer waits is in its own table, under its own id, as
\* long as it is connected: nobody can remove it.
PlayerKnowsItself ==
  \A c \in Gamer : Wired(c) /\ ~gamer[c].bWaitingForConnection =>
    gamer[c].thisPlayerID = c /\ c \in gamer[c].known

\* A client that is let in gets to play, unless the connection is lost or the
\* server sleeps for ever on a request that is there: only finitely many
\* connect, so again and again none of them is waiting.
Waiting == {c \in Gamer : wire[c] = "open" /\ gamer[c].bWaitingForConnection}
GetsToPlay == []<>(Waiting = {} \/ undefined) \/ <>[]late
=============================================================================
