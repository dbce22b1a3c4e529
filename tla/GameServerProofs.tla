-------------------------- MODULE GameServerProofs --------------------------
(***************************************************************************)
(* Theorems about GameServer, for any number of clients, of which any may  *)
(* vanish or answer wrongly: its types, that a player stays in its own     *)
(* table, that those of the roster get to know each other, and that        *)
(* departures are not lost.                                                *)
(*                                                                         *)
(* A client loses its own entry only to a Game_RemovePlayer with its id.   *)
(* Such an id has come by KickClient, GarbageIDs and the loop that flushes *)
(* it; GameInv follows it on that way and says that it is the id of a      *)
(* closed connection all along, which no connection ever opens again.      *)
(* RosterInv, in the second half, adds what each client will know when it  *)
(* has taken all that is under way to it.                                  *)
(***************************************************************************)
EXTENDS GameServer, FiniteSetTheorems, SequenceTheorems, TLAPS

\* Only connections that were accepted are listed, or send requests.
ListedMet == \A i \in 1 .. Len(listed) : wire[listed[i]] # "none"
RequestsMet == \A i \in 1 .. Len(requests) : wire[requests[i].from] # "none"
CurrentMet == at # "idle" => wire[current.from] # "none"
Met == ListedMet /\ RequestsMet /\ CurrentMet

\* The ids of removed players are those of closed connections.
GarbageClosed == \A i \in 1 .. Len(GarbageIDs) : wire[GarbageIDs[i]] = "closed"
VisitClosed == at = "flush" => \A d \in visit : wire[d] = "closed"

\* What may be under way to client c when the connections are w.
NoteFor(c, msg, w) ==
  /\ msg.id = "Client_AssignID" => msg.player = c
  /\ msg.id = "Game_RemovePlayer" => w[msg.player] = "closed"
NotesRight == \A c \in Gamer : \A i \in 1 .. Len(sent[c]) : NoteFor(c, sent[c][i], wire)

\* A client has its own id or none, and its own entry unless it waits for it.
Own(c, g) ==
  /\ g.thisPlayerID \in {c, NoId}
  /\ ~g.bWaitingForConnection => g.thisPlayerID = c /\ c \in g.known
OwnId == \A c \in Gamer : Own(c, gamer[c])

Removals == GarbageClosed /\ VisitClosed

GameInv == GameTypeOK /\ Met /\ Removals /\ NotesRight /\ OwnId

-----------------------------------------------------------------------------
(* Sequences of ids *)

\* SetToSeq of a set of players is a sequence of its members.
LEMMA SetToSeqType ==
  ASSUME NEW S \in SUBSET Gamer
  PROVE  SetToSeq(S) \in Seq(S)
<1>1. IsFiniteSet(S)
  <2>1. 1 \in Int /\ MaxGamers \in Int
    BY GameAssumption
  <2>2. IsFiniteSet(Gamer)
    BY <2>1, FS_Interval DEF Gamer
  <2> QED BY <2>2, FS_Subset
<1>2. Cardinality(S) \in Nat /\ ExistsBijection(1 .. Cardinality(S), S)
  BY <1>1, FS_CardinalityType
<1>3. PICK f \in [1 .. Cardinality(S) -> S] : IsInjective(f)
  BY <1>2 DEF ExistsBijection, Bijection, Injection
<1>4. SetToSeq(S) \in [1 .. Cardinality(S) -> S]
  BY <1>3 DEF SetToSeq
<1> QED BY <1>2, <1>4

LEMMA ToSetElements ==
  ASSUME NEW S, NEW s \in Seq(S), NEW e \in ToSet(s)
  PROVE  \E i \in 1 .. Len(s) : e = s[i]
  BY DEF ToSet

-----------------------------------------------------------------------------
(* What the parts of the actions do to the parts of the invariant *)

\* Connections only open and close.
Kept ==
  /\ wire \in [Gamer -> {"none", "pending", "open", "failed", "closed"}]
  /\ wire' \in [Gamer -> {"none", "pending", "open", "failed", "closed"}]
  /\ \A c \in Gamer : /\ wire[c] # "none" => wire'[c] # "none"
                      /\ wire[c] = "closed" => wire'[c] = "closed"

\* Each client is sent one message at most, and a right one.
LEMMA Told ==
  ASSUME sent \in [Gamer -> Seq(Note)], NotesRight, Kept,
         sent' \in [Gamer -> Seq(Note)],
         \A c \in Gamer :
           \/ sent'[c] = sent[c]
           \/ \E m \in Note : NoteFor(c, m, wire') /\ sent'[c] = Append(sent[c], m)
  PROVE  NotesRight'
<1> SUFFICES ASSUME NEW c \in Gamer, NEW i \in 1 .. Len(sent'[c])
             PROVE  NoteFor(c, sent'[c][i], wire')
  BY DEF NotesRight
<1>1. \A j \in 1 .. Len(sent[c]) : NoteFor(c, sent[c][j], wire')
  <2> SUFFICES ASSUME NEW j \in 1 .. Len(sent[c]) PROVE NoteFor(c, sent[c][j], wire')
    OBVIOUS
  <2> DEFINE m == sent[c][j]
  <2>1. NoteFor(c, m, wire) /\ m \in Note
    BY DEF NotesRight
  <2>2. m.id = "Game_RemovePlayer" => m.player \in Gamer
    BY <2>1 DEF Note
  <2> HIDE DEF m
  <2>3. NoteFor(c, m, wire')
    BY <2>1, <2>2 DEF NoteFor, Kept
  <2> QED BY <2>3 DEF m
<1>2. CASE sent'[c] = sent[c]
  BY <1>1, <1>2
<1>3. ASSUME NEW m \in Note, NoteFor(c, m, wire'), sent'[c] = Append(sent[c], m)
      PROVE  NoteFor(c, sent'[c][i], wire')
  <2>1. sent[c] \in Seq(Note)
    OBVIOUS
  <2>2. CASE i = Len(sent[c]) + 1
    <3>1. sent'[c][i] = m
      BY <1>3, <2>1, <2>2
    <3> QED BY <1>3, <3>1
  <2>3. CASE i # Len(sent[c]) + 1
    <3>1. i \in 1 .. Len(sent[c]) /\ sent'[c][i] = sent[c][i]
      BY <1>3, <2>1, <2>3
    <3> QED BY <1>1, <3>1
  <2> QED BY <2>2, <2>3
<1> QED BY <1>2, <1>3

\* A client that is listed and not wired has a closed connection.
LEMMA UnwiredClosed ==
  ASSUME GameInv, NEW c \in Unwired(NoId)
  PROVE  c \in Gamer /\ wire[c] = "closed"
<1>1. c \in ToSet(listed) /\ ~Wired(c)
  BY DEF Unwired
<1>2. PICK i \in 1 .. Len(listed) : c = listed[i]
  BY <1>1, ToSetElements DEF GameInv, GameTypeOK
<1>3. c \in Gamer /\ wire[c] # "none"
  BY <1>2 DEF GameInv, GameTypeOK, Met, ListedMet
<1> QED BY <1>1, <1>3 DEF Wired, GameInv, GameTypeOK

\* GarbageIDs with more ids of closed connections.
LEMMA GarbageGrows ==
  ASSUME GameInv, UNCHANGED wire, NEW S \in SUBSET Gamer, \A c \in S : wire[c] = "closed",
         GarbageIDs' = GarbageIDs \o SetToSeq(S)
  PROVE  GarbageIDs' \in Seq(Gamer) /\ GarbageClosed'
<1> DEFINE more == SetToSeq(S)
<1>1. more \in Seq(S) /\ more \in Seq(Gamer)
  BY SetToSeqType
<1>2. GarbageIDs \in Seq(Gamer) /\ GarbageClosed
  BY DEF GameInv, GameTypeOK, Removals
<1> HIDE DEF more
<1>3. GarbageIDs \o more \in Seq(Gamer)
  BY <1>1, <1>2
<1>4. ASSUME NEW i \in 1 .. Len(GarbageIDs \o more)
      PROVE  wire[(GarbageIDs \o more)[i]] = "closed"
  <2>1. CASE i \in 1 .. Len(GarbageIDs)
    BY <1>1, <1>2, <2>1 DEF GarbageClosed
  <2>2. CASE i \notin 1 .. Len(GarbageIDs)
    <3>1. i - Len(GarbageIDs) \in 1 .. Len(more)
          /\ (GarbageIDs \o more)[i] = more[i - Len(GarbageIDs)]
      BY <1>1, <1>2, <2>2
    <3> QED BY <1>1, <3>1
  <2> QED BY <2>1, <2>2
<1> QED BY <1>3, <1>4 DEF more, GarbageClosed

\* OnClientDisconnect for clients that are gone.
LEMMA DeparturesOK ==
  ASSUME GameInv, UNCHANGED wire, NEW gone \in SUBSET Gamer,
         \A c \in gone : wire[c] = "closed", Departures(gone)
  PROVE  /\ clientRoster' \in SUBSET Gamer
         /\ GarbageIDs' \in Seq(Gamer) /\ GarbageClosed'
         /\ dropped' \in SUBSET Gamer
<1>1. clientRoster' \in SUBSET Gamer /\ dropped' \in SUBSET Gamer
  BY DEF Departures, GameInv, GameTypeOK
<1>2. CASE at = "flush"
  BY <1>2 DEF Departures, GameInv, GameTypeOK, Removals, GarbageClosed
<1>3. CASE at # "flush"
  <2> DEFINE S == gone \cap clientRoster
  <2>1. S \in SUBSET Gamer /\ \A c \in S : wire[c] = "closed"
    OBVIOUS
  <2>2. GarbageIDs' = GarbageIDs \o SetToSeq(S)
    BY <1>3 DEF Departures
  <2> HIDE DEF S
  <2> QED BY <1>1, <2>1, <2>2, GarbageGrows
<1> QED BY <1>1, <1>2, <1>3

\* MessageClient and MessageAllClients.
LEMMA TellOneOK ==
  ASSUME GameInv, Kept, NEW c \in Gamer, NEW m \in Note, NoteFor(c, m, wire'), TellOne(c, m)
  PROVE  sent' \in [Gamer -> Seq(Note)] /\ NotesRight'
<1>1. sent \in [Gamer -> Seq(Note)] /\ NotesRight
  BY DEF GameInv, GameTypeOK
<1>2. sent[c] \in Seq(Note) /\ Append(sent[c], m) \in Seq(Note)
  BY <1>1
<1>3. sent' \in [Gamer -> Seq(Note)]
  BY <1>1, <1>2 DEF TellOne
<1>4. \A d \in Gamer : sent'[d] = sent[d] \/ (d = c /\ sent'[d] = Append(sent[d], m))
  BY <1>1 DEF TellOne
<1> QED BY <1>1, <1>3, <1>4, Told

LEMMA TellAllOK ==
  ASSUME GameInv, Kept, NEW m \in Note, \A c \in Gamer : NoteFor(c, m, wire'),
         NEW ignore, TellAll(m, ignore)
  PROVE  sent' \in [Gamer -> Seq(Note)] /\ NotesRight'
<1>1. sent \in [Gamer -> Seq(Note)] /\ NotesRight
  BY DEF GameInv, GameTypeOK
<1>2. \A d \in Gamer : sent[d] \in Seq(Note) /\ Append(sent[d], m) \in Seq(Note)
  BY <1>1
<1>3. sent' \in [Gamer -> Seq(Note)]
  BY <1>2 DEF TellAll
<1>4. \A d \in Gamer : sent'[d] = sent[d] \/ sent'[d] = Append(sent[d], m)
  BY DEF TellAll
<1> QED BY <1>1, <1>3, <1>4, Told

\* The members of a client when it handles a message.
LEMMA ReactionOK ==
  ASSUME NEW c \in Gamer, NEW g \in Members, NEW msg \in Note, Own(c, g),
         msg.id = "Client_AssignID" => msg.player = c,
         msg.id = "Game_RemovePlayer" => msg.player # c
  PROVE  Reaction(g, msg) \in Members /\ Own(c, Reaction(g, msg))
<1>1. c # NoId
  BY DEF Gamer, NoId
<1>2. msg.id # "Client_Accepted" => msg.player \in Gamer /\ msg.player # NoId
  BY DEF Note, Gamer, NoId
<1>3. CASE msg.id = "Client_Accepted"
  BY <1>3 DEF Reaction
<1>4. CASE msg.id = "Client_AssignID"
  <2>1. Reaction(g, msg) = [g EXCEPT !.thisPlayerID = c]
    BY <1>4 DEF Reaction
  <2> QED BY <1>1, <2>1 DEF Members, Own
<1>5. CASE msg.id = "Game_AddPlayer"
  <2> DEFINE w == g.bWaitingForConnection /\ msg.player # g.thisPlayerID
             r == Reaction(g, msg)
  <2>1. r = [g EXCEPT !.known = @ \cup {msg.player}, !.ghost = @ \ {msg.player},
                      !.bWaitingForConnection = w]
    BY <1>5 DEF Reaction, Added, Members
  <2>2. w \in BOOLEAN
    OBVIOUS
  <2>3. msg.player \in Gamer
    BY <1>2, <1>5
  <2>4. ~w => msg.player = g.thisPlayerID \/ ~g.bWaitingForConnection
    OBVIOUS
  <2> HIDE DEF w, r
  <2>5. r \in Members
    BY <2>1, <2>2, <2>3 DEF Members
  <2>6. /\ r.thisPlayerID = g.thisPlayerID
        /\ r.known = g.known \cup {msg.player}
        /\ r.bWaitingForConnection = w
    BY <2>1, <2>2 DEF Members
  <2>7. ~w => g.thisPlayerID = c /\ (c = msg.player \/ c \in g.known)
    BY <1>1, <1>2, <1>5, <2>4 DEF Own
  <2>8. r.thisPlayerID \in {c, NoId}
    BY <2>6 DEF Own
  <2>9. ~r.bWaitingForConnection => r.thisPlayerID = c /\ c \in r.known
    BY <2>6, <2>7
  <2> QED BY <2>5, <2>8, <2>9 DEF r, Own
<1>6. CASE msg.id = "Game_RemovePlayer"
  <2> DEFINE r == Reaction(g, msg)
  <2>1. r = [g EXCEPT !.known = @ \ {msg.player}, !.ghost = @ \ {msg.player}]
    BY <1>6 DEF Reaction, Removed
  <2>2. r \in Members
    BY <2>1 DEF Members
  <2>3. /\ r.thisPlayerID = g.thisPlayerID
        /\ r.known = g.known \ {msg.player}
        /\ r.bWaitingForConnection = g.bWaitingForConnection
    BY <2>1 DEF Members
  <2> HIDE DEF r
  <2>4. Own(c, r)
    BY <1>6, <2>3 DEF Own
  <2> QED BY <2>2, <2>4 DEF r
<1>7. CASE msg.id \in {"Game_UpdatePlayer", "Game_UpdatePlayerLook"}
  <2>1. Reaction(g, msg) = Touch(g, msg.player)
    BY <1>7 DEF Reaction
  <2> QED BY <1>2, <1>7, <2>1 DEF Members, Own, Touch
<1> QED BY <1>3, <1>4, <1>5, <1>6, <1>7 DEF Note

-----------------------------------------------------------------------------
(* The actions *)

\* The io thread of the server.
LEMMA AcceptInv ==
  ASSUME GameInv, NEW c \in Gamer, AcceptGamer(c)
  PROVE  GameInv'
<1> USE DEF AcceptGamer, Arrives, game
<1>1. wire' = [wire EXCEPT ![c] = "pending"] /\ wire[c] = "none" /\ Kept
  BY DEF GameInv, GameTypeOK, Kept
<1>2. listed' = Append(listed, c) /\ listed \in Seq(Gamer)
  BY DEF GameInv, GameTypeOK
<1>3. GameTypeOK'
  BY <1>1, <1>2 DEF GameInv, GameTypeOK
<1>4. Met'
  <2>1. wire'[c] # "none"
    BY <1>1 DEF Kept
  <2>2. ListedMet'
    BY <1>1, <1>2, <2>1 DEF GameInv, Met, ListedMet, Kept
  <2>3. RequestsMet'
    BY <1>1 DEF GameInv, GameTypeOK, Met, RequestsMet, Kept, Request
  <2>4. CurrentMet'
    BY <1>1 DEF GameInv, GameTypeOK, Met, CurrentMet, Kept, Request
  <2> QED BY <2>2, <2>3, <2>4 DEF Met
<1>5. Removals'
  BY <1>1 DEF GameInv, GameTypeOK, Removals, GarbageClosed, VisitClosed, Kept
<1>6. NotesRight'
  BY <1>1, Told DEF GameInv, GameTypeOK
<1>7. OwnId'
  BY DEF GameInv, OwnId
<1> QED BY <1>3, <1>4, <1>5, <1>6, <1>7 DEF GameInv

\* Whatever connections do, what the server holds of them stays right.
LEMMA KeptRight ==
  ASSUME GameInv, Kept, UNCHANGED <<game, listed, requests>>
  PROVE  Met' /\ Removals'
<1> USE DEF game
<1>1. ListedMet'
  BY DEF GameInv, GameTypeOK, Met, ListedMet, Kept
<1>2. RequestsMet'
  BY DEF GameInv, GameTypeOK, Met, RequestsMet, Kept, Request
<1>3. CurrentMet'
  BY DEF GameInv, GameTypeOK, Met, CurrentMet, Kept, Request
<1>4. Removals'
  BY DEF GameInv, GameTypeOK, Removals, GarbageClosed, VisitClosed, Kept
<1> QED BY <1>1, <1>2, <1>3, <1>4 DEF Met

LEMMA ValidateInv ==
  ASSUME GameInv, NEW c \in Gamer, ValidateGamer(c)
  PROVE  GameInv'
<1> USE DEF ValidateGamer
<1>1. Kept
  BY DEF GameInv, GameTypeOK, Kept
<1>2. [id |-> "Client_Accepted"] \in Note
  BY DEF Note
<1>3. NoteFor(c, [id |-> "Client_Accepted"], wire')
  BY DEF NoteFor
<1>4. sent' \in [Gamer -> Seq(Note)] /\ NotesRight'
  BY <1>1, <1>2, <1>3, TellOneOK
<1>5. GameTypeOK'
  BY <1>1, <1>4 DEF GameInv, GameTypeOK, Kept, game
<1>6. OwnId'
  BY DEF GameInv, OwnId
<1> QED BY <1>1, <1>4, <1>5, <1>6, KeptRight DEF GameInv

LEMMA FailInv ==
  ASSUME GameInv, NEW c \in Gamer, FailGamer(c)
  PROVE  GameInv'
<1> USE DEF FailGamer
<1>1. Kept
  BY DEF GameInv, GameTypeOK, Kept
<1>2. GameTypeOK' /\ OwnId'
  BY DEF GameInv, GameTypeOK, OwnId, game
<1>3. NotesRight'
  BY <1>1, Told DEF GameInv, GameTypeOK
<1> QED BY <1>1, <1>2, <1>3, KeptRight DEF GameInv

\* Steps that only put the main thread to sleep or end the run.
Unmoved ==
  /\ UNCHANGED <<clientRoster, GarbageIDs, at, current, visit, dropped>>
  /\ UNCHANGED <<listed, requests, wire, sent, gamer>>
  /\ late' \in BOOLEAN /\ undefined' \in BOOLEAN

LEMMA UnmovedSteps ==
  ASSUME GameInv,
         MissWakeup \/ (\E c \in Gamer : Overlap(c)) \/ UNCHANGED gameVars
  PROVE  Unmoved
<1>1. late \in BOOLEAN /\ undefined \in BOOLEAN
  BY DEF GameInv, GameTypeOK
<1> QED BY <1>1 DEF MissWakeup, Overlap, gameVars, game, Unmoved

LEMMA VanishInv ==
  ASSUME GameInv, NEW c \in Gamer, Vanish(c)
  PROVE  GameInv'
<1> USE DEF Vanish
<1>1. Kept
  BY DEF GameInv, GameTypeOK, Kept, Wired
<1>2. NewGame \in Members /\ Own(c, NewGame)
  BY DEF NewGame, Members, Own
<1>3. sent' \in [Gamer -> Seq(Note)]
  BY DEF GameInv, GameTypeOK
<1>4. NotesRight'
  <2>1. ASSUME NEW d \in Gamer, NEW i \in 1 .. Len(sent'[d])
        PROVE  d # c /\ sent'[d] = sent[d]
    BY DEF GameInv, GameTypeOK
  <2>2. ASSUME NEW d \in Gamer, NEW i \in 1 .. Len(sent'[d])
        PROVE  NoteFor(d, sent'[d][i], wire')
    <3> DEFINE m == sent[d][i]
    <3>1. sent'[d] = sent[d] /\ i \in 1 .. Len(sent[d])
      BY <2>1
    <3>2. NoteFor(d, m, wire) /\ m \in Note
      BY <3>1 DEF GameInv, GameTypeOK, NotesRight
    <3>3. m.id = "Game_RemovePlayer" => m.player \in Gamer
      BY <3>2 DEF Note
    <3> HIDE DEF m
    <3>4. NoteFor(d, m, wire')
      BY <1>1, <3>2, <3>3 DEF NoteFor, Kept
    <3> QED BY <3>1, <3>4 DEF m
  <2> QED BY <2>2 DEF NotesRight
<1>5. gamer' \in [Gamer -> Members]
  BY <1>2 DEF GameInv, GameTypeOK
<1>6. GameTypeOK'
  BY <1>1, <1>3, <1>5 DEF GameInv, GameTypeOK, Kept, game
<1>7. OwnId'
  BY <1>2 DEF GameInv, GameTypeOK, OwnId
<1> QED BY <1>1, <1>4, <1>6, <1>7, KeptRight DEF GameInv

\* The main thread of the server.
LEMMA TakeRequestInv ==
  ASSUME GameInv, TakeRequest
  PROVE  GameInv'
<1> USE DEF TakeRequest
<1>1. /\ requests \in Seq(Request) /\ requests # <<>>
      /\ current' = requests[1] /\ requests' = Tail(requests)
  BY DEF GameInv, GameTypeOK
<1>2. /\ current' \in Request /\ requests' \in Seq(Request)
      /\ \A i \in 1 .. Len(requests') : requests'[i] = requests[i + 1] /\ i + 1 \in 1 .. Len(requests)
  BY <1>1
<1>3. visit' = ToSet(GarbageIDs) /\ at' \in {"act", "flush"} /\ late' \in BOOLEAN
  OBVIOUS
<1>4. ASSUME NEW d \in visit'
      PROVE  d \in Gamer /\ wire[d] = "closed"
  <2>1. d \in ToSet(GarbageIDs) /\ GarbageIDs \in Seq(Gamer)
    BY <1>3 DEF GameInv, GameTypeOK
  <2>2. PICK i \in 1 .. Len(GarbageIDs) : d = GarbageIDs[i]
    BY <2>1, ToSetElements
  <2> QED BY <2>1, <2>2 DEF GameInv, Removals, GarbageClosed
<1>5. GameTypeOK'
  BY <1>2, <1>3, <1>4 DEF GameInv, GameTypeOK
<1>6. Met'
  BY <1>1, <1>2 DEF GameInv, Met, ListedMet, RequestsMet, CurrentMet
<1>7. Removals'
  BY <1>4 DEF GameInv, Removals, GarbageClosed, VisitClosed
<1>8. NotesRight' /\ OwnId'
  BY DEF GameInv, NotesRight, OwnId
<1> QED BY <1>5, <1>6, <1>7, <1>8 DEF GameInv

LEMMA FlushInv ==
  ASSUME GameInv, Flush
  PROVE  GameInv'
<1> DEFINE note(id) == [id |-> "Game_RemovePlayer", player |-> id]
<1>1. PICK id \in visit : TellAll(note(id), NoId) /\ visit' = visit \ {id}
  BY DEF Flush
<1>2. id \in Gamer /\ wire[id] = "closed" /\ at = "flush"
  BY DEF Flush, GameInv, GameTypeOK, Removals, VisitClosed
<1>3. Kept /\ UNCHANGED <<listed, requests, wire, current, gamer, late>>
  BY DEF Flush, Kept, GameInv, GameTypeOK
<1>4. note(id) \in Note /\ \A c \in Gamer : NoteFor(c, note(id), wire')
  BY <1>2, <1>3 DEF Note, NoteFor
<1>5. sent' \in [Gamer -> Seq(Note)] /\ NotesRight'
  BY <1>1, <1>3, <1>4, TellAllOK
<1>6. clientRoster' \in SUBSET Gamer /\ dropped' \in SUBSET Gamer
  BY DEF Flush, GameInv, GameTypeOK
<1>7. GarbageIDs' \in Seq(Gamer) /\ GarbageClosed'
  BY <1>3 DEF Flush, GameInv, GameTypeOK, Removals, GarbageClosed
<1>8. at' \in {"act", "flush"} /\ undefined' \in BOOLEAN
  BY DEF Flush
<1>9. visit' \in SUBSET Gamer /\ VisitClosed'
  BY <1>1, <1>2, <1>3 DEF GameInv, GameTypeOK, Removals, VisitClosed
<1>10. GameTypeOK'
  BY <1>2, <1>3, <1>5, <1>6, <1>7, <1>8, <1>9 DEF GameInv, GameTypeOK
<1>11. Met'
  BY <1>2, <1>3, <1>8 DEF GameInv, Met, ListedMet, RequestsMet, CurrentMet
<1>12. OwnId'
  BY <1>3 DEF GameInv, OwnId
<1> QED BY <1>5, <1>7, <1>9, <1>10, <1>11, <1>12 DEF GameInv, Removals

\* A registered client that is being told of: its id is its own, and those
\* that are told of as departed are closed.
LEMMA RegisterInv ==
  ASSUME GameInv, Register
  PROVE  GameInv'
<1> DEFINE c == current.from
           add == [id |-> "Game_AddPlayer", player |-> c]
           assign == [id |-> "Client_AssignID", player |-> c]
           gone == {d \in ToSet(listed) : ~Wired(d)}
           players == gone \cap (clientRoster \cup {c})
<1>1. /\ sent' = [d \in Gamer |-> IF d \notin ToSet(listed) \ gone THEN sent[d]
                                  ELSE Append(sent[d], IF d = c THEN assign ELSE add)]
      /\ clientRoster' = (clientRoster \cup {c}) \ gone
      /\ GarbageIDs' = GarbageIDs \o SetToSeq(players)
      /\ visit' = clientRoster'
      /\ at' \in {"check", "roster"}
      /\ at = "act"
  BY DEF Register
<1>2. Kept /\ UNCHANGED <<listed, requests, wire, current, gamer, late, undefined, dropped>>
  BY DEF Register, Kept, GameInv, GameTypeOK
<1>3. c \in Gamer
  BY <1>1 DEF GameInv, GameTypeOK, Request
<1>4. \A d \in gone : d \in Gamer /\ wire[d] = "closed"
  <2>1. gone = Unwired(NoId)
    <3>1. ASSUME NEW d \in ToSet(listed) PROVE d # NoId
      <4>1. PICK i \in 1 .. Len(listed) : d = listed[i]
        BY ToSetElements DEF GameInv, GameTypeOK
      <4>2. listed \in Seq(Gamer)
        BY DEF GameInv, GameTypeOK
      <4>3. d \in Gamer
        BY <4>1, <4>2
      <4> QED BY <4>3, GameAssumption DEF Gamer, NoId
    <3> QED BY <3>1 DEF Unwired
  <2> QED BY <2>1, UnwiredClosed
<1>5. assign \in Note /\ add \in Note
  BY <1>3 DEF Note
<1>6. \A d \in Gamer : NoteFor(d, add, wire') /\ (d = c => NoteFor(d, assign, wire'))
  BY DEF NoteFor
<1> HIDE DEF c, add, assign, gone
<1>7. sent' \in [Gamer -> Seq(Note)]
  <2>1. \A d \in Gamer : /\ sent[d] \in Seq(Note)
                         /\ Append(sent[d], assign) \in Seq(Note)
                         /\ Append(sent[d], add) \in Seq(Note)
    BY <1>5 DEF GameInv, GameTypeOK
  <2> QED BY <1>1, <2>1
<1>8. NotesRight'
  <2>1. \A d \in Gamer : \/ sent'[d] = sent[d]
                         \/ d = c /\ sent'[d] = Append(sent[d], assign)
                         \/ sent'[d] = Append(sent[d], add)
    BY <1>1
  <2> QED BY <1>2, <1>5, <1>6, <1>7, <2>1, Told DEF GameInv, GameTypeOK
<1>9. clientRoster' \in SUBSET Gamer
  BY <1>1, <1>3 DEF GameInv, GameTypeOK
<1>10. GarbageIDs' \in Seq(Gamer) /\ GarbageClosed'
  <2>1. players \in SUBSET Gamer /\ \A d \in players : wire[d] = "closed"
    BY <1>4
  <2> HIDE DEF players
  <2> QED BY <1>1, <1>2, <2>1, GarbageGrows
<1>11. GameTypeOK'
  BY <1>1, <1>2, <1>7, <1>9, <1>10 DEF GameInv, GameTypeOK
<1>12. Met'
  BY <1>1, <1>2 DEF GameInv, Met, ListedMet, RequestsMet, CurrentMet
<1>13. VisitClosed'
  BY <1>1 DEF VisitClosed
<1>14. OwnId'
  BY <1>2 DEF GameInv, OwnId
<1> QED BY <1>8, <1>10, <1>11, <1>12, <1>13, <1>14 DEF GameInv, Removals

LEMMA SendRosterInv ==
  ASSUME GameInv, SendRoster
  PROVE  GameInv'
<1> DEFINE c == current.from
           note(id) == [id |-> "Game_AddPlayer", player |-> id]
<1>1. at = "roster" /\ at' \in {"check", "roster"}
  BY DEF SendRoster
<1>2. PICK id \in visit :
        /\ TellOne(c, note(id))
        /\ IF Wired(c)
             THEN /\ visit' = visit \ {id}
                  /\ UNCHANGED <<clientRoster, GarbageIDs, undefined, dropped>>
             ELSE /\ visit' = visit \ {id, c}
                  /\ Departures({c})
                  /\ undefined' = (id = c /\ id \in clientRoster)
  BY DEF SendRoster
<1>3. Kept /\ UNCHANGED <<listed, requests, wire, current, gamer, late>>
  BY DEF SendRoster, Kept, GameInv, GameTypeOK
<1>4. id \in Gamer /\ c \in Gamer /\ wire[c] # "none"
  BY <1>1 DEF GameInv, GameTypeOK, Request, Met, CurrentMet
<1>5. note(id) \in Note /\ NoteFor(c, note(id), wire')
  BY <1>4 DEF Note, NoteFor
<1> HIDE DEF c, note
<1>6. sent' \in [Gamer -> Seq(Note)] /\ NotesRight'
  BY <1>2, <1>3, <1>4, <1>5, TellOneOK
<1>7. /\ clientRoster' \in SUBSET Gamer /\ dropped' \in SUBSET Gamer
      /\ GarbageIDs' \in Seq(Gamer) /\ GarbageClosed'
  <2>1. CASE Wired(c)
    BY <1>2, <1>3, <2>1 DEF GameInv, GameTypeOK, Removals, GarbageClosed
  <2>2. CASE ~Wired(c)
    <3>1. {c} \in SUBSET Gamer /\ \A d \in {c} : wire[d] = "closed"
      BY <1>4, <2>2 DEF Wired, GameInv, GameTypeOK
    <3> QED BY <1>2, <1>3, <2>2, <3>1, DeparturesOK
  <2> QED BY <2>1, <2>2
<1>8. visit' \in SUBSET Gamer /\ undefined' \in BOOLEAN
  BY <1>2 DEF GameInv, GameTypeOK
<1>9. GameTypeOK'
  BY <1>1, <1>3, <1>6, <1>7, <1>8 DEF GameInv, GameTypeOK
<1>10. Met'
  BY <1>1, <1>3 DEF GameInv, Met, ListedMet, RequestsMet, CurrentMet
<1>11. VisitClosed'
  BY <1>1 DEF VisitClosed
<1>12. OwnId'
  BY <1>3 DEF GameInv, OwnId
<1> QED BY <1>6, <1>7, <1>9, <1>10, <1>11, <1>12 DEF GameInv, Removals

LEMMA RelayInv ==
  ASSUME GameInv, Relay
  PROVE  GameInv'
<1> DEFINE note == [id |-> current.id, player |-> current.player]
<1>1. /\ at = "act" /\ at' = "idle"
      /\ current.id \in {"Game_UpdatePlayer", "Game_UpdatePlayerLook"}
      /\ TellAll(note, current.from)
      /\ Departures(Unwired(NoId))
  BY DEF Relay
<1>2. Kept /\ UNCHANGED <<listed, requests, wire, visit, gamer, late, undefined>>
  BY DEF Relay, Kept, GameInv, GameTypeOK
<1>3. note \in Note /\ \A c \in Gamer : NoteFor(c, note, wire')
  <2>1. current \in Request
    BY <1>1 DEF GameInv, GameTypeOK
  <2>2. current.player \in Gamer
    BY <1>1, <2>1 DEF Request
  <2> QED BY <1>1, <2>2 DEF Note, NoteFor
<1> HIDE DEF note
<1>4. sent' \in [Gamer -> Seq(Note)] /\ NotesRight'
  BY <1>1, <1>2, <1>3, TellAllOK
<1>5. /\ clientRoster' \in SUBSET Gamer /\ dropped' \in SUBSET Gamer
      /\ GarbageIDs' \in Seq(Gamer) /\ GarbageClosed'
  <2>1. Unwired(NoId) \in SUBSET Gamer /\ \A c \in Unwired(NoId) : wire[c] = "closed"
    BY UnwiredClosed
  <2> QED BY <1>1, <1>2, <2>1, DeparturesOK
<1>6. GameTypeOK'
  BY <1>1, <1>2, <1>4, <1>5 DEF GameInv, GameTypeOK
<1>7. Met' /\ VisitClosed' /\ OwnId'
  BY <1>1, <1>2 DEF GameInv, Met, ListedMet, RequestsMet, CurrentMet, VisitClosed, OwnId
<1> QED BY <1>4, <1>5, <1>6, <1>7 DEF GameInv, Removals

LEMMA CheckSenderInv ==
  ASSUME GameInv, CheckSender
  PROVE  GameInv'
<1> DEFINE gone == IF Wired(current.from) THEN {} ELSE {current.from}
<1>1. at = "check" /\ at' = "idle" /\ Departures(gone)
  BY DEF CheckSender
<1>2. UNCHANGED <<listed, requests, wire, sent, visit, gamer, late, undefined>>
  BY DEF CheckSender
<1>3. gone \in SUBSET Gamer /\ \A c \in gone : wire[c] = "closed"
  <2>1. current.from \in Gamer /\ wire[current.from] # "none"
    BY <1>1 DEF GameInv, GameTypeOK, Request, Met, CurrentMet
  <2> QED BY <2>1 DEF Wired, GameInv, GameTypeOK
<1> HIDE DEF gone
<1>4. /\ clientRoster' \in SUBSET Gamer /\ dropped' \in SUBSET Gamer
      /\ GarbageIDs' \in Seq(Gamer) /\ GarbageClosed'
  BY <1>1, <1>2, <1>3, DeparturesOK
<1>5. GameTypeOK'
  BY <1>1, <1>2, <1>4 DEF GameInv, GameTypeOK
<1>6. Met' /\ VisitClosed' /\ NotesRight' /\ OwnId'
  BY <1>1, <1>2 DEF GameInv, Met, ListedMet, RequestsMet, CurrentMet, VisitClosed,
     NotesRight, OwnId
<1> QED BY <1>4, <1>5, <1>6 DEF GameInv, Removals

\* The clients.
LEMMA RequestsGrow ==
  ASSUME GameInv, UNCHANGED wire, NEW r \in Request, wire[r.from] # "none",
         requests' = Append(requests, r)
  PROVE  requests' \in Seq(Request) /\ RequestsMet'
<1>1. requests \in Seq(Request) /\ RequestsMet
  BY DEF GameInv, GameTypeOK, Met
<1>2. /\ requests' \in Seq(Request)
      /\ \A i \in 1 .. Len(requests') :
           requests'[i] = r \/ (i \in 1 .. Len(requests) /\ requests'[i] = requests[i])
  BY <1>1
<1> QED BY <1>1, <1>2 DEF RequestsMet

LEMMA TakeMessageInv ==
  ASSUME GameInv, NEW c \in Gamer, TakeMessage(c)
  PROVE  GameInv'
<1> DEFINE msg == Head(sent[c])
           register == [id |-> "Client_RegisterWithServer", from |-> c]
<1>1. /\ Wired(c) /\ sent[c] # <<>> /\ sent' = [sent EXCEPT ![c] = Tail(@)]
      /\ gamer' = [gamer EXCEPT ![c] = Reaction(@, msg)]
      /\ requests' = Append(requests, register) \/ requests' = requests
      /\ UNCHANGED <<game, listed, wire>>
  BY DEF TakeMessage
<1>2. sent \in [Gamer -> Seq(Note)] /\ sent[c] \in Seq(Note) /\ Tail(sent[c]) \in Seq(Note)
  BY <1>1 DEF GameInv, GameTypeOK
<1>3. msg \in Note /\ NoteFor(c, msg, wire)
  BY <1>1, <1>2 DEF GameInv, NotesRight
<1>4. register \in Request /\ register.from = c /\ wire[c] # "none" /\ wire[c] # "closed"
  BY <1>1 DEF Request, Wired
<1> HIDE DEF msg, register
<1>5. sent' \in [Gamer -> Seq(Note)]
  BY <1>1, <1>2
<1>6. NotesRight'
  <2>1. ASSUME NEW d \in Gamer, NEW i \in 1 .. Len(sent'[d])
        PROVE  \E j \in 1 .. Len(sent[d]) : sent'[d][i] = sent[d][j]
    <3>1. CASE d = c
      <4>1. i + 1 \in 1 .. Len(sent[c]) /\ sent'[c][i] = sent[c][i + 1]
        BY <1>1, <1>2, <3>1
      <4> QED BY <3>1, <4>1
    <3>2. CASE d # c
      BY <1>1, <1>2, <3>2
    <3> QED BY <3>1, <3>2
  <2>2. ASSUME NEW d \in Gamer, NEW i \in 1 .. Len(sent'[d])
        PROVE  NoteFor(d, sent'[d][i], wire)
    <3>1. PICK j \in 1 .. Len(sent[d]) : sent'[d][i] = sent[d][j]
      BY <2>1
    <3> QED BY <3>1 DEF GameInv, NotesRight
  <2> QED BY <1>1, <2>2 DEF NotesRight
<1>7. Reaction(gamer[c], msg) \in Members /\ Own(c, Reaction(gamer[c], msg))
  <2>1. gamer[c] \in Members /\ Own(c, gamer[c])
    BY DEF GameInv, GameTypeOK, OwnId
  <2>2. msg.id = "Client_AssignID" => msg.player = c
    BY <1>3 DEF NoteFor
  <2>3. msg.id = "Game_RemovePlayer" => msg.player # c
    BY <1>3, <1>4 DEF NoteFor
  <2> QED BY <1>3, <2>1, <2>2, <2>3, ReactionOK
<1>8. gamer' \in [Gamer -> Members] /\ OwnId'
  BY <1>1, <1>7 DEF GameInv, GameTypeOK, OwnId
<1>9. requests' \in Seq(Request) /\ RequestsMet'
  <2>1. CASE requests' = requests
    BY <1>1, <2>1 DEF GameInv, GameTypeOK, Met, RequestsMet
  <2>2. CASE requests' = Append(requests, register)
    BY <1>1, <1>4, <2>2, RequestsGrow
  <2> QED BY <1>1, <2>1, <2>2
<1>10. GameTypeOK'
  BY <1>1, <1>5, <1>8, <1>9 DEF GameInv, GameTypeOK, game
<1>11. Met' /\ Removals'
  BY <1>1, <1>9 DEF GameInv, Met, ListedMet, CurrentMet, Removals, GarbageClosed,
     VisitClosed, game
<1> QED BY <1>6, <1>8, <1>10, <1>11 DEF GameInv

LEMMA ActInv ==
  ASSUME GameInv, NEW c \in Gamer,
         NEW id \in {"Game_UpdatePlayer", "Game_UpdatePlayerLook"}, Act(c, id)
  PROVE  GameInv'
<1> DEFINE g == gamer[c]
           r == [id |-> id, from |-> c, player |-> g.thisPlayerID]
           moved == [Touch(g, g.thisPlayerID) EXCEPT !.frames = @ + 1]
<1>1. /\ Wired(c) /\ ~g.bWaitingForConnection
      /\ gamer' = [gamer EXCEPT ![c] = moved]
      /\ requests' = Append(requests, r)
      /\ UNCHANGED <<game, listed, wire, sent>>
  BY DEF Act
<1>2. g \in Members /\ Own(c, g)
  BY DEF GameInv, GameTypeOK, OwnId
<1>3. g.thisPlayerID = c
  BY <1>1, <1>2 DEF Own
<1>4. r \in Request /\ r.from = c /\ wire[c] # "none"
  BY <1>1, <1>3 DEF Request, Wired
<1>5. moved \in Members /\ Own(c, moved)
  <2>1. Touch(g, c) \in Members /\ Own(c, Touch(g, c))
    BY <1>2 DEF Touch, Members, Own
  <2> HIDE DEF g
  <2>2. moved \in Members
    BY <1>3, <2>1 DEF Members
  <2>3. Own(c, moved)
    BY <1>3, <2>1 DEF Members, Own
  <2> QED BY <2>2, <2>3
<1> HIDE DEF g, r, moved
<1>6. gamer' \in [Gamer -> Members] /\ OwnId'
  BY <1>1, <1>5 DEF GameInv, GameTypeOK, OwnId
<1>7. requests' \in Seq(Request) /\ RequestsMet'
  BY <1>1, <1>4, RequestsGrow
<1>8. GameTypeOK'
  BY <1>1, <1>6, <1>7 DEF GameInv, GameTypeOK, game
<1>9. Met' /\ Removals' /\ NotesRight'
  BY <1>1, <1>7 DEF GameInv, Met, ListedMet, CurrentMet, Removals, GarbageClosed,
     VisitClosed, NotesRight, game
<1> QED BY <1>6, <1>8, <1>9 DEF GameInv

-----------------------------------------------------------------------------
LEMMA GameInitInv == GameInit => GameInv
<1> SUFFICES ASSUME GameInit PROVE GameInv
  OBVIOUS
<1>1. NewGame \in Members /\ \A c \in Gamer : Own(c, NewGame)
  BY DEF NewGame, Members, Own
<1>2. gamer \in [Gamer -> Members] /\ OwnId
  BY <1>1 DEF GameInit, OwnId
<1>3. sent \in [Gamer -> Seq(Note)] /\ NotesRight
  BY DEF GameInit, NotesRight
<1>4. /\ clientRoster \in SUBSET Gamer /\ visit \in SUBSET Gamer /\ dropped \in SUBSET Gamer
      /\ GarbageIDs \in Seq(Gamer) /\ listed \in Seq(Gamer) /\ requests \in Seq(Request)
  BY DEF GameInit
<1>5. wire \in [Gamer -> {"none", "pending", "open", "failed", "closed"}]
  BY DEF GameInit
<1>6. at = "idle" /\ late = FALSE /\ undefined = FALSE
  BY DEF GameInit
<1>7. GameTypeOK
  BY <1>2, <1>3, <1>4, <1>5, <1>6 DEF GameTypeOK
<1>8. Met /\ Removals
  BY DEF GameInit, Met, ListedMet, RequestsMet, CurrentMet, Removals, GarbageClosed, VisitClosed
<1> QED BY <1>2, <1>3, <1>7, <1>8 DEF GameInv

LEMMA GameNextInv == GameInv /\ [GameNext]_gameVars => GameInv'
<1> SUFFICES ASSUME GameInv, [GameNext]_gameVars PROVE GameInv'
  OBVIOUS
<1>1. CASE ServerMain
  BY <1>1, TakeRequestInv, FlushInv, RegisterInv, SendRosterInv, RelayInv, CheckSenderInv
     DEF ServerMain
<1>2. ASSUME NEW c \in Gamer,
             \/ AcceptGamer(c) \/ ValidateGamer(c) \/ FailGamer(c) \/ Vanish(c)
             \/ TakeMessage(c) \/ Frame(c) \/ Save(c)
      PROVE  GameInv'
  BY <1>2, AcceptInv, ValidateInv, FailInv, VanishInv, TakeMessageInv, ActInv DEF Frame, Save
<1>3. CASE Unmoved
  BY <1>3 DEF Unmoved, GameInv, GameTypeOK, Met, ListedMet, RequestsMet, CurrentMet,
     Removals, GarbageClosed, VisitClosed, NotesRight, OwnId
<1> QED BY <1>1, <1>2, <1>3, UnmovedSteps DEF GameNext

LEMMA GameInvariant == GameSpec => []GameInv
<1> QED BY GameInitInv, GameNextInv, PTL DEF GameSpec

\* Type correctness of the game, for any number of clients.
THEOREM GameTypeCorrect == GameSpec => []GameTypeOK
<1>1. GameInv => GameTypeOK
  BY DEF GameInv
<1> QED BY <1>1, GameInvariant, PTL

\* Whoever comes, leaves or is kicked in whatever order, a player that is
\* playing finds itself in its table: Game::Update() may use players[id].
THEOREM PlayerKeeps == GameSpec => []PlayerKnowsItself
<1>1. GameInv => PlayerKnowsItself
  BY DEF GameInv, OwnId, Own, PlayerKnowsItself
<1> QED BY <1>1, GameInvariant, PTL

-----------------------------------------------------------------------------
(***************************************************************************)
(* The roster and the tables of the clients.  A client knows in the end    *)
(* those that it knows after all messages under way to it; messages of a   *)
(* stream are taken in order, so the last one that tells of a player       *)
(* counts.                                                                 *)
(***************************************************************************)
Tells(what, d) == [id |-> what, player |-> d]
Mentions(q, what, d) == \E i \in DOMAIN q : q[i] = Tells(what, d)

\* Whether d is known by one who knows k when all of q has been taken.
Remains(q, k, d) ==
  \/ d \in k /\ ~Mentions(q, "Game_RemovePlayer", d)
  \/ \E i \in DOMAIN q :
       /\ q[i] = Tells("Game_AddPlayer", d)
       /\ \A j \in DOMAIN q : j > i => q[j] # Tells("Game_RemovePlayer", d)

LEMMA StreamAppend ==
  ASSUME NEW S, NEW q \in Seq(S), NEW m \in S
  PROVE  /\ Append(q, m) \in Seq(S) /\ Len(q) \in Nat
         /\ DOMAIN q = 1 .. Len(q) /\ DOMAIN Append(q, m) = 1 .. Len(q) + 1
         /\ \A i \in DOMAIN q : Append(q, m)[i] = q[i]
         /\ Append(q, m)[Len(q) + 1] = m
<1>1. /\ Append(q, m) \in Seq(S) /\ Len(Append(q, m)) = Len(q) + 1 /\ Len(q) \in Nat
      /\ \A i \in 1 .. Len(q) : Append(q, m)[i] = q[i]
      /\ Append(q, m)[Len(q) + 1] = m
  OBVIOUS
<1>2. DOMAIN q = 1 .. Len(q) /\ DOMAIN Append(q, m) = 1 .. Len(Append(q, m))
  BY <1>1
<1> QED BY <1>1, <1>2

LEMMA StreamTail ==
  ASSUME NEW S, NEW q \in Seq(S), q # <<>>
  PROVE  /\ Tail(q) \in Seq(S) /\ Head(q) \in S /\ Head(q) = q[1]
         /\ DOMAIN q = 1 .. Len(q) /\ Len(q) \in Nat \ {0}
         /\ DOMAIN Tail(q) = 1 .. Len(q) - 1
         /\ \A i \in 1 .. Len(q) - 1 : Tail(q)[i] = q[i + 1]
BY HeadTailProperties, EmptySeq

LEMMA MentionsAppend ==
  ASSUME NEW S, NEW q \in Seq(S), NEW m \in S, NEW what, NEW d
  PROVE  Mentions(Append(q, m), what, d) <=> Mentions(q, what, d) \/ m = Tells(what, d)
<1>1. Len(q) + 1 \in DOMAIN Append(q, m) /\ DOMAIN q \subseteq DOMAIN Append(q, m)
  BY StreamAppend
<1>2. \A i \in DOMAIN Append(q, m) : i \in DOMAIN q \/ i = Len(q) + 1
  BY StreamAppend
<1> QED BY <1>1, <1>2, StreamAppend DEF Mentions

LEMMA MentionsTail ==
  ASSUME NEW S, NEW q \in Seq(S), q # <<>>, NEW what, NEW d
  PROVE  Mentions(q, what, d) <=> Mentions(Tail(q), what, d) \/ Head(q) = Tells(what, d)
<1>1. ASSUME NEW i \in DOMAIN q, q[i] = Tells(what, d), Head(q) # Tells(what, d)
      PROVE  Mentions(Tail(q), what, d)
  <2>1. i - 1 \in DOMAIN Tail(q) /\ Tail(q)[i - 1] = q[i]
    BY <1>1, StreamTail
  <2> QED BY <1>1, <2>1 DEF Mentions
<1>2. ASSUME NEW i \in DOMAIN Tail(q), Tail(q)[i] = Tells(what, d)
      PROVE  Mentions(q, what, d)
  <2>1. i + 1 \in DOMAIN q /\ Tail(q)[i] = q[i + 1]
    BY StreamTail
  <2> QED BY <1>2, <2>1 DEF Mentions
<1>3. Head(q) = Tells(what, d) => Mentions(q, what, d)
  BY StreamTail DEF Mentions
<1> QED BY <1>1, <1>2, <1>3 DEF Mentions

\* One more message: only an addition makes a player remain, a removal ends it.
LEMMA RemainsAppend ==
  ASSUME NEW S, NEW q \in Seq(S), NEW m \in S, NEW k, NEW d,
         Remains(Append(q, m), k, d)
  PROVE  /\ m # Tells("Game_RemovePlayer", d)
         /\ m = Tells("Game_AddPlayer", d) \/ Remains(q, k, d)
<1> DEFINE p == Append(q, m)
           n == Len(q) + 1
<1>1. /\ n \in DOMAIN p /\ p[n] = m /\ DOMAIN q \subseteq DOMAIN p
      /\ \A i \in DOMAIN q : p[i] = q[i] /\ n > i
      /\ \A i \in DOMAIN p : i \in DOMAIN q \/ i = n
  BY StreamAppend
<1>2. Tells("Game_AddPlayer", d) # Tells("Game_RemovePlayer", d)
  BY DEF Tells
<1> HIDE DEF p, n
<1>3. CASE d \in k /\ ~Mentions(p, "Game_RemovePlayer", d)
  BY <1>1, <1>3 DEF Mentions, Remains
<1>4. ASSUME NEW i \in DOMAIN p, p[i] = Tells("Game_AddPlayer", d),
             \A j \in DOMAIN p : j > i => p[j] # Tells("Game_RemovePlayer", d)
      PROVE  /\ m # Tells("Game_RemovePlayer", d)
             /\ m = Tells("Game_AddPlayer", d) \/ Remains(q, k, d)
  <2>1. CASE i = n
    BY <1>1, <1>2, <1>4, <2>1
  <2>2. CASE i \in DOMAIN q
    BY <1>1, <1>4, <2>2 DEF Remains
  <2> QED BY <1>1, <2>1, <2>2
<1> QED BY <1>3, <1>4 DEF Remains, p

\* One message is taken.
LEMMA RemainsTail ==
  ASSUME NEW S, NEW q \in Seq(S), q # <<>>, NEW k, NEW l, NEW d,
         d \in l => \/ Head(q) = Tells("Game_AddPlayer", d)
                    \/ d \in k /\ Head(q) # Tells("Game_RemovePlayer", d),
         Remains(Tail(q), l, d)
  PROVE  Remains(q, k, d)
<1>1. CASE d \in l /\ ~Mentions(Tail(q), "Game_RemovePlayer", d)
  <2>1. CASE Head(q) = Tells("Game_AddPlayer", d)
    <3>1. 1 \in DOMAIN q /\ q[1] = Tells("Game_AddPlayer", d)
      BY <2>1, StreamTail
    <3>2. ASSUME NEW j \in DOMAIN q, j > 1 PROVE q[j] # Tells("Game_RemovePlayer", d)
      <4>1. j - 1 \in DOMAIN Tail(q) /\ Tail(q)[j - 1] = q[j]
        BY <3>2, StreamTail
      <4> QED BY <1>1, <4>1 DEF Mentions
    <3> QED BY <3>1, <3>2 DEF Remains
  <2>2. CASE Head(q) # Tells("Game_AddPlayer", d)
    BY <1>1, <2>2, MentionsTail DEF Remains
  <2> QED BY <2>1, <2>2
<1>2. ASSUME NEW i \in DOMAIN Tail(q), Tail(q)[i] = Tells("Game_AddPlayer", d),
             \A j \in DOMAIN Tail(q) : j > i => Tail(q)[j] # Tells("Game_RemovePlayer", d)
      PROVE  Remains(q, k, d)
  <2>1. i + 1 \in DOMAIN q /\ q[i + 1] = Tells("Game_AddPlayer", d)
    BY <1>2, StreamTail
  <2>2. ASSUME NEW j \in DOMAIN q, j > i + 1 PROVE q[j] # Tells("Game_RemovePlayer", d)
    <3>1. j - 1 \in DOMAIN Tail(q) /\ Tail(q)[j - 1] = q[j] /\ j - 1 > i
      BY <2>2, StreamTail
    <3> QED BY <1>2, <3>1
  <2> QED BY <2>1, <2>2 DEF Remains
<1> QED BY <1>1, <1>2 DEF Remains

LEMMA KnownAfter ==
  ASSUME NEW g \in Members, NEW msg \in Note
  PROVE  \A d : d \in Reaction(g, msg).known <=>
                  \/ msg = Tells("Game_AddPlayer", d)
                  \/ d \in g.known /\ msg # Tells("Game_RemovePlayer", d)
<1>1. CASE msg.id = "Client_Accepted"
  BY <1>1 DEF Reaction, Tells
<1>2. CASE msg.id # "Client_Accepted"
  <2>1. /\ msg.player \in Gamer
        /\ msg = [id |-> msg.id, player |-> msg.player]
    BY <1>2 DEF Note
  <2>2. \A what, d : msg = Tells(what, d) <=> msg.id = what /\ msg.player = d
    BY <2>1 DEF Tells
  <2>3. CASE msg.id = "Game_AddPlayer"
    <3>1. Reaction(g, msg).known = g.known \cup {msg.player}
      BY <2>3 DEF Reaction, Added, Members
    <3> QED BY <2>2, <2>3, <3>1
  <2>4. CASE msg.id = "Game_RemovePlayer"
    <3>1. Reaction(g, msg).known = g.known \ {msg.player}
      BY <2>4 DEF Reaction, Removed, Members
    <3> QED BY <2>2, <2>4, <3>1
  <2>5. CASE msg.id = "Client_AssignID"
    <3>1. Reaction(g, msg).known = g.known
      BY <2>5 DEF Reaction, Members
    <3> QED BY <2>2, <2>5, <3>1
  <2>6. CASE msg.id \in {"Game_UpdatePlayer", "Game_UpdatePlayerLook"}
    <3>1. Reaction(g, msg).known = g.known
      BY <2>6 DEF Reaction, Touch, Members
    <3> QED BY <2>2, <2>6, <3>1
  <2> QED BY <1>2, <2>3, <2>4, <2>5, <2>6 DEF Note
<1> QED BY <1>1, <1>2

-----------------------------------------------------------------------------
Knows(c, d) == d \in gamer[c].known \/ Coming(c, "Game_AddPlayer", d)

\* Whoever was accepted is listed, and who was not knows nobody.
AllListed == \A c \in Gamer : wire[c] # "none" => c \in ToSet(listed)
Blank == \A c \in Gamer : wire[c] = "none" => sent[c] = <<>> /\ gamer[c].known = {}
RosterMet == \A c \in clientRoster : wire[c] # "none"
VisitInRoster == at = "roster" => visit \subseteq clientRoster
Roll == AllListed /\ Blank /\ RosterMet /\ VisitInRoster

\* Nobody is told, or about to be told, to remove a player of the roster.
RosterStays ==
  \A d \in clientRoster :
    /\ d \notin ToSet(GarbageIDs)
    /\ at = "flush" => d \notin visit
    /\ \A c \in Gamer : ~Coming(c, "Game_RemovePlayer", d)

\* Connected players of the roster know each other in the end; the one that
\* is registering, but for those the loop over the roster has not reached.
RosterKnown ==
  \A c, d \in clientRoster :
    Wired(c) => Knows(c, d) \/ (at = "roster" /\ c = current.from /\ d \in visit)

\* A player that has left and remains with somebody still waits in GarbageIDs,
\* and during a flush its turn is to come.
LeftRemembered ==
  \A c \in Gamer : \A d \in Gamer \ (clientRoster \cup dropped) :
    Wired(c) /\ Remains(sent[c], gamer[c].known, d) =>
      d \in ToSet(GarbageIDs) /\ (at = "flush" => d \in visit)

RosterInv == GameInv /\ Roll /\ RosterStays /\ RosterKnown /\ LeftRemembered

LEMMA RosterInitInv == GameInit => RosterInv
<1> SUFFICES ASSUME GameInit PROVE RosterInv
  OBVIOUS
<1>1. Roll
  BY DEF GameInit, NewGame, Roll, AllListed, Blank, RosterMet, VisitInRoster
<1>2. RosterStays /\ RosterKnown /\ LeftRemembered
  BY DEF GameInit, RosterStays, RosterKnown, LeftRemembered, Wired
<1> QED BY <1>1, <1>2, GameInitInv DEF RosterInv

\* Steps of the io thread and of the clients leave the roster alone.
LEMMA QuietStep ==
  ASSUME RosterInv, UNCHANGED game, Kept,
         \A c \in Gamer : \A d : Coming(c, "Game_RemovePlayer", d)' => Coming(c, "Game_RemovePlayer", d),
         \A c \in Gamer : Wired(c)' /\ wire[c] # "none" =>
           \A d : /\ Knows(c, d) => Knows(c, d)' \/ Coming(c, "Game_RemovePlayer", d)
                  /\ Remains(sent'[c], gamer'[c].known, d) => Remains(sent[c], gamer[c].known, d),
         \A c \in Gamer : wire[c] = "none" => \A d : ~Remains(sent'[c], gamer'[c].known, d)
  PROVE  RosterStays' /\ RosterKnown' /\ LeftRemembered'
<1> USE DEF game
<1>0. clientRoster \subseteq Gamer
  BY DEF RosterInv, GameInv, GameTypeOK
<1>1. RosterStays'
  BY DEF RosterInv, RosterStays
<1>2. ASSUME NEW c \in Gamer, Wired(c)', wire[c] # "none" PROVE Wired(c)
  BY <1>2 DEF Wired, Kept
<1>3. RosterKnown'
  <2> SUFFICES ASSUME NEW c \in clientRoster, NEW d \in clientRoster, Wired(c)'
               PROVE  Knows(c, d)' \/ (at = "roster" /\ c = current.from /\ d \in visit)
    BY DEF RosterKnown
  <2>1. wire[c] # "none" /\ c \in Gamer
    BY <1>0 DEF RosterInv, Roll, RosterMet
  <2>2. Knows(c, d) \/ (at = "roster" /\ c = current.from /\ d \in visit)
    BY <1>2, <2>1 DEF RosterInv, RosterKnown
  <2>3. ~Coming(c, "Game_RemovePlayer", d)
    BY <2>1 DEF RosterInv, RosterStays
  <2> QED BY <2>1, <2>2, <2>3
<1>4. LeftRemembered'
  <2> SUFFICES ASSUME NEW c \in Gamer, NEW d \in Gamer \ (clientRoster \cup dropped), Wired(c)',
                      Remains(sent'[c], gamer'[c].known, d)
               PROVE  d \in ToSet(GarbageIDs) /\ (at = "flush" => d \in visit)
    BY DEF LeftRemembered
  <2>1. wire[c] # "none"
    OBVIOUS
  <2>2. Wired(c) /\ Remains(sent[c], gamer[c].known, d)
    BY <1>2, <2>1
  <2> QED BY <2>2 DEF RosterInv, LeftRemembered
<1> QED BY <1>1, <1>3, <1>4

LEMMA AcceptRoster ==
  ASSUME RosterInv, NEW c \in Gamer, AcceptGamer(c)
  PROVE  RosterInv'
<1>1. /\ wire' = [wire EXCEPT ![c] = "pending"] /\ wire[c] = "none"
      /\ listed' = Append(listed, c) /\ listed \in Seq(Gamer)
      /\ UNCHANGED <<game, sent, gamer>> /\ Kept /\ GameInv'
  BY AcceptInv DEF AcceptGamer, Arrives, Kept, RosterInv, GameInv, GameTypeOK
<1>2. AllListed'
  <2>1. c \in ToSet(listed') /\ ToSet(listed) \subseteq ToSet(listed')
    BY <1>1, StreamAppend DEF ToSet
  <2> QED BY <1>1, <2>1 DEF RosterInv, Roll, AllListed, Kept
<1>3. Blank' /\ RosterMet' /\ VisitInRoster'
  BY <1>1 DEF RosterInv, GameInv, GameTypeOK, Roll, Blank, RosterMet, VisitInRoster, Kept, game
<1>4. ASSUME NEW e \in Gamer, wire[e] = "none", NEW d PROVE ~Remains(sent'[e], gamer'[e].known, d)
  BY <1>1, <1>4 DEF RosterInv, Roll, Blank, Remains
<1>5. RosterStays' /\ RosterKnown' /\ LeftRemembered'
  BY <1>1, <1>4, QuietStep DEF Coming, Knows
<1> QED BY <1>1, <1>2, <1>3, <1>5 DEF RosterInv, Roll

LEMMA ValidateRoster ==
  ASSUME RosterInv, NEW c \in Gamer, ValidateGamer(c)
  PROVE  RosterInv'
<1> DEFINE m == [id |-> "Client_Accepted"]
<1>1. /\ wire' = [wire EXCEPT ![c] = "open"] /\ wire[c] = "pending"
      /\ UNCHANGED <<game, listed, gamer>> /\ Kept /\ GameInv'
  BY ValidateInv DEF ValidateGamer, Kept, RosterInv, GameInv, GameTypeOK
<1>2. /\ sent \in [Gamer -> Seq(Note)] /\ m \in Note
      /\ \A d \in Gamer : sent[d] \in Seq(Note)
      /\ \A d \in Gamer : sent'[d] = sent[d] \/ (d = c /\ sent'[d] = Append(sent[d], m))
  <2>1. sent \in [Gamer -> Seq(Note)] /\ m \in Note /\ TellOne(c, m)
    BY DEF ValidateGamer, RosterInv, GameInv, GameTypeOK, Note
  <2> HIDE DEF m
  <2> QED BY <2>1 DEF TellOne
<1>3. \A what, d : m # Tells(what, d)
  BY DEF Tells
<1> HIDE DEF m
<1>4. Roll'
  BY <1>1, <1>2 DEF RosterInv, GameInv, GameTypeOK, Roll, AllListed, Blank, RosterMet,
                    VisitInRoster, Kept, game
<1>5. ASSUME NEW e \in Gamer, NEW what, NEW d PROVE Coming(e, what, d)' <=> Coming(e, what, d)
  <2>1. Mentions(sent'[e], what, d) <=> Mentions(sent[e], what, d)
    <3>1. CASE sent'[e] = Append(sent[e], m)
      <4>1. sent[e] \in Seq(Note) /\ m \in Note /\ m # Tells(what, d)
        BY <1>2, <1>3
      <4> QED BY <3>1, <4>1, MentionsAppend
    <3> QED BY <1>2, <3>1
  <2> QED BY <2>1 DEF Mentions, Coming, Tells
<1>6. ASSUME NEW e \in Gamer, NEW d, Remains(sent'[e], gamer'[e].known, d)
      PROVE  Remains(sent[e], gamer[e].known, d)
  <2>1. gamer'[e] = gamer[e]
    BY <1>1
  <2>2. CASE sent'[e] = Append(sent[e], m)
    <3>1. sent[e] \in Seq(Note) /\ m \in Note /\ m # Tells("Game_AddPlayer", d)
      BY <1>2, <1>3
    <3> QED BY <1>6, <2>1, <2>2, <3>1, RemainsAppend
  <2> QED BY <1>2, <1>6, <2>1, <2>2
<1>7. ASSUME NEW e \in Gamer, wire[e] = "none", NEW d PROVE ~Remains(sent'[e], gamer'[e].known, d)
  BY <1>6, <1>7 DEF RosterInv, Roll, Blank, Remains
<1>8. RosterStays' /\ RosterKnown' /\ LeftRemembered'
  BY <1>1, <1>5, <1>6, <1>7, QuietStep DEF Knows
<1> QED BY <1>1, <1>4, <1>8 DEF RosterInv

LEMMA FailRoster ==
  ASSUME RosterInv, NEW c \in Gamer, FailGamer(c)
  PROVE  RosterInv'
<1>1. /\ wire' = [wire EXCEPT ![c] = "failed"] /\ wire[c] = "pending"
      /\ UNCHANGED <<game, listed, sent, gamer>> /\ Kept /\ GameInv'
  BY FailInv DEF FailGamer, Kept, RosterInv, GameInv, GameTypeOK
<1>2. Roll'
  BY <1>1 DEF RosterInv, GameInv, GameTypeOK, Roll, AllListed, Blank, RosterMet,
              VisitInRoster, Kept, game
<1>3. ASSUME NEW e \in Gamer, wire[e] = "none", NEW d PROVE ~Remains(sent'[e], gamer'[e].known, d)
  BY <1>1, <1>3 DEF RosterInv, Roll, Blank, Remains
<1>4. RosterStays' /\ RosterKnown' /\ LeftRemembered'
  BY <1>1, <1>3, QuietStep DEF Coming, Knows
<1> QED BY <1>1, <1>2, <1>4 DEF RosterInv

LEMMA VanishRoster ==
  ASSUME RosterInv, NEW c \in Gamer, Vanish(c)
  PROVE  RosterInv'
<1>1. /\ wire' = [wire EXCEPT ![c] = "closed"] /\ Wired(c)
      /\ sent' = [sent EXCEPT ![c] = <<>>] /\ gamer' = [gamer EXCEPT ![c] = NewGame]
      /\ sent \in [Gamer -> Seq(Note)] /\ gamer \in [Gamer -> Members]
      /\ UNCHANGED <<game, listed>> /\ Kept /\ GameInv'
  BY VanishInv DEF Vanish, Wired, Kept, RosterInv, GameInv, GameTypeOK
<1>2. Roll'
  BY <1>1 DEF RosterInv, GameInv, GameTypeOK, Roll, AllListed, Blank, RosterMet,
              VisitInRoster, Kept, game, Wired
<1>3. ASSUME NEW e \in Gamer, e # c
      PROVE  sent'[e] = sent[e] /\ gamer'[e] = gamer[e] /\ wire'[e] = wire[e]
  BY <1>1, <1>3 DEF RosterInv, GameInv, GameTypeOK
<1>4. ~Wired(c)' /\ wire[c] # "none" /\ sent'[c] = <<>>
  BY <1>1 DEF Wired, RosterInv, GameInv, GameTypeOK
<1>5. ASSUME NEW e \in Gamer, NEW d, Coming(e, "Game_RemovePlayer", d)'
      PROVE  Coming(e, "Game_RemovePlayer", d)
  BY <1>3, <1>4, <1>5 DEF Coming
<1>6. ASSUME NEW e \in Gamer, Wired(e)'
      PROVE  \A d : /\ Knows(e, d) => Knows(e, d)'
                    /\ Remains(sent'[e], gamer'[e].known, d) => Remains(sent[e], gamer[e].known, d)
  BY <1>3, <1>4, <1>6 DEF Knows, Coming
<1>7. ASSUME NEW e \in Gamer, wire[e] = "none", NEW d PROVE ~Remains(sent'[e], gamer'[e].known, d)
  BY <1>3, <1>4, <1>7 DEF RosterInv, Roll, Blank, Remains
<1>8. RosterStays' /\ RosterKnown' /\ LeftRemembered'
  BY <1>1, <1>5, <1>6, <1>7, QuietStep
<1> QED BY <1>1, <1>2, <1>8 DEF RosterInv

LEMMA TakeMessageRoster ==
  ASSUME RosterInv, NEW c \in Gamer, TakeMessage(c)
  PROVE  RosterInv'
<1> DEFINE q == sent[c]
           msg == Head(q)
           g == gamer[c]
<1>1. /\ Wired(c) /\ q # <<>> /\ sent' = [sent EXCEPT ![c] = Tail(q)]
      /\ gamer' = [gamer EXCEPT ![c] = Reaction(g, msg)]
      /\ sent \in [Gamer -> Seq(Note)] /\ gamer \in [Gamer -> Members]
      /\ UNCHANGED <<game, listed, wire>> /\ Kept /\ GameInv'
  BY TakeMessageInv DEF TakeMessage, Kept, RosterInv, GameInv, GameTypeOK
<1>2. Roll'
  BY <1>1 DEF RosterInv, GameInv, GameTypeOK, Roll, AllListed, Blank, RosterMet,
              VisitInRoster, game, Wired
<1>3. ASSUME NEW e \in Gamer, e # c PROVE sent'[e] = sent[e] /\ gamer'[e] = gamer[e]
  BY <1>1, <1>3
<1>4. sent'[c] = Tail(q) /\ gamer'[c].known = Reaction(g, msg).known /\ q \in Seq(Note) /\ msg \in Note
  BY <1>1, StreamTail
<1>5. \A d : d \in gamer'[c].known <=> \/ msg = Tells("Game_AddPlayer", d)
                                       \/ d \in g.known /\ msg # Tells("Game_RemovePlayer", d)
  BY <1>1, <1>4, KnownAfter
<1>6. \A what, d : Mentions(q, what, d) <=> Mentions(sent'[c], what, d) \/ msg = Tells(what, d)
  BY <1>1, <1>4, MentionsTail
<1>7. \A e \in Gamer : \A what, d : /\ Coming(e, what, d) <=> Mentions(sent[e], what, d)
                                    /\ Coming(e, what, d)' <=> Mentions(sent'[e], what, d)
  BY DEF Coming, Mentions, Tells
<1>8. ASSUME NEW d, Remains(sent'[c], gamer'[c].known, d) PROVE Remains(q, g.known, d)
  BY <1>1, <1>4, <1>5, <1>8, RemainsTail
<1> HIDE DEF q, msg, g
<1>9. ASSUME NEW e \in Gamer, NEW d, Coming(e, "Game_RemovePlayer", d)'
      PROVE  Coming(e, "Game_RemovePlayer", d)
  BY <1>3, <1>6, <1>7, <1>9 DEF q
<1>10. ASSUME NEW e \in Gamer, NEW d, Knows(e, d)
       PROVE  Knows(e, d)' \/ Coming(e, "Game_RemovePlayer", d)
  BY <1>3, <1>5, <1>6, <1>7, <1>10 DEF q, g, Knows
<1>11. ASSUME NEW e \in Gamer, NEW d, Remains(sent'[e], gamer'[e].known, d)
       PROVE  Remains(sent[e], gamer[e].known, d)
  BY <1>3, <1>8, <1>11 DEF q, g
<1>12. ASSUME NEW e \in Gamer, wire[e] = "none", NEW d PROVE ~Remains(sent'[e], gamer'[e].known, d)
  BY <1>11, <1>12 DEF RosterInv, Roll, Blank, Remains
<1>13. RosterStays' /\ RosterKnown' /\ LeftRemembered'
  BY <1>1, <1>9, <1>10, <1>11, <1>12, QuietStep
<1> QED BY <1>1, <1>2, <1>13 DEF RosterInv

LEMMA ActRoster ==
  ASSUME RosterInv, NEW c \in Gamer,
         NEW id \in {"Game_UpdatePlayer", "Game_UpdatePlayerLook"}, Act(c, id)
  PROVE  RosterInv'
<1>1. /\ Wired(c) /\ UNCHANGED <<game, listed, wire, sent>> /\ Kept /\ GameInv'
      /\ gamer' = [gamer EXCEPT ![c] =
                     [Touch(gamer[c], gamer[c].thisPlayerID) EXCEPT !.frames = @ + 1]]
      /\ gamer \in [Gamer -> Members]
  BY ActInv DEF Act, Kept, RosterInv, GameInv, GameTypeOK
<1>2. ASSUME NEW g \in Members, NEW d
      PROVE  [Touch(g, d) EXCEPT !.frames = @ + 1].known = g.known
  BY DEF Touch, Members
<1>3. ASSUME NEW e \in Gamer PROVE gamer'[e].known = gamer[e].known
  BY <1>1, <1>2
<1>4. Roll'
  BY <1>1, <1>3 DEF RosterInv, Roll, AllListed, Blank, RosterMet, VisitInRoster, game
<1>5. ASSUME NEW e \in Gamer, wire[e] = "none", NEW d PROVE ~Remains(sent'[e], gamer'[e].known, d)
  BY <1>1, <1>3, <1>5 DEF RosterInv, Roll, Blank, Remains
<1>6. RosterStays' /\ RosterKnown' /\ LeftRemembered'
  BY <1>1, <1>3, <1>5, QuietStep DEF Coming, Knows
<1> QED BY <1>1, <1>4, <1>6 DEF RosterInv

-----------------------------------------------------------------------------
(* The main thread of the server and the roster *)

\* SetToSeq leaves nobody out.
LEMMA SetToSeqElements ==
  ASSUME NEW S \in SUBSET Gamer
  PROVE  ToSet(SetToSeq(S)) = S
<1> DEFINE n == Cardinality(S)
           f == SetToSeq(S)
<1>1. IsFiniteSet(S)
  <2>1. 1 \in Int /\ MaxGamers \in Int
    BY GameAssumption
  <2>2. IsFiniteSet(Gamer)
    BY <2>1, FS_Interval DEF Gamer
  <2> QED BY <2>2, FS_Subset
<1>2. n \in Nat /\ ExistsBijection(1 .. n, S)
  BY <1>1, FS_CardinalityType
<1>3. PICK h \in [1 .. n -> S] : IsInjective(h)
  BY <1>2 DEF ExistsBijection, Bijection, Injection
<1>4. f \in [1 .. n -> S] /\ IsInjective(f)
  BY <1>3 DEF SetToSeq
<1>5. IsFiniteSet(1 .. n) /\ Cardinality(1 .. n) = n
  <2>1. 1 \in Int /\ n \in Int
    BY <1>2
  <2>2. IsFiniteSet(1 .. n) /\ Cardinality(1 .. n) = IF 1 > n THEN 0 ELSE n - 1 + 1
    BY <2>1, FS_Interval
  <2> HIDE DEF n
  <2> QED BY <1>2, <2>2
<1> HIDE DEF f
<1>6. f \in Injection(1 .. n, S)
  BY <1>4 DEF Injection
<1>7. f \in Surjection(1 .. n, S)
  BY <1>1, <1>5, <1>6, FS_Injection
<1>8. DOMAIN f = 1 .. n
  BY <1>4
<1>9. ToSet(f) = S
  BY <1>4, <1>7, <1>8 DEF Surjection, ToSet
<1> QED BY <1>9 DEF f

\* The players of a set are appended to GarbageIDs.
LEMMA GarbageElements ==
  ASSUME NEW s \in Seq(Gamer), NEW S \in SUBSET Gamer
  PROVE  ToSet(s \o SetToSeq(S)) = ToSet(s) \cup S
<1> DEFINE t == SetToSeq(S)
<1>1. t \in Seq(Gamer) /\ ToSet(t) = S
  BY SetToSeqType, SetToSeqElements
<1> HIDE DEF t
<1>2. /\ DOMAIN s = 1 .. Len(s) /\ DOMAIN t = 1 .. Len(t)
      /\ Len(s) \in Nat /\ Len(t) \in Nat
      /\ DOMAIN (s \o t) = 1 .. Len(s) + Len(t)
      /\ \A i \in 1 .. Len(s) + Len(t) : (s \o t)[i] = IF i <= Len(s) THEN s[i] ELSE t[i - Len(s)]
  BY <1>1
<1>3. ASSUME NEW i \in DOMAIN s PROVE i \in DOMAIN (s \o t) /\ (s \o t)[i] = s[i]
  BY <1>2
<1>4. ASSUME NEW i \in DOMAIN t
      PROVE  Len(s) + i \in DOMAIN (s \o t) /\ (s \o t)[Len(s) + i] = t[i]
  <2>1. Len(s) + i \in 1 .. Len(s) + Len(t) /\ ~(Len(s) + i <= Len(s)) /\ (Len(s) + i) - Len(s) = i
    BY <1>2
  <2> QED BY <1>2, <2>1
<1>5. ASSUME NEW i \in DOMAIN (s \o t)
      PROVE  \/ i \in DOMAIN s /\ (s \o t)[i] = s[i]
             \/ i - Len(s) \in DOMAIN t /\ (s \o t)[i] = t[i - Len(s)]
  BY <1>2
<1>6. ToSet(s) \subseteq ToSet(s \o t) /\ ToSet(t) \subseteq ToSet(s \o t)
  BY <1>3, <1>4 DEF ToSet
<1>7. ToSet(s \o t) \subseteq ToSet(s) \cup ToSet(t)
  BY <1>5 DEF ToSet
<1> QED BY <1>1, <1>6, <1>7 DEF t

LEMMA DeparturesRoster ==
  ASSUME GameInv, at # "flush", NEW gone \in SUBSET Gamer, Departures(gone)
  PROVE  /\ clientRoster' = clientRoster \ gone
         /\ ToSet(GarbageIDs') = ToSet(GarbageIDs) \cup (gone \cap clientRoster)
         /\ UNCHANGED dropped
<1> DEFINE S == gone \cap clientRoster
<1>1. /\ clientRoster' = clientRoster \ gone
      /\ GarbageIDs' = GarbageIDs \o SetToSeq(S) /\ UNCHANGED dropped
  BY DEF Departures
<1>2. S \in SUBSET Gamer /\ GarbageIDs \in Seq(Gamer)
  BY DEF GameInv, GameTypeOK
<1> HIDE DEF S
<1>3. ToSet(GarbageIDs \o SetToSeq(S)) = ToSet(GarbageIDs) \cup S
  BY <1>2, GarbageElements
<1>4. ToSet(GarbageIDs') = ToSet(GarbageIDs) \cup S
  BY <1>1, <1>3
<1> QED BY <1>1, <1>4 DEF S

\* What one more message to a client, or none, does to what it will know.
LEMMA StreamEffect ==
  ASSUME NEW e \in Gamer, sent[e] \in Seq(Note), UNCHANGED gamer,
         NEW m \in Note, sent'[e] = Append(sent[e], m)
  PROVE  \A d : /\ Coming(e, "Game_RemovePlayer", d)' =>
                     Coming(e, "Game_RemovePlayer", d) \/ m = Tells("Game_RemovePlayer", d)
                /\ Knows(e, d) \/ m = Tells("Game_AddPlayer", d) => Knows(e, d)'
                /\ Remains(sent'[e], gamer'[e].known, d) =>
                     /\ m # Tells("Game_RemovePlayer", d)
                     /\ m = Tells("Game_AddPlayer", d) \/ Remains(sent[e], gamer[e].known, d)
<1>1. \A what, d : Mentions(sent'[e], what, d) <=> Mentions(sent[e], what, d) \/ m = Tells(what, d)
  BY MentionsAppend
<1>2. \A what, d : /\ Coming(e, what, d) <=> Mentions(sent[e], what, d)
                   /\ Coming(e, what, d)' <=> Mentions(sent'[e], what, d)
  BY DEF Coming, Mentions, Tells
<1>3. ASSUME NEW d, Remains(sent'[e], gamer'[e].known, d)
      PROVE  /\ m # Tells("Game_RemovePlayer", d)
             /\ m = Tells("Game_AddPlayer", d) \/ Remains(sent[e], gamer[e].known, d)
  BY <1>3, RemainsAppend
<1> QED BY <1>1, <1>2, <1>3 DEF Knows

\* Steps outside a flush: some players may be registered, some depart, and
\* clients are told of players of the roster.
LEMMA TellingStep ==
  ASSUME RosterInv, UNCHANGED <<listed, wire, gamer, dropped>>, at # "flush", at' # "flush",
         NEW joined \in SUBSET Gamer, NEW gone \in SUBSET Gamer,
         clientRoster' = (clientRoster \cup joined) \ gone,
         ToSet(GarbageIDs') = ToSet(GarbageIDs) \cup (gone \cap (clientRoster \cup joined)),
         \A d \in joined \ gone : Wired(d),
         \A e \in Gamer :
           \/ sent'[e] = sent[e]
           \/ wire[e] # "none" /\ \E m \in Note :
                /\ sent'[e] = Append(sent[e], m)
                /\ \A d : /\ m # Tells("Game_RemovePlayer", d)
                          /\ m = Tells("Game_AddPlayer", d) => d \in clientRoster \cup joined
  PROVE  /\ AllListed' /\ Blank' /\ RosterMet' /\ RosterStays' /\ LeftRemembered'
         /\ \A e \in Gamer : \A d : Knows(e, d) => Knows(e, d)'
<1>1. /\ clientRoster \subseteq Gamer /\ \A e \in Gamer : sent[e] \in Seq(Note)
      /\ AllListed /\ Blank /\ RosterMet /\ RosterStays /\ LeftRemembered
  BY DEF RosterInv, Roll, GameInv, GameTypeOK
<1>2. ASSUME NEW e \in Gamer, NEW d
      PROVE  /\ Coming(e, "Game_RemovePlayer", d)' => Coming(e, "Game_RemovePlayer", d)
             /\ Knows(e, d) => Knows(e, d)'
             /\ Remains(sent'[e], gamer'[e].known, d) =>
                  d \in clientRoster \cup joined \/ Remains(sent[e], gamer[e].known, d)
  <2>1. CASE sent'[e] = sent[e]
    BY <2>1 DEF Coming, Knows
  <2>2. ASSUME NEW m \in Note, sent'[e] = Append(sent[e], m),
               m # Tells("Game_RemovePlayer", d),
               m = Tells("Game_AddPlayer", d) => d \in clientRoster \cup joined
        PROVE  /\ Coming(e, "Game_RemovePlayer", d)' => Coming(e, "Game_RemovePlayer", d)
               /\ Knows(e, d) => Knows(e, d)'
               /\ Remains(sent'[e], gamer'[e].known, d) =>
                    d \in clientRoster \cup joined \/ Remains(sent[e], gamer[e].known, d)
    <3>1. sent[e] \in Seq(Note) /\ UNCHANGED gamer
      BY <1>1
    <3> QED BY <2>2, <3>1, StreamEffect
  <2> QED BY <2>1, <2>2
<1>3. AllListed' /\ Blank'
  BY <1>1 DEF AllListed, Blank
<1>4. RosterMet'
  BY <1>1 DEF RosterMet, Wired
<1>5. RosterStays'
  <2> SUFFICES ASSUME NEW d \in clientRoster'
               PROVE  /\ d \notin ToSet(GarbageIDs)
                      /\ \A c \in Gamer : ~Coming(c, "Game_RemovePlayer", d)
    BY <1>2 DEF RosterStays
  <2>1. CASE d \in clientRoster
    BY <1>1, <2>1 DEF RosterStays
  <2>2. CASE d \in joined \ gone
    <3>1. wire[d] # "closed"
      BY <2>2 DEF Wired
    <3>2. d \notin ToSet(GarbageIDs)
      <4>1. GarbageIDs \in Seq(Gamer) /\ GarbageClosed
        BY DEF RosterInv, GameInv, GameTypeOK, Removals
      <4> QED BY <3>1, <4>1, ToSetElements DEF GarbageClosed
    <3>3. ASSUME NEW c \in Gamer, Coming(c, "Game_RemovePlayer", d) PROVE FALSE
      <4>1. PICK i \in 1 .. Len(sent[c]) : sent[c][i] = Tells("Game_RemovePlayer", d)
        BY <1>1, <3>3 DEF Coming, Tells
      <4>2. NoteFor(c, sent[c][i], wire)
        BY <4>1 DEF RosterInv, GameInv, NotesRight
      <4> QED BY <3>1, <4>1, <4>2 DEF NoteFor, Tells
    <3> QED BY <3>2, <3>3
  <2> QED BY <2>1, <2>2
<1>6. LeftRemembered'
  <2> SUFFICES ASSUME NEW c \in Gamer, NEW d \in Gamer \ (clientRoster' \cup dropped), Wired(c),
                      Remains(sent'[c], gamer'[c].known, d)
               PROVE  d \in ToSet(GarbageIDs')
    BY DEF LeftRemembered, Wired
  <2>1. CASE d \in clientRoster \cup joined
    BY <2>1
  <2>2. CASE d \notin clientRoster \cup joined
    BY <1>1, <1>2, <2>2 DEF LeftRemembered
  <2> QED BY <2>1, <2>2
<1> QED BY <1>2, <1>3, <1>4, <1>5, <1>6

LEMMA TakeRequestRoster ==
  ASSUME RosterInv, TakeRequest
  PROVE  RosterInv'
<1>1. /\ at = "idle" /\ at' \in {"act", "flush"} /\ visit' = ToSet(GarbageIDs) /\ GameInv'
      /\ UNCHANGED <<clientRoster, GarbageIDs, listed, wire, sent, gamer, undefined, dropped>>
  BY TakeRequestInv DEF TakeRequest, RosterInv
<1>2. Roll'
  BY <1>1 DEF RosterInv, Roll, AllListed, Blank, RosterMet, VisitInRoster
<1>3. RosterStays'
  BY <1>1 DEF RosterInv, RosterStays, Coming
<1>4. RosterKnown'
  <2>1. ASSUME NEW c \in clientRoster, NEW d \in clientRoster, Wired(c) PROVE Knows(c, d)
    BY <1>1, <2>1 DEF RosterInv, RosterKnown
  <2>2. \A c, d : Knows(c, d) => Knows(c, d)'
    BY <1>1 DEF Knows, Coming
  <2> QED BY <1>1, <2>1, <2>2 DEF RosterKnown, Wired
<1>5. LeftRemembered'
  BY <1>1 DEF RosterInv, LeftRemembered, Wired
<1> QED BY <1>1, <1>2, <1>3, <1>4, <1>5 DEF RosterInv

LEMMA FlushRoster ==
  ASSUME RosterInv, Flush
  PROVE  RosterInv'
<1>1. PICK id \in visit : TellAll(Tells("Game_RemovePlayer", id), NoId) /\ visit' = visit \ {id}
  BY DEF Flush, Tells
<1> DEFINE m == Tells("Game_RemovePlayer", id)
<1>2. /\ at = "flush" /\ clientRoster' = clientRoster \ Unwired(NoId)
      /\ dropped' = dropped \cup (clientRoster \cap Unwired(NoId))
      /\ GarbageIDs' = IF visit' = {} THEN <<>> ELSE GarbageIDs
      /\ at' = IF visit' = {} THEN "act" ELSE "flush"
      /\ UNCHANGED <<listed, wire, gamer>> /\ GameInv'
  BY FlushInv DEF Flush, RosterInv
<1>3. /\ clientRoster \subseteq Gamer /\ \A e \in Gamer : sent[e] \in Seq(Note)
      /\ AllListed /\ Blank /\ RosterMet /\ RosterStays /\ RosterKnown /\ LeftRemembered
  BY DEF RosterInv, Roll, GameInv, GameTypeOK
<1>4. id \in Gamer /\ m \in Note
  BY <1>1 DEF RosterInv, GameInv, GameTypeOK, Note, Tells
<1>5. ASSUME NEW e \in Gamer
      PROVE  \/ sent'[e] = Append(sent[e], m) /\ Wired(e)
             \/ sent'[e] = sent[e] /\ ~Wired(e)
  <2>1. e \in ToSet(listed) \ {NoId} /\ Wired(e) => sent'[e] = Append(sent[e], m)
    BY <1>1 DEF TellAll
  <2>2. ~Wired(e) => sent'[e] = sent[e]
    BY <1>1 DEF TellAll
  <2>3. Wired(e) => e \in ToSet(listed) /\ e # NoId
    BY <1>3 DEF AllListed, Wired, Gamer, NoId
  <2> QED BY <2>1, <2>2, <2>3
<1>6. \A d : m # Tells("Game_AddPlayer", d) /\ (m = Tells("Game_RemovePlayer", d) => d = id)
  BY DEF Tells
<1> HIDE DEF m
<1>7. ASSUME NEW e \in Gamer, NEW d
      PROVE  /\ Coming(e, "Game_RemovePlayer", d)' => Coming(e, "Game_RemovePlayer", d) \/ d = id
             /\ Knows(e, d) => Knows(e, d)'
             /\ Wired(e) /\ Remains(sent'[e], gamer'[e].known, d) =>
                  d # id /\ Remains(sent[e], gamer[e].known, d)
  <2>1. CASE sent'[e] = sent[e] /\ ~Wired(e)
    BY <1>2, <2>1 DEF Coming, Knows
  <2>2. CASE sent'[e] = Append(sent[e], m)
    <3>1. sent[e] \in Seq(Note) /\ UNCHANGED gamer /\ m = Tells("Game_RemovePlayer", id)
      BY <1>2, <1>3 DEF m
    <3> QED BY <1>4, <1>6, <2>2, <3>1, StreamEffect
  <2> QED BY <1>5, <2>1, <2>2
<1>8. Roll'
  <2>1. Blank'
    BY <1>2, <1>3, <1>5 DEF Blank, Wired
  <2> QED BY <1>2, <1>3, <2>1 DEF Roll, AllListed, RosterMet, VisitInRoster
<1>9. RosterStays'
  <2> SUFFICES ASSUME NEW d \in clientRoster'
               PROVE  /\ d \notin ToSet(GarbageIDs')
                      /\ d \notin visit'
                      /\ \A c \in Gamer : ~Coming(c, "Game_RemovePlayer", d)'
    BY DEF RosterStays
  <2>1. d \in clientRoster /\ d \notin visit /\ d # id /\ d \notin ToSet(GarbageIDs)
    BY <1>1, <1>2, <1>3 DEF RosterStays
  <2>2. d \notin ToSet(GarbageIDs')
    BY <1>2, <2>1 DEF ToSet
  <2> QED BY <1>1, <1>3, <1>7, <2>1, <2>2 DEF RosterStays
<1>10. RosterKnown'
  BY <1>2, <1>3, <1>7 DEF RosterKnown, Wired
<1>11. LeftRemembered'
  <2> SUFFICES ASSUME NEW c \in Gamer, NEW d \in Gamer \ (clientRoster' \cup dropped'), Wired(c),
                      Remains(sent'[c], gamer'[c].known, d)
               PROVE  d \in ToSet(GarbageIDs') /\ d \in visit'
    BY <1>2 DEF LeftRemembered, Wired
  <2>1. d \in Gamer \ (clientRoster \cup dropped)
    BY <1>2
  <2>2. d # id /\ Remains(sent[c], gamer[c].known, d)
    BY <1>7
  <2>3. d \in ToSet(GarbageIDs) /\ d \in visit
    BY <1>2, <1>3, <2>1, <2>2 DEF LeftRemembered
  <2> QED BY <1>1, <1>2, <2>2, <2>3
<1> QED BY <1>2, <1>8, <1>9, <1>10, <1>11 DEF RosterInv

LEMMA RegisterRoster ==
  ASSUME RosterInv, Register
  PROVE  RosterInv'
<1> DEFINE c == current.from
           add == Tells("Game_AddPlayer", c)
           assign == Tells("Client_AssignID", c)
           gone == {d \in ToSet(listed) : ~Wired(d)}
           players == gone \cap (clientRoster \cup {c})
<1>1. /\ sent' = [d \in Gamer |-> IF d \notin ToSet(listed) \ gone THEN sent[d]
                                  ELSE Append(sent[d], IF d = c THEN assign ELSE add)]
      /\ clientRoster' = (clientRoster \cup {c}) \ gone
      /\ GarbageIDs' = GarbageIDs \o SetToSeq(players)
      /\ visit' = clientRoster'
      /\ at = "act" /\ at' = IF visit' = {} THEN "check" ELSE "roster"
      /\ UNCHANGED <<listed, wire, gamer, dropped, current>> /\ GameInv'
  BY RegisterInv DEF Register, RosterInv, Tells
<1>2. c \in Gamer /\ wire[c] # "none" /\ clientRoster \subseteq Gamer
  BY <1>1 DEF RosterInv, GameInv, GameTypeOK, Request, Met, CurrentMet
<1>3. ToSet(listed) \subseteq Gamer /\ \A d \in ToSet(listed) : wire[d] # "none"
  <2> SUFFICES ASSUME NEW d \in ToSet(listed) PROVE d \in Gamer /\ wire[d] # "none"
    OBVIOUS
  <2>1. listed \in Seq(Gamer) /\ ListedMet
    BY DEF RosterInv, GameInv, GameTypeOK, Met
  <2> QED BY <2>1, ToSetElements DEF ListedMet
<1>4. \A e \in Gamer : Wired(e) <=> e \in ToSet(listed) \ gone
  BY DEF RosterInv, Roll, AllListed, Wired
<1>5. gone \in SUBSET Gamer /\ {c} \in SUBSET Gamer /\ players = gone \cap (clientRoster \cup {c})
  BY <1>2, <1>3
<1>6. add \in Note /\ assign \in Note
  BY <1>2 DEF Note, Tells
<1>7. /\ \A d : /\ add # Tells("Game_RemovePlayer", d) /\ assign # Tells("Game_RemovePlayer", d)
                /\ assign # Tells("Game_AddPlayer", d)
                /\ add = Tells("Game_AddPlayer", d) => d = c
      /\ add = Tells("Game_AddPlayer", c)
  BY DEF Tells
<1> HIDE DEF c, add, assign, gone, players
<1>8. ToSet(GarbageIDs') = ToSet(GarbageIDs) \cup (gone \cap (clientRoster \cup {c}))
  <2>1. GarbageIDs \in Seq(Gamer) /\ players \in SUBSET Gamer
    BY <1>2, <1>5 DEF RosterInv, GameInv, GameTypeOK
  <2>2. ToSet(GarbageIDs \o SetToSeq(players)) = ToSet(GarbageIDs) \cup players
    BY <2>1, GarbageElements
  <2> QED BY <1>1, <1>5, <2>2
<1>9. \A d \in {c} \ gone : Wired(d)
  BY <1>2, <1>4 DEF RosterInv, Roll, AllListed
<1>10. ASSUME NEW e \in Gamer
       PROVE  \/ sent'[e] = sent[e]
              \/ wire[e] # "none" /\ \E m \in Note :
                   /\ sent'[e] = Append(sent[e], m)
                   /\ \A d : /\ m # Tells("Game_RemovePlayer", d)
                             /\ m = Tells("Game_AddPlayer", d) => d \in clientRoster \cup {c}
  <2>1. CASE e \notin ToSet(listed) \ gone
    BY <1>1, <2>1
  <2>2. CASE e \in ToSet(listed) \ gone /\ e = c
    <3>1. sent'[e] = Append(sent[e], assign)
      BY <1>1, <2>2
    <3> QED BY <1>3, <1>6, <1>7, <2>2, <3>1
  <2>3. CASE e \in ToSet(listed) \ gone /\ e # c
    <3>1. sent'[e] = Append(sent[e], add)
      BY <1>1, <2>3
    <3> QED BY <1>3, <1>6, <1>7, <2>3, <3>1
  <2> QED BY <2>1, <2>2, <2>3
<1>11. /\ AllListed' /\ Blank' /\ RosterMet' /\ RosterStays' /\ LeftRemembered'
       /\ \A e \in Gamer : \A d : Knows(e, d) => Knows(e, d)'
  BY <1>1, <1>5, <1>8, <1>9, <1>10, TellingStep
<1>12. VisitInRoster'
  BY <1>1 DEF VisitInRoster
<1>13. RosterKnown'
  <2> SUFFICES ASSUME NEW e \in clientRoster', NEW d \in clientRoster', Wired(e)
               PROVE  Knows(e, d)' \/ (at' = "roster" /\ e = current'.from /\ d \in visit')
    BY <1>1 DEF RosterKnown, Wired
  <2>1. CASE e = c
    BY <1>1, <2>1 DEF c
  <2>2. CASE e # c
    <3>1. e \in Gamer /\ e \in clientRoster
      BY <1>1, <1>2, <2>2
    <3>2. CASE d = c
      <4>1. sent'[e] = Append(sent[e], add) /\ sent[e] \in Seq(Note)
        BY <1>1, <1>4, <2>2, <3>1 DEF RosterInv, GameInv, GameTypeOK
      <4> QED BY <1>1, <1>6, <1>7, <3>1, <3>2, <4>1, StreamEffect
    <3>3. CASE d # c
      <4>1. d \in clientRoster
        BY <1>1, <3>3
      <4>2. Knows(e, d)
        BY <1>1, <3>1, <4>1 DEF RosterInv, RosterKnown
      <4> QED BY <1>11, <3>1, <4>2
    <3> QED BY <3>2, <3>3
  <2> QED BY <2>1, <2>2
<1> QED BY <1>1, <1>11, <1>12, <1>13 DEF RosterInv, Roll

LEMMA SendRosterRoster ==
  ASSUME RosterInv, SendRoster
  PROVE  RosterInv'
<1> DEFINE c == current.from
<1>1. /\ at = "roster" /\ at' = IF visit' = {} THEN "check" ELSE "roster"
      /\ UNCHANGED <<listed, wire, current, gamer>> /\ GameInv'
  BY SendRosterInv DEF SendRoster, RosterInv
<1>2. PICK id \in visit :
        /\ TellOne(c, Tells("Game_AddPlayer", id))
        /\ IF Wired(c)
             THEN /\ visit' = visit \ {id}
                  /\ UNCHANGED <<clientRoster, GarbageIDs, dropped>>
             ELSE /\ visit' = visit \ {id, c}
                  /\ Departures({c})
  BY DEF SendRoster, Tells
<1> DEFINE m == Tells("Game_AddPlayer", id)
<1>3. c \in Gamer /\ visit \subseteq clientRoster /\ clientRoster \subseteq Gamer
      /\ sent \in [Gamer -> Seq(Note)] /\ GameInv
  BY <1>1 DEF RosterInv, GameInv, GameTypeOK, Request, Roll, VisitInRoster
<1>4. m \in Note /\ \A d : m # Tells("Game_RemovePlayer", d) /\ (m = Tells("Game_AddPlayer", d) => d = id)
  BY <1>2, <1>3 DEF Note, Tells
<1>5. m = Tells("Game_AddPlayer", id)
  OBVIOUS
<1> HIDE DEF c, m
<1>6. CASE Wired(c)
  <2>1. sent' = [sent EXCEPT ![c] = Append(sent[c], m)] /\ wire[c] # "none" /\ sent[c] \in Seq(Note)
    BY <1>2, <1>3, <1>5, <1>6 DEF TellOne, Wired
  <2>2. sent'[c] = Append(sent[c], m) /\ \A e \in Gamer : e = c \/ sent'[e] = sent[e]
    BY <1>3, <2>1
  <2>3. \A e \in Gamer :
          \/ sent'[e] = sent[e]
          \/ wire[e] # "none" /\ \E n \in Note :
               /\ sent'[e] = Append(sent[e], n)
               /\ \A d : /\ n # Tells("Game_RemovePlayer", d)
                         /\ n = Tells("Game_AddPlayer", d) => d \in clientRoster \cup {}
    BY <1>2, <1>3, <1>4, <2>1, <2>2
  <2>4. /\ AllListed' /\ Blank' /\ RosterMet' /\ RosterStays' /\ LeftRemembered'
        /\ \A e \in Gamer : \A d : Knows(e, d) => Knows(e, d)'
    <3>1. /\ clientRoster' = (clientRoster \cup {}) \ {}
          /\ ToSet(GarbageIDs') = ToSet(GarbageIDs) \cup ({} \cap (clientRoster \cup {}))
          /\ at # "flush" /\ at' # "flush" /\ UNCHANGED dropped
      BY <1>1, <1>2, <1>6
    <3>2. {} \in SUBSET Gamer /\ \A d \in {} \ {} : Wired(d)
      OBVIOUS
    <3>3. UNCHANGED <<listed, wire, gamer, dropped>>
      BY <1>1, <3>1
    <3> QED BY <2>3, <3>1, <3>2, <3>3, TellingStep
  <2>5. VisitInRoster'
    BY <1>2, <1>3, <1>6 DEF VisitInRoster
  <2>6. RosterKnown'
    <3> SUFFICES ASSUME NEW e \in clientRoster, NEW d \in clientRoster, Wired(e)
                 PROVE  Knows(e, d)' \/ (at' = "roster" /\ e = current'.from /\ d \in visit')
      BY <1>1, <1>2, <1>6 DEF RosterKnown, Wired
    <3>1. e \in Gamer
      BY <1>3
    <3>2. CASE Knows(e, d)
      BY <2>4, <3>1, <3>2
    <3>3. CASE e = c /\ d = id
      BY <1>1, <1>4, <1>5, <2>1, <2>2, <3>1, <3>3, StreamEffect
    <3>4. CASE e = c /\ d \in visit /\ d # id
      BY <1>1, <1>2, <1>6, <3>4 DEF c
    <3> QED BY <3>2, <3>3, <3>4 DEF RosterInv, RosterKnown, c
  <2> QED BY <1>1, <2>4, <2>5, <2>6 DEF RosterInv, Roll
<1>7. CASE ~Wired(c)
  <2>1. sent' = sent /\ Departures({c}) /\ visit' = visit \ {id, c} /\ {c} \in SUBSET Gamer
    BY <1>2, <1>3, <1>7 DEF TellOne
  <2>2. /\ clientRoster' = clientRoster \ {c}
        /\ ToSet(GarbageIDs') = ToSet(GarbageIDs) \cup ({c} \cap clientRoster)
        /\ UNCHANGED dropped
    BY <1>1, <1>3, <2>1, DeparturesRoster
  <2>3. /\ AllListed' /\ Blank' /\ RosterMet' /\ RosterStays' /\ LeftRemembered'
        /\ \A e \in Gamer : \A d : Knows(e, d) => Knows(e, d)'
    <3>1. /\ clientRoster' = (clientRoster \cup {}) \ {c}
          /\ ToSet(GarbageIDs') = ToSet(GarbageIDs) \cup ({c} \cap (clientRoster \cup {}))
          /\ at # "flush" /\ at' # "flush"
      BY <1>1, <2>2
    <3>2. {} \in SUBSET Gamer /\ \A d \in {} \ {c} : Wired(d)
      OBVIOUS
    <3>3. UNCHANGED <<listed, wire, gamer, dropped>>
      BY <1>1, <2>2
    <3>4. \A e \in Gamer : sent'[e] = sent[e]
      BY <2>1
    <3> QED BY <2>1, <3>1, <3>2, <3>3, <3>4, TellingStep
  <2>4. VisitInRoster'
    BY <1>3, <2>1, <2>2 DEF VisitInRoster
  <2>5. RosterKnown'
    <3> SUFFICES ASSUME NEW e \in clientRoster', NEW d \in clientRoster', Wired(e)
                 PROVE  Knows(e, d)'
      BY <1>1 DEF RosterKnown, Wired
    <3>1. e \in clientRoster /\ d \in clientRoster /\ e # c /\ e \in Gamer
      BY <1>3, <2>2
    <3>2. Knows(e, d)
      BY <3>1 DEF RosterInv, RosterKnown, c
    <3> QED BY <2>3, <3>1, <3>2
  <2> QED BY <1>1, <2>3, <2>4, <2>5 DEF RosterInv, Roll
<1> QED BY <1>6, <1>7

\* What ends a message: clients may be told something that is not about the
\* roster, those that are gone depart.
LEMMA EndRoster ==
  ASSUME RosterInv, GameInv', at # "flush", at # "roster", at' = "idle",
         UNCHANGED <<listed, wire, gamer>>,
         NEW gone \in SUBSET Gamer, Departures(gone),
         \A e \in Gamer :
           \/ sent'[e] = sent[e]
           \/ wire[e] # "none" /\ \E m \in Note :
                /\ sent'[e] = Append(sent[e], m)
                /\ \A d : m # Tells("Game_RemovePlayer", d) /\ m # Tells("Game_AddPlayer", d)
  PROVE  RosterInv'
<1>1. GameInv /\ clientRoster \subseteq Gamer
  BY DEF RosterInv, GameInv, GameTypeOK
<1>2. /\ clientRoster' = clientRoster \ gone
      /\ ToSet(GarbageIDs') = ToSet(GarbageIDs) \cup (gone \cap clientRoster)
      /\ UNCHANGED dropped
  BY <1>1, DeparturesRoster
<1>3. /\ AllListed' /\ Blank' /\ RosterMet' /\ RosterStays' /\ LeftRemembered'
      /\ \A e \in Gamer : \A d : Knows(e, d) => Knows(e, d)'
  <2>1. /\ clientRoster' = (clientRoster \cup {}) \ gone
        /\ ToSet(GarbageIDs') = ToSet(GarbageIDs) \cup (gone \cap (clientRoster \cup {}))
    BY <1>2
  <2>2. \A e \in Gamer :
           \/ sent'[e] = sent[e]
           \/ wire[e] # "none" /\ \E m \in Note :
                /\ sent'[e] = Append(sent[e], m)
                /\ \A d : /\ m # Tells("Game_RemovePlayer", d)
                          /\ m = Tells("Game_AddPlayer", d) => d \in clientRoster \cup {}
    OBVIOUS
  <2> QED BY <1>2, <2>1, <2>2, TellingStep
<1>4. RosterKnown'
  <2> SUFFICES ASSUME NEW e \in clientRoster', NEW d \in clientRoster', Wired(e)
               PROVE  Knows(e, d)'
    BY DEF RosterKnown, Wired
  <2>1. e \in Gamer /\ Knows(e, d)
    BY <1>1, <1>2 DEF RosterInv, RosterKnown
  <2> QED BY <1>3, <2>1
<1> QED BY <1>3, <1>4 DEF RosterInv, Roll, VisitInRoster

LEMMA RelayRoster ==
  ASSUME RosterInv, Relay
  PROVE  RosterInv'
<1> DEFINE m == Tells(current.id, current.player)
<1>1. /\ at = "act" /\ at' = "idle"
      /\ current.id \in {"Game_UpdatePlayer", "Game_UpdatePlayerLook"}
      /\ TellAll(m, current.from) /\ Departures(Unwired(NoId))
      /\ UNCHANGED <<listed, wire, gamer>> /\ GameInv'
  BY RelayInv DEF Relay, RosterInv, Tells
<1>2. m \in Note /\ \A d : m # Tells("Game_RemovePlayer", d) /\ m # Tells("Game_AddPlayer", d)
  <2>1. current \in Request
    BY <1>1 DEF RosterInv, GameInv, GameTypeOK
  <2>2. current.player \in Gamer
    BY <1>1, <2>1 DEF Request
  <2> QED BY <1>1, <2>2 DEF Note, Tells
<1> HIDE DEF m
<1>3. \A e \in Gamer :
        \/ sent'[e] = sent[e]
        \/ wire[e] # "none" /\ \E n \in Note :
             /\ sent'[e] = Append(sent[e], n)
             /\ \A d : n # Tells("Game_RemovePlayer", d) /\ n # Tells("Game_AddPlayer", d)
  <2>1. \A e \in Gamer : \/ sent'[e] = sent[e]
                         \/ Wired(e) /\ sent'[e] = Append(sent[e], m)
    BY <1>1 DEF TellAll
  <2>2. \A e \in Gamer : Wired(e) => wire[e] # "none"
    BY DEF Wired
  <2> QED BY <1>2, <2>1, <2>2
<1>4. Unwired(NoId) \in SUBSET Gamer
  BY UnwiredClosed DEF RosterInv
<1> QED BY <1>1, <1>3, <1>4, EndRoster

LEMMA CheckSenderRoster ==
  ASSUME RosterInv, CheckSender
  PROVE  RosterInv'
<1> DEFINE gone == IF Wired(current.from) THEN {} ELSE {current.from}
<1>1. /\ at = "check" /\ at' = "idle" /\ Departures(gone)
      /\ UNCHANGED <<listed, wire, gamer, sent>> /\ GameInv'
  BY CheckSenderInv DEF CheckSender, RosterInv
<1>2. gone \in SUBSET Gamer
  BY <1>1 DEF RosterInv, GameInv, GameTypeOK, Request
<1> HIDE DEF gone
<1> QED BY <1>1, <1>2, EndRoster

LEMMA RosterNextInv == RosterInv /\ [GameNext]_gameVars => RosterInv'
<1> SUFFICES ASSUME RosterInv, [GameNext]_gameVars PROVE RosterInv'
  OBVIOUS
<1>1. CASE ServerMain
  BY <1>1, TakeRequestRoster, FlushRoster, RegisterRoster, SendRosterRoster, RelayRoster,
     CheckSenderRoster DEF ServerMain
<1>2. ASSUME NEW c \in Gamer,
             \/ AcceptGamer(c) \/ ValidateGamer(c) \/ FailGamer(c) \/ Vanish(c)
             \/ TakeMessage(c) \/ Frame(c) \/ Save(c)
      PROVE  RosterInv'
  BY <1>2, AcceptRoster, ValidateRoster, FailRoster, VanishRoster, TakeMessageRoster, ActRoster
     DEF Frame, Save
<1>3. CASE Unmoved
  <2>1. GameInv' /\ UNCHANGED <<clientRoster, GarbageIDs, at, current, visit, dropped, listed,
                                wire, sent, gamer>>
    BY <1>3, GameNextInv DEF RosterInv, Unmoved
  <2>2. Roll'
    BY <2>1 DEF RosterInv, Roll, AllListed, Blank, RosterMet, VisitInRoster
  <2>3. RosterStays'
    BY <2>1 DEF RosterInv, RosterStays, Coming
  <2>4. RosterKnown'
    <3>1. \A c, d : Knows(c, d) => Knows(c, d)'
      BY <2>1 DEF Knows, Coming
    <3> QED BY <2>1, <3>1 DEF RosterInv, RosterKnown, Wired
  <2>5. LeftRemembered'
    BY <2>1 DEF RosterInv, LeftRemembered, Wired
  <2> QED BY <2>1, <2>2, <2>3, <2>4, <2>5 DEF RosterInv
<1> QED BY <1>1, <1>2, <1>3, UnmovedSteps DEF GameNext, RosterInv

LEMMA RosterInvariant == GameSpec => []RosterInv
<1> QED BY RosterInitInv, RosterNextInv, PTL DEF GameSpec

\* Between messages, connected players of the roster know all of the roster
\* or are about to be told, whatever joined, left and vanished meanwhile.
THEOREM RosterIsShared == GameSpec => []RosterShared
<1>1. RosterInv => RosterShared
  BY DEF RosterInv, RosterKnown, RosterShared, Knows
<1> QED BY <1>1, RosterInvariant, PTL

\* A player that has left the roster is not forgotten where it is known: the
\* removal is under way or waits in GarbageIDs, unless clear() took it away.
THEOREM DeparturesRemembered == GameSpec => []DepartureRemembered
<1>1. RosterInv => DepartureRemembered
  <2> SUFFICES ASSUME RosterInv, NEW c \in Gamer, Wired(c),
                      NEW d \in gamer[c].known \ (clientRoster \cup dropped),
                      ~Coming(c, "Game_RemovePlayer", d)
               PROVE  d \in ToSet(GarbageIDs)
    BY DEF DepartureRemembered
  <2>1. d \in Gamer
    BY DEF RosterInv, GameInv, GameTypeOK, Members
  <2>2. Remains(sent[c], gamer[c].known, d)
    BY DEF Remains, Mentions, Coming, Tells
  <2> QED BY <2>1, <2>2 DEF RosterInv, LeftRemembered
<1> QED BY <1>1, RosterInvariant, PTL
=============================================================================
