----------------------------- MODULE TicTacToe -----------------------------
(***************************************************************************)
(* examples/tic_tac_toe: a server that seats two players, passes their     *)
(* moves on and declares the winner, and its clients.                      *)
(*                                                                         *)
(* A step is one callback of the server, the reaction of a client to one   *)
(* message, or a decision of a user.  The two threads of the server share  *)
(* the board, the players and m_deqConnections without a lock; where their *)
(* callbacks overlap the run stops (Overlap).  A message travels in order  *)
(* and arrives unless its receiver has left, as Connection shows; that the *)
(* receiver is woken for it is not sure, as TSQueue shows (MissWakeup).    *)
(***************************************************************************)
EXTENDS Naturals, Sequences, FiniteSets

CONSTANTS
  MaxPlayers,  \* bound: clients that connect, numbered in the order of their ids
  Squares,     \* bound: the squares users choose from once n clients have connected
  MaxLeave,    \* bound: clients that quit before their game is over
  MaxWrong,    \* bound: clients that answer their challenge wrongly
  MaxLate      \* bound: consumers asleep at a time on a message that is there

\* A position is <<column, row>> as in Move{x, y}.
Position == (0 .. 2) \X (0 .. 2)

ASSUME TicTacToeAssumption ==
  /\ MaxPlayers \in Nat /\ MaxLeave \in Nat /\ MaxWrong \in Nat /\ MaxLate \in Nat
  /\ Squares \in [0 .. MaxPlayers -> SUBSET Position]

Player == 1 .. MaxPlayers
Server == 0  \* its main thread, as a consumer of messages

\* A char as the set of its one bits: check_win() compares with &.
o == {0, 1, 2, 3, 5, 6}   \* 'o', 0x6f
x == {3, 4, 5, 6}         \* 'x', 0x78
None == {}                \* 0
Symbol == {o, x, None}

VARIABLES
  server,     \* the members of SampleServer, and the messages under way to each client
  moves,      \* m_qMessagesIn: moves and who sent them
  link,       \* the server's end of each connection
  client,     \* the members of each SampleClient, and where it is
  left,       \* history: clients that quit before their game was over
  wrong,      \* history: clients whose answer to the challenge was wrong
  end,        \* what stopped the server
  late        \* consumers that sleep in wait() on a message that is there

tttVars == <<server, moves, link, client, left, wrong, end, late>>

NoBoard == [p \in Position |-> None]

TicTacToeInit ==
  /\ server = [symbols_left |-> [y \in Symbol |-> IF y = None THEN 0 ELSE 1],
               players |-> [c \in {} |-> None], started |-> FALSE,
               round |-> o, board |-> NoBoard, net |-> [c \in Player |-> <<>>]]
  /\ moves = <<>>
  /\ link = [c \in Player |-> "none"]
  /\ client = [c \in Player |-> [my_symbol |-> None, my_round |-> FALSE,
                                 board |-> NoBoard, at |-> "await"]]
  /\ left = {}
  /\ wrong = {}
  /\ end = "no"
  /\ late = {}

-----------------------------------------------------------------------------
(* Board *)

check_valid_move(board, p) == board[p] = None

apply_move(board, p, symbol) == [board EXCEPT ![p] = symbol]

\* The lines check_win() tries, in its order, the square it reports first.
Column(i) == <<<<i, 0>>, <<i, 1>>, <<i, 2>>>>
Row(i) == <<<<0, i>>, <<1, i>>, <<2, i>>>>
Lines == <<Column(0), Column(1), Column(2), Row(0), Row(1), Row(2),
           <<<<0, 0>>, <<1, 1>>, <<2, 2>>>>, <<<<2, 0>>, <<1, 1>>, <<0, 2>>>>>>

\* Mutated form: looks at two squares of a line.
WinsByTwo(board, line) ==
  /\ board[line[1]] # None
  /\ board[line[1]] = board[line[1]] \cap board[line[2]]

Wins(board, line) ==
  /\ board[line[1]] # None
  /\ board[line[1]] = board[line[1]] \cap board[line[2]] \cap board[line[3]]

check_win(board) ==
  LET won == {i \in DOMAIN Lines : Wins(board, Lines[i])}
      first == CHOOSE i \in won : \A j \in won : i <= j
  IN  IF won = {} THEN None ELSE board[Lines[first][1]]

-----------------------------------------------------------------------------
(* The callbacks of the server, on a value s of its state. *)

SquaresNow == Squares[Cardinality({c \in Player : link[c] # "none"})]

\* A wrong answer leaves the socket as it is.
IsOpen(c) == link[c] \in {"pending", "open", "failed"}

\* m_deqConnections: KickClient removes nothing.
deqConns == {c \in Player : link[c] \in {"pending", "open", "failed", "closed"}}

NoneLeft == [y \in Symbol |-> 0]

\* players[id], which makes an entry with 0 for an id it does not know.
SymbolOf(s, c) == IF c \in DOMAIN s.players THEN s.players[c] ELSE None
Entered(s, clients) ==
  [s EXCEPT !.players = [d \in DOMAIN @ \cup clients |-> SymbolOf(s, d)]]

\* For each client of a set, in any order.  symbols_left is shuffled before it
\* is used, so that only the number of each symbol matters.
OnClientDisconnect(s, gone) ==
  [s EXCEPT !.symbols_left = [y \in Symbol |->
              @[y] + Cardinality({c \in gone : SymbolOf(s, c) = y})],
            !.players = [d \in DOMAIN @ \ gone |-> @[d]],
            !.started = @ /\ gone = {},
            !.board = IF gone = {} THEN @ ELSE NoBoard]

\* MessageClient of ServerInterface, of msgs[c] to each c: a closed connection
\* is kicked instead.
SendEach(s, msgs) ==
  [OnClientDisconnect(s, {c \in deqConns : ~IsOpen(c)}) EXCEPT
     !.net = [c \in Player |-> IF c \in deqConns /\ IsOpen(c)
                                THEN Append(@[c], msgs[c]) ELSE @[c]]]

SendToAll(s, msg) == SendEach(s, [c \in Player |-> msg])

ServerAccept(symbol) == [id |-> "ServerAccept", symbol |-> symbol]
MoveMsg(p, symbol, next) == [id |-> "Move", pos |-> p, symbol |-> symbol, next |-> next]
GameEnd(winner) == [id |-> "GameEnd", winner |-> winner]

\* players.insert(), which does not replace an entry, and pop_back().
Seat(s, c, y) ==
  [s EXCEPT !.players = IF c \in DOMAIN @ THEN @ ELSE
              [d \in DOMAIN @ \cup {c} |-> IF d = c THEN y ELSE @[d]],
            !.symbols_left[y] = @ - 1]

\* Shuffling symbols_left and taking its back y is taking any of them.
OnClientValidated(s, c, y) ==
  LET seated == Seat(s, c, y)
      accepts == [d \in Player |-> ServerAccept(SymbolOf(seated, d))]
  IN  IF seated.symbols_left # NoneLeft THEN seated
      ELSE [SendEach(Entered(seated, deqConns), accepts) EXCEPT !.started = TRUE]

\* Mutated form: after x it is nobody's turn.
NoRound(round) == IF round = o THEN x ELSE None

NextRound(round) == IF round = o THEN x ELSE o

\* OnMessage, of a move that is valid.
OnMove(s, c, p) ==
  LET symbol == SymbolOf(s, c)
      moved == [Entered(s, {c}) EXCEPT !.board = apply_move(@, p, symbol),
                                     !.round = NextRound(@)]
      win == check_win(moved.board)
      told == SendToAll(moved, MoveMsg(p, symbol, IF win = None THEN moved.round ELSE None))
  IN  IF win = None THEN told ELSE SendToAll(told, GameEnd(win))

\* OnMessage, then the check of Update() that the sender is still there.
Handled(s, c, p) ==
  LET t == IF s.started THEN OnMove(s, c, p) ELSE s
  IN  IF IsOpen(c) THEN t ELSE OnClientDisconnect(t, {c})

-----------------------------------------------------------------------------
(* Server steps *)

Arrives(c) == link[c] = "none" /\ \A d \in Player : d < c => link[d] # "none"

\* The accept handler, with OnClientConnect.
AcceptPlayer(c) ==
  /\ Arrives(c)
  /\ link' = [link EXCEPT ![c] =
       IF server.symbols_left # NoneLeft THEN "pending" ELSE "denied"]
  /\ UNCHANGED <<server, moves, client, left, wrong, end, late>>

\* The right answer.  back() of an empty vector is undefined.
ValidatePlayer(c) ==
  /\ link[c] = "pending"
  /\ link' = [link EXCEPT ![c] = "open"]
  /\ \/ /\ server.symbols_left = NoneLeft
        /\ end' = "undefined" /\ UNCHANGED server
     \/ /\ \E y \in Symbol : /\ server.symbols_left[y] > 0
                             /\ server' = OnClientValidated(server, c, y)
        /\ UNCHANGED end
  /\ UNCHANGED <<moves, client, left, wrong, late>>

\* A wrong answer: KickClient tells OnClientDisconnect, and the connection
\* stays open and listed.  Nothing is read from it any more.
FailPlayer(c) ==
  /\ link[c] = "pending"
  /\ Cardinality(wrong) < MaxWrong
  /\ link' = [link EXCEPT ![c] = "failed"]
  /\ server' = OnClientDisconnect(server, {c})
  /\ wrong' = wrong \cup {c}
  /\ UNCHANGED <<moves, client, left, end, late>>

\* A callback of the io thread, of a handshake or of an accept that lets the
\* client in, overlaps Update() on the main thread.
Overlap(c) ==
  /\ moves # <<>>
  /\ link[c] = "pending" \/ (Arrives(c) /\ server.symbols_left # NoneLeft)
  /\ end' = "race"
  /\ UNCHANGED <<server, moves, link, client, left, wrong, late>>

HandleMove ==
  /\ moves # <<>>
  /\ moves' = Tail(moves)
  /\ LET m == Head(moves) IN
       IF server.started /\ ~check_valid_move(server.board, m.pos)
         THEN end' = "exit(1)" /\ UNCHANGED server
         ELSE server' = Handled(server, m.from, m.pos) /\ UNCHANGED end
  /\ late' = late \ {Server}
  /\ UNCHANGED <<link, client, left, wrong>>

\* Update() and AwaitNextMessage begin with wait().  A message that arrives
\* between its test of the queue and its sleep is not noticed; how many of
\* them do so, and whether the consumer wakes up without being told, is open.
MissWakeup(k) ==
  /\ k \notin late
  /\ Cardinality(late) < MaxLate
  /\ IF k = Server THEN moves # <<>> ELSE client[k].at = "await" /\ server.net[k] # <<>>
  /\ late' = late \cup {k}
  /\ UNCHANGED <<server, moves, link, client, left, wrong, end>>

-----------------------------------------------------------------------------
(* Client steps *)

\* Mutated form: marks a move with the symbol of the client.
TookOwn(k, msg) ==
  CASE msg.id = "ServerAccept" ->
         [k EXCEPT !.my_symbol = msg.symbol, !.my_round = (msg.symbol = o) \/ @]
    [] msg.id = "Move" ->
         [k EXCEPT !.board = apply_move(@, msg.pos, k.my_symbol),
                   !.my_round = (msg.next = k.my_symbol)]
    [] msg.id = "GameEnd" -> [k EXCEPT !.at = "over"]

\* Mutated form: takes turns by itself.
TookTurns(k, msg) ==
  CASE msg.id = "ServerAccept" ->
         [k EXCEPT !.my_symbol = msg.symbol, !.my_round = (msg.symbol = o) \/ @]
    [] msg.id = "Move" ->
         [k EXCEPT !.board = apply_move(@, msg.pos, msg.symbol), !.my_round = ~@]
    [] msg.id = "GameEnd" -> [k EXCEPT !.at = "over"]

\* The client's state after one message, before it looks whose turn it is.
Took(k, msg) ==
  CASE msg.id = "ServerAccept" ->
         [k EXCEPT !.my_symbol = msg.symbol, !.my_round = (msg.symbol = o) \/ @]
    [] msg.id = "Move" ->
         [k EXCEPT !.board = apply_move(@, msg.pos, msg.symbol),
                   !.my_round = (msg.next = k.my_symbol)]
    [] msg.id = "GameEnd" -> [k EXCEPT !.at = "over"]

\* One turn of the client's loop; after GameEnd it disconnects and exits.
ReceiveMsg(c) ==
  /\ client[c].at = "await"
  /\ server.net[c] # <<>>
  /\ LET k == Took(client[c], Head(server.net[c])) IN
       /\ client' = [client EXCEPT ![c] =
            IF k.at = "await" /\ k.my_symbol # None /\ k.my_round
              THEN [k EXCEPT !.at = "move"] ELSE k]
       /\ link' = IF k.at = "over" THEN [link EXCEPT ![c] = "closed"] ELSE link
  /\ server' = [server EXCEPT !.net[c] = Tail(@)]
  /\ late' = late \ {c}
  /\ UNCHANGED <<moves, left, wrong, end>>

\* Mutated form: the client accepts a move on any square.
PlaceAnywhere(c, p) ==
  /\ client[c].at = "move"
  /\ client' = [client EXCEPT ![c].at = "await", ![c].my_round = FALSE]
  /\ moves' = Append(moves, [from |-> c, pos |-> p])
  /\ UNCHANGED <<server, link, left, wrong, end, late>>

Place(c, p) ==
  /\ client[c].at = "move"
  /\ check_valid_move(client[c].board, p)
  /\ client' = [client EXCEPT ![c].at = "await", ![c].my_round = FALSE]
  /\ moves' = Append(moves, [from |-> c, pos |-> p])
  /\ UNCHANGED <<server, link, left, wrong, end, late>>

\* The user ends the program, and the server's end is closed.
Quit(c) ==
  /\ Cardinality(left) < MaxLeave
  /\ IsOpen(c)
  /\ link' = [link EXCEPT ![c] = "closed"]
  /\ client' = [client EXCEPT ![c].at = "left"]
  /\ left' = left \cup {c}
  /\ UNCHANGED <<server, moves, wrong, end, late>>

TicTacToeNext ==
  /\ end = "no"
  /\ \/ HandleMove
     \/ \E c \in Player : \/ AcceptPlayer(c) \/ ValidatePlayer(c) \/ FailPlayer(c)
                          \/ Overlap(c) \/ ReceiveMsg(c) \/ Quit(c)
                          \/ \E p \in SquaresNow : Place(c, p)
     \/ \E k \in Player \cup {Server} : MissWakeup(k)

TicTacToeSpec == TicTacToeInit /\ [][TicTacToeNext]_tttVars

\* Consumers that are not asleep go on, and users whose turn it is move.
TicTacToeFairness ==
  /\ WF_tttVars(end = "no" /\ Server \notin late /\ HandleMove)
  /\ \A c \in Player :
       /\ WF_tttVars(end = "no" /\ c \notin late /\ ReceiveMsg(c))
       /\ WF_tttVars(end = "no" /\ \E p \in SquaresNow : Place(c, p))

-----------------------------------------------------------------------------
Board == [Position -> Symbol]
Message == [id : {"ServerAccept"}, symbol : Symbol]
   \cup [id : {"Move"}, pos : Position, symbol : Symbol, next : Symbol]
   \cup [id : {"GameEnd"}, winner : Symbol]

ServerState ==
  [symbols_left : [Symbol -> Nat], players : UNION {[S -> Symbol] : S \in SUBSET Player},
   started : BOOLEAN, round : {o, x}, board : Board, net : [Player -> Seq(Message)]]
ClientState ==
  [my_symbol : Symbol, my_round : BOOLEAN, board : Board,
   at : {"await", "move", "over", "left"}]

TicTacToeTypeOK ==
  /\ server \in ServerState
  /\ moves \in Seq([from : Player, pos : Position])
  /\ link \in [Player -> {"none", "pending", "open", "failed", "closed", "denied"}]
  /\ client \in [Player -> ClientState]
  /\ left \in SUBSET Player
  /\ wrong \in SUBSET Player
  /\ end \in {"no", "exit(1)", "undefined", "race"}
  /\ late \in SUBSET (Player \cup {Server})

\* The server exits when it gets a move it finds invalid.  A client that
\* checks its moves on its own board never makes it do so, even when others
\* leave, join or are told to start again, as long as every client answers
\* its challenge rightly: a wrong answer clears the board of the game others
\* play, and gives back a symbol that was not taken.
NoInvalidMove == wrong = {} => end # "exit(1)"

\* Nobody has left, and every challenge was answered rightly.
Undisturbed == left = {} /\ wrong = {}

Playing(c) == IsOpen(c) \/ client[c].at = "over"

\* In an undisturbed game every client's board is the server's, but for the
\* moves still under way to it.
MovesTo(c, p) ==
  {i \in DOMAIN server.net[c] : server.net[c][i].id = "Move" /\ server.net[c][i].pos = p}
BoardsAgree ==
  Undisturbed =>
    \A c \in Player : Playing(c) =>
      \A p \in Position :
        /\ \A i \in MovesTo(c, p) : server.net[c][i].symbol = server.board[p]
        /\ MovesTo(c, p) = {} => client[c].board[p] = server.board[p]

\* In an undisturbed game at most one client has the turn: it is about to
\* move, has a move under way, or will be told that it is next.
GivesTurn(c, m) ==
  \/ m.id = "ServerAccept" /\ m.symbol = o
  \/ m.id = "Move" /\ m.next # None /\ m.next = SymbolOf(server, c)
HasTurn(c) ==
  \/ client[c].at = "move"
  \/ \E i \in DOMAIN moves : moves[i].from = c
  \/ \E i \in DOMAIN server.net[c] : GivesTurn(c, server.net[c][i])
OneMover ==
  Undisturbed => \A c, d \in Player : HasTurn(c) /\ HasTurn(d) => c = d

\* In an undisturbed game a winner is announced only when it is the one symbol
\* with three in a line.
HasLine(symbol) ==
  \E i \in DOMAIN Lines : \A p \in {Lines[i][j] : j \in 1 .. 3} : server.board[p] = symbol
RightWinner ==
  Undisturbed =>
    \A c \in Player : \A i \in DOMAIN server.net[c] :
      LET m == server.net[c][i]
      IN  m.id = "GameEnd" => {s \in {o, x} : HasLine(s)} = {m.winner}

\* A game that has started and is not disturbed is played to its end, unless
\* a consumer sleeps for ever on a message that is there.
Full == \A p \in SquaresNow : server.board[p] # None
Over == \A c \in DOMAIN server.players : client[c].at = "over"
GameEnds ==
  \/ server.started ~> ~Undisturbed \/ end # "no" \/ Full \/ Over
  \/ <>[](late # {})
=============================================================================
