# Sonic++ in TLA+

Sonic++ is a header-only C++ library for TCP client/server programs on top of
asio: `library/queue.h`, `connection.h`, `server.h`, `client.h`, `message.h`,
and three example programs, one of which brings its own copy of the
immediate-mode GUI raygui. This directory holds TLA+ models of it, TLC
configurations that check them on small instances, and TLAPS proofs of their
main invariants. All paths below are relative to the repository.

## 1. The system

| Component | State | Operations | Talks to |
|---|---|---|---|
| `tsqueue` (`library/queue.h`) | a deque, `muxQueue`, `muxBlocking`, `cvBlocking` | push at either end, pop at either end, `wait`, `is_empty`, `clear`, `count` | shared by the io thread (pushes) and the application thread (waits, pops) |
| `Connection` (`library/connection.h`) | socket, `m_qMessagesOut`, `m_msgTemporaryIn`, handshake values, a reference to the owner's `m_qMessagesIn` | `Send` and `Disconnect` (posted), the completion handlers of the read chain, the write chain and the handshake | the connection at the other end of the TCP stream; `OnClientValidated` and `KickClient` of its server |
| `ServerInterface` (`library/server.h`) | `m_deqConnections`, `m_qMessagesIn`, id counter, io thread | accept handler, `MessageClient`, `MessageAllClients`, `KickClient`, `Update`, `Stop` | its connections (posts), the application through `OnClientConnect/Validated/Disconnect`, `OnMessage` |
| `ClientIntefrace` (`library/client.h`) | one connection, `m_qMessagesIn`, `m_context`, io thread | `Connect`, `Disconnect`, `Send`, `NextMessage`, `AwaitNextMessage`, the destructor | its connection |
| `Message` (`library/message.h`) | header (id, size), body | `<<` appends a value, `>>` takes the last one off | written and read by both ends |
| ping example | nothing | client sends without waiting, server echoes | the interfaces |
| tic-tac-toe example | server: `symbols_left`, `players`, `board`, `round`, `started`; client: its symbol, `my_round`, a board of its own | seating players, moves, win test, departures | `ServerInterface`, `ClientIntefrace` |
| 2d game example | server: `clientRoster`, `GarbageIDs`; client: `players`, `thisPlayerID`, `bWaitingForConnection` | registering, relaying, removal | `ServerInterface`, `ClientIntefrace`, raygui |
| `raygui.h` | `guiState`, `guiLocked`, `guiSliderDragging`, `guiSliderActive`, `textBoxCursorIndex`; the values of the controls are the program's | one call per control and frame | the program, raylib's mouse and keyboard |
| `Makefile` | - | build rules | - |

Two threads run in every process. The **io thread** runs completion handlers
and posted functions of the process's `io_context`, one at a time; the
**application thread** calls the interface. They meet in `tsqueue`, in the
functions posted to the `io_context`, and, in a server, in
`m_deqConnections`, which both use without a lock.

### What is hard here

* `tsqueue`: two mutexes and a condition variable without a predicate; `pop_front` is two critical sections with a copy through a reference in between; the callers' emptiness test is a third.
* `Connection`: callbacks on callbacks. `Send` starts a write only when the out queue is empty and trusts the chain of write handlers for the rest; the buffers being written point into the front of that queue. The read chain must re-arm on every path. Handshake values and messages share one unframed stream. Errors arrive at the read, the write and the posted functions in any order.
* `ServerInterface`: handlers hold a raw `this`, so lifetime depends on what stays in a container; `MessageAllClients`, `KickClient` and the application's `OnClientDisconnect` call one another; messages outlive their senders; two threads.
* `ClientIntefrace`: `Disconnect` posts work to an `io_context`, stops it at once and joins a thread that may be in a handler; `Connect` may come again, after a failure or after a `Disconnect`.
* `Message`: nothing in a body says what is on it; lengths lie behind the data.
* tic-tac-toe: the turn and the board are kept by three parties and passed on by messages, while players leave and others come; a wrong answer of a stranger resets it; the callbacks of two threads share the board without a lock.
* 2d game: a departure is remembered until the next message of somebody else; rosters are sent while others enter and leave; containers are changed by callbacks of the loops over them.
* raygui: every control reads and writes a handful of globals, so what a call does depends on the calls before it in the frame and in the frames before; the values of the controls are changed by the program in between.

### What makes each part correct

| Part | Correct means |
|---|---|
| `tsqueue` | it is a FIFO queue to its users; no undefined deque operation; a push never blocks for ever; a waiter is woken |
| `Connection` | one message write at a time, of the front message; neither chain stops on an open socket; each direction is a FIFO channel; only a client that answered the challenge is heard; a genuine one is accepted; everything sent arrives unless the connection goes down; a closed end is noticed |
| `ServerInterface` | no handler outlives its connection; a broadcast reaches everybody; announcing a departure ends; every message received is handled |
| `ClientIntefrace` | `Disconnect` returns; nothing touches a connection that was given up, nor the queue of a client that is down; a message that the test of the queue has seen is there when it is popped |
| `Message` | `>>` undoes `<<` in reverse order; `header.size` is the size of the body (message.h:18 says otherwise, section 5) |
| tic-tac-toe | one player at a time has the turn; the boards agree; as long as every client answers its challenge rightly, no move makes the server exit; the winner has a line; a game that nobody leaves or disturbs ends, unless a consumer sleeps on a message |
| 2d game | who is in the roster is known to all who are; a departure is not forgotten; a player keeps itself and gets to play |
| raygui | a drag excludes everything else and ends; a text fits its buffer and is cut between characters; one box at a time uses the cursor; a list shows items it has |

## 2. Modules

| Module | Models |
|---|---|
| `FIFOQueue` | abstract specification: an atomic FIFO queue with histories of what was put and taken |
| `TSQueue` | `library/queue.h`, at the grain of its critical sections |
| `Connection` | `library/connection.h`, both ends of one connection, and `Disconnect()` of `library/client.h` |
| `ServedConnection` | abstract specification: what a server knows of one connection |
| `ServerInterface` | `library/server.h`, both threads |
| `Message` | `library/message.h`: a body under `<<` and `>>` |
| `ClientInterface` | `library/client.h`, both threads |
| `TicTacToe` | `examples/tic_tac_toe`: server, board, clients |
| `GameServer` | `examples/raylib_2d_example`: server and the clients' protocol |
| `Gui` | `examples/raylib_2d_example/raygui.h`: the interactive controls and the globals they share |
| `MCTSQueue`, `MCConnection`, `MCServerInterface`, `MCExamples`, `MCGame2D` | values of the constants for TLC; the last two put modules that share no state side by side |
| `TSQueueProofs`, `ConnectionProofs`, `ConnectionHandshakeProofs`, `ConnectionFIFOProofs`, `ServerInterfaceProofs`, `ExamplesProofs`, `GameServerProofs`, `Game2DProofs` | theorems |

`FIFOQueue` is instantiated three times: by `TSQueue` (the deque refines the
abstract queue) and by `Connection` once per direction (the path from `Send`
at one end to `m_qMessagesIn` at the other refines it). `ServedConnection`
stands between `Connection` and `ServerInterface`: the server end of a
connection, with its peer, the network and all its handlers, implements it
(`ImplementsServed`, checked and proved), and the steps of `ServerInterface`
keep to it for every connection it holds (`ConnectionsServed`, proved). What
`ServerInterface` takes for granted of its connections is thus what
`Connection` shows.

Each module models its other neighbours by their contract: `Connection` treats
`m_qMessagesIn` as atomic, which `TSQueue` justifies; `ClientInterface` sees a
connection as its socket and the outstanding operation of its read chain; the
two games take from `Connection` that messages arrive in order until one side
is gone, and from `ServerInterface` what `MessageClient`, `MessageAllClients`
and `Update` do with a connection that is closed.

Operators commented *Mutated form* are deliberate errors that PROJECT.json
substitutes for the operator after them, to show that a property notices; no
specification uses them.

### TSQueue

`deqQueue`, `muxQueue`, `muxBlocking` are the members (a mutex is its holder).
`pc` says where a thread is, `ref` what the reference returned by
`front()`/`back()` designates. `put` and `got` are histories. A push is
`PushInsert` (insert under `muxQueue`) then `PushNotify` (take `muxBlocking`,
notify one, release both). `wait()` is `WaitCall`, `WaitTest`, `WaitLock`,
`WaitSleep`, `WaitAgain`; the window of queue.h:89-92 is the state `waitLock`.
A pop is `PopRef`, `PopCopy`, `PopErase`, one step per critical section and one
for the copy outside both. `front()` of an empty deque, a copy of an element
already erased and an erase on an empty deque set `ub`, after which nothing
more happens. The constant `Ops` says which operations the embedding program
calls.

`notify_one`, spurious wakeups and mutexes are those of the C++ standard
library (external). `count()` only reads and is left out. The lock that pops
take at the start of `is_empty()`/`front()` is held only within one step.

### Connection

The state has a value per end (`"client"`, `"server"`): `sock` for `m_socket`,
`rd` for the outstanding `async_read`, `wr` for the outstanding `async_write`s
(oldest first), `posted` for functions posted to the `io_context`, `out`,
`tmp`, `hsOut` for the members. `chan[s]` is the byte stream towards `s` in
frames: a handshake value, a header or a body. A step is one completion
handler, one posted function, one call of the application, or one event of
the network. A handler is taken together with the completion of its operation
(the frame is transmitted or consumed in the same step): between the two only
the other end could see a difference, and it sees a later transmission.

| Code | Actions |
|---|---|
| `ConnectToServer`, `ConnectToClient` (with the accept handler) | `ConnectToServer`, `ConnectToClient` |
| `ReadValidation`, `WriteValidation`, `scramble` | `ReadChallenge`, `ReadAnswer`, `WriteValidation`, `Answer` |
| `Send`, `Disconnect` | `Send` posts, `PostedSend` and `PostedClose` are the posted functions |
| `WriteHeader`, `WriteBody` | `WriteHeader`, `WriteBody`, `WriteNext`, `WriteError` |
| `ReadHeader`, `ReadBody`, `AddToIncomingMessageQueue` | `ReadHeader`, `ReadBody`, `ReadError` |
| `ClientIntefrace::Disconnect` | `Disconnect`, `StopContext` |

For `ServedConnection` the server end is mapped as follows: `valid` is the
outcome of `ReadAnswer`, `reading` what `rd["server"]` is for, `writing`
whether a function posted by `Send` or an `async_write` is outstanding,
`closing` whether a close is posted, `heard` the number of messages delivered.

Abstractions: a body is the id of the message it was built for (0: empty); a
header is `id` and `size`; all handshake values, headers and bodies are one
frame each, so a partly received frame is a frame not yet received. A read
that meets a frame of another kind sets `desync` and the run stops, except
`ReadAnswer`, for which eight bytes of a message header are simply a wrong
answer (`Garbage`). `hsOut` starts as `Garbage` on the client, where the code
sets it to 0; it is not read before it is assigned. `Scramble` is any function
on handshake values; the real one is an involution without fixed points, for
which TLC gets a swap of two values. A client's io thread that has run out of
work has ended, and what is posted then is lost (`IOAlive`).

### ServerInterface

`conns` is `m_deqConnections`; `sock`, `valid`, `reading`, `writing`,
`closing` are what a connection has outstanding; `calls[t]` is the stack of
`MessageAllClients` calls on thread `t`, each with its loop index, the index
it stops at and whom it has reached. `Update` is `UpdateCall`, `Pop`,
`OnMessage`, `UpdateCheck`, `UpdateReturn`; one turn of the loop of
`MessageAllClients` is `MessageNext` or `KickNext`. `KickClient` calls
`OnClientDisconnect` (history `told`) and removes nothing, because
`client.reset()` (server.h:108) empties its own parameter. `OnMessage` relays
the message to the others or answers its sender; `OnClientDisconnect` tells
all clients, either every time (`Announce = "always"`, the README's example)
or once per client (`"once"`). `halted` marks a data race (a `push_back` on
the container while the other thread is in the loop over it, server.h:84 and
138, or may be in the remove and erase of `KickClient`, 110: `KicksSender`)
and an uncaught exception of `remote_endpoint()` (server.h:70); the run
stops there. The two passes of `KickClient` over the container neither move
nor remove anything and are no steps of their own. `MessageClient(uint32_t, ...)` calls
`GetId()`, which `Connection` does not have, and cannot be instantiated.
`UpdateCall` waits for a message, or is called again: `MessagesHandled` takes
`Update(n, false)`, or a `wait()` that returns. That with `bWait` it may sleep on a
message is the finding of `TSQueueLostWakeup` and is not repeated here; the two
games, whose servers wait, have it as `MissWakeup`.
`Served(c)` is the instance of `ServedConnection` for connection `c`. Its
`WritesEnd` may leave other writes outstanding, which is why it does not have
to say how many there are. The destruction of a server is not modelled.

### Message

`body` and `header.size` are the members, `items` the history of what `<<` put
there and `>>` has not touched. `Insert` is `<<`, for a plain type or for a
string or vector with its length behind it; `Extract` is `>>`, which takes a
value off as whatever type it is given; `ExtractBeyond` is a `>>` that would
take more than there is. A `size_type` is `Word` bytes of `Base` values, so
that a length read from bytes that were no length is one of the outcomes.
Strings and vectors have the same layout and share one operator; their
elements are bytes. `aborted` is a failed `assert` or a read outside the body.

### ClientInterface

Two threads. The application's is at `pc`: `Connect` (with `ResolveFails`),
`StartThread`, `ConnectReturns`; then `NextMessage`, the test of the queue, and
`PopFront`, the pop that relies on it, between which the io thread may push;
then `Disconnect` in the steps between which the io thread can run
(`DisconnectPost`, `DisconnectStop`, `DisconnectJoin`, `DisconnectRelease`).
After it the client is `down`, where `Connect` or `Disconnect` may be called
again, or `gone`, as when it was the destructor that called it; its members are
destroyed without a further step. The io thread takes up one handler at a time
(`TakeUp`, then one of `IOHandler`), unless the `io_context` is stopped;
`RunReturns` is the end of `run()`, which also stops the context. Nothing
restarts it: a connection made after a `Disconnect` has a thread of its own,
but no handler of it runs. `Retry` is the loop of the 2d client around
`Connect`. `crash` is set by a `thrContext` that is assigned while joinable, as
`std::thread` then calls `std::terminate`; by a `Connect` that destroys a
connection with an operation outstanding; and by a pop of an empty queue, which
`ClientTypeOK` says does not happen.

### TicTacToe

`server` holds the members of `SampleServer` and the messages under way to
each client, `client` those of each `SampleClient` and where its loop is
(waiting, asking its user, over, left). The server's actions are the accept
handler with `OnClientConnect` (`AcceptPlayer`), `OnClientValidated`
(`ValidatePlayer`), a wrong answer with the `OnClientDisconnect` that
`KickClient` calls for it (`FailPlayer`: a symbol is given back, the board is
cleared, and the connection stays open and listed) and `Update` with one
`OnMessage` (`HandleMove`). What they
do and the callbacks they cause (`OnClientDisconnect` through
`MessageAllClients`) are functions on `server`. A loop over the clients is
applied to all of them at once (`SendEach`, `Entered`, `OnClientDisconnect` of a
set): what it does for one of them does not depend on the others, because
`symbols_left` is shuffled before its back is used, so that only how many of
each symbol it holds matters, and is kept. A client's actions are the
reaction to one message (`ReceiveMsg`), the user's choice of a square that its
own board shows free (`Place`) and its end (`Quit`). A symbol is the set of
its one bits, because `check_win` compares with `&`; the zero symbol of a
player `players[id]` makes is the empty set. `back()` of an empty
`symbols_left` ends the run (`end`), as does the server's `exit(1)`. The io
thread and the main thread use the board, the players and `m_deqConnections`
without a lock; a callback of one may therefore overlap one of the other, which
is undefined, and then the run stops as well (`Overlap`).

A server in `Update(-1, true)` and a client in `AwaitNextMessage` are in
`wait()`, which may sleep on a message that is there (`TSQueueLostWakeup`).
`MissWakeup` puts a consumer with something in its queue into `late`, where
nothing obliges it to go on; that it does all the same stands for the next push
or a spurious wakeup.

### GameServer

`clientRoster` and `GarbageIDs` are the members, `listed` is
`m_deqConnections`, `at` says where the main thread is between `Update` and
`OnMessage`: `TakeRequest`, `Flush` (one id of the loop over `GarbageIDs`),
`Register`, `SendRoster` (one entry of the loop over `clientRoster`), `Relay`,
`CheckSender`. Between two of them clients connect, validate, answer wrongly
(`FailGamer`) and vanish; any number may be in their handshake at a time. While
the main thread is in `OnMessage`, an accept or a `KickClient` on the io thread
may overlap it (`Overlap`), and between two messages it may sleep on a request
that is there (`MissWakeup`, `late`), as in tic-tac-toe. The clients call
`NextMessage` once a frame and never wait. A client is its table of players, split into ids it was told (`known`) and
entries `players[id]` made (`ghost`), its id and `bWaitingForConnection`;
`TakeMessage` is one turn of the loop in `Game::Update`, `Frame` and `Save`
send the position and the look. A `push_back` on `GarbageIDs` while it is
being flushed is lost at the `clear()` (`dropped`) or moves the vector under
the loop (`undefined`, which `Overlap` sets too). Looks and positions stay out: no step depends on them.

### Gui

The globals of raygui are `gui`; `control` is what the program keeps for each
control of its window (value, scroll index, text, edit mode); `input` is the
mouse and the keyboard of the frame. `NextFrame` draws a new input; then the
controls are called in order (`turn`), one action per kind of control:
buttons, toggles, check box, groups and tabs, toggle slider, combo and
dropdown box, color panel and bars, sliders, list view and scroll panel with
`GuiScrollBar`, value box, spinner, text box, text input box. They are the
controls of the raygui that the 2d client carries; it calls only one of them
itself, `GuiButton("Save")` (multiplayer_client.cpp:307). Between frames
the program locks, disables, and changes how many items there are. Geometry is
which part of which control the mouse is on, and a coordinate along it. A text
is a sequence of bytes of characters of one or two bytes; the cursor counts
bytes. A value box may read any integer from text that is beyond `int`, and a
backspace at the start of the text may see any byte before its buffer.

Simplified: keys and characters come only in frames in which the mouse is on no
control, and one of each a frame; locks and `GuiDisable` change between frames
only, where a program may set them between two calls; the scroll panel has its
vertical bar only; the edit mode of `GuiTextInputBox` is kept for each control,
where the code has one for all dialogs (raygui.h:3802), which makes no
difference as long as one is open, as its comment there demands.

### MCExamples and MCGame2D

`MCExamples` holds `Message`, `ClientInterface` and `TicTacToe`, `MCGame2D`
holds `GameServer` and `Gui`. They share no state: the first state chooses one
of them (`part`), and the others stay where they are, so that the states of a
run are the sum of the states of its parts, not the product.

## 3. Runs

| Run | Checks | Shows |
|---|---|---|
| `TSQueueWaiting` | `TypeOK`, `NoUndefinedBehaviour`, `ImplementsFIFO`, `PushWakesSleeper` | with one consumer, as in every use in the library, the split pop and two mutexes are an atomic FIFO queue and a sleeping consumer is woken |
| `TSQueueAllOps` | `PushReturns` | with all operations and two consumers, whatever undefined pops do, no push blocks |
| `TSQueueLostWakeup` | `EveryElementTaken` violated | a notification between `is_empty()` and the sleep is lost |
| `ConnectionTraffic` | `DeliveredAsSent`, `GenuineClientAccepted`, `AllDelivered` | without faults, with an echoing server, a client that waits is accepted and all messages arrive in order with their bodies |
| `ConnectionFaults` | `TypeOK`, `OneMessageWrite`, `WriterArmed`, `ReaderArmed`, `OnlyValidatedHeard`, `ImplementsFIFO`, `ImplementsServed`, `ClosureNoticed` | with every fault, an impatient client and a server that messages unvalidated connections, the chains keep their discipline, each direction is a FIFO channel, the server end is what a server takes it for, and the end of one side reaches the other |
| `ConnectionStaleBody` | `DeliveredAsSent` violated | a message without body is delivered with the body of the one before |
| `ConnectionFailedStays` | `FailedIsDisconnected` violated | a client that failed validation stays connected, unread |
| `ConnectionLeave` | `LeaveNoticed` violated | `Disconnect()` may stop the `io_context` before the close runs |
| `ServerUpdate` | `TypeOK`, `NoHandlerOutlivesConnection`, `AnnouncementEnds`, `AllReached`, `MessagesHandled` | with an application that announces a departure once, broadcasts reach everybody listed, nothing received is dropped |
| `ServerAnnounce` | `AnnouncementEnds` violated | the README's `OnClientDisconnect` and `MessageAllClients` call each other without end |
| `Examples` | `TypeOK`, `NoInvalidMove`, `BoardsAgree`, `OneMover`, `RightWinner`, `LastInFirstOut`, `QuietAfterDisconnect`, `DisconnectReturns`, `GameEnds` | `>>` gives back what `<<` put, last first; `Disconnect()` returns, however often the client is connected, and leaves nothing running; nothing is popped that is not there; a game of tic-tac-toe stays consistent and ends unless somebody leaves, answers wrongly or sleeps on a message, and leavers never make a move invalid |
| `Game2D` | `TypeOK`, `RosterShared`, `DepartureRemembered`, `PlayerKnowsItself`, `TextFits`, `OneEditing`, `DragEnds`, `GetsToPlay`, `DragExclusive`, `TypingKeepsWhole` | players know each other while others come and go, departures are passed on, everyone let in gets to play unless the server sleeps on a request; a drag excludes the other controls and ends, text boxes share one cursor safely and do not overflow |

The violated properties state what a comment, a log line or the README says;
PROJECT.json quotes them under `findings`.

### Bounds

* `TSQueue`: two producers with two elements each and one consumer; in `TSQueueAllOps` two consumers and one element per producer, which is enough for every pair of operations to meet, and for pops to find the deque emptied. Two elements are enough for the front to change under a pop and for an element to follow a notification; two producers for a push to land in every window of another push. The theorems hold for all producers and quotas.
* `Connection`: two handshake values; one or two messages per end, with and without body: two are needed for `Send` on a nonempty queue, for a body left from the message before, and for `WriteNext` to find work. `ConnectionTraffic` uses only messages with a body, since with both sizes the stale body (found by `ConnectionStaleBody`) would be everywhere. `ConnectionFaults` draws one challenge only: with an impatient client and two, nothing new happens and the space doubles.
* `ServerInterface`: two clients, two messages each, `MaxUpdate = 1`, and calls nested up to `MaxDepth = 5`, more than the clients can cause when departures are announced once (`AnnouncementEnds` bounds them by `MaxClients + 1`). `ServerAnnounce` goes one deeper than that bound. Two clients are needed for one to be kicked while another is being sent to.
* `Examples`: bodies up to 6 bytes of values of 1 and 2 bytes and lists of at most one element, with the byte values 0 and 2 in base 8: enough for a length to be read out of plain bytes, and for two values to lie on each other. Three calls of `Connect` that create a connection, in any mix of first calls, calls after a failure and calls after a `Disconnect`, and any number that fail to resolve: enough for a first connection to work, to be given up, and for two more to be made on the stopped context. Three clients for two seats, one of which may quit and one answer wrongly, and one consumer at a time asleep on a message (`MaxLeave`, `MaxWrong`, `MaxLate`, all 1), with five squares (two after the third client has connected). The five are a row and a diagonal that cross in one square; the player who begins can complete either, or be kept from both, until the squares run out. The other lines, and the other winner, are left to the theorem about `RightWinner`. A third client is there to be refused, or let in before the second is validated. What a wrong answer does to `NoInvalidMove` takes a fourth client, see section 5.
* `Game2D`: three clients, two of which may vanish at any time, and one that sends one frame, and each may answer wrongly: a departure must be noticed through somebody else's message, and a third must be there to be told. The windows hold one, two or three controls, chosen so that each kind meets a control it shares a global with; three coordinates (first, second, beyond the end), lists of one or three items with room for two, a text buffer of three bytes, characters of one and two bytes, numbers of one digit.

### Fairness

Weak fairness only. In `TSQueue`, a push that has begun goes on and a consumer
keeps calling (the loops of `Update` and of the clients); nobody has to push,
and a wakeup need not be spurious. In `Connection`, a connection attempt gets
an answer, the io threads run handlers that are ready (`io_context::run` does,
on the one thread of its own, which has nothing else to do), the echo loop
goes on and `Disconnect()` does not stop half way; sends, faults and leaving
are free. After `context.stop()` nothing of the client is fair, as nothing of
it runs. In `ServerInterface`, the main thread goes on (its `while` loop around
`Update`) and a callback on the io thread runs to its end; whether anything
arrives is up to the clients. In `ClientInterface`, a `Disconnect()` that has
begun goes on, a handler that was taken up ends, and `run()` returns once it
can; only the user decides to disconnect. Taking up a handler (`TakeUp`) is not
fair: an outstanding operation says nothing about whether the network will ever
complete it, and `DisconnectReturns` is about a silent server. It would also be
a weaker statement with it. In `TicTacToe` the consumers that do not sleep on a
message go on and a user whose turn it is moves: without the latter no game
ends. In `GameServer` the same holds of the server's main thread, and the
message loops of the clients go on (they run once per frame); whether a
handshake ends is up to the network. A consumer in `late` is not fair:
`GameEnds` and `GetsToPlay` make an exception of a sleep that never ends, which
the code allows (`TSQueueLostWakeup`), as `MessagesHandled` does by what it
takes `Update` to be. `Gui` has no liveness property: a frame
is one pass through the controls, and `DragEnds` says what must be true at its
end.

Deadlock is not checked where a system may come to rest: producers that are
done with a consumer asleep, connections with nothing to say. In
`TSQueueLostWakeup` a rest state is the counterexample itself, in the
others the liveness properties say which rests are wrong.

## 4. Proofs

Every theorem holds for all values of the constants under the assumptions of
its module, which are named there and evaluated by TLC in every run (disjoint
producers and consumers, natural bounds, a `Scramble` that maps handshake
values to handshake values, sizes of types that are not zero, bodies shorter
than the number of byte values, coordinates and counts that are an `int`).

**TSQueueProofs.** `TypeCorrect` uses `TypeInv`: `TypeOK` and that a consumer
within a pop holds a reference. `NeverUndefined`, `ImplementsAtomicQueue` and
`FirstInFirstOut` assume `SingleConsumer`: one consumer, which waits, tests and
pops at the front, as `Update`, `AwaitNextMessage` and `NextMessage` do.
Without it they are false (section 5). The invariant `QueueInv` adds to
`TypeInv` that a consumer which has seen an element can rely on it
(`ReadyOK`), and that between the halves of a pop the front still is the
element of its reference (`FrontRef`). The refinement follows step by step:
`PushInsert` maps to `Put`, `PopErase` to `Take`, all else stutters.

**ConnectionProofs.** `TypeCorrect`, `OneWriteAtATime` and `WriterStaysArmed`,
under all faults, early senders, broadcasts and echoes. `OneMessageWrite` is
not inductive alone: `Send` starts a write if the queue is empty, so one must
know that a nonempty queue on a socket not closed has a write outstanding. The
converse (`FrontOnly` on an empty queue) says that an empty one has none.
`WriteInv` is `TypeOK`, `OneMessageWrite` and `ArmedUntilClosed`, proved
action by action from a few lemmas about sequences of writes. After an error
the front stays in the queue, so that no later `Send` starts a write on the
closed socket.

`ConnectionImplementsServed`: the server end of
`Connection` implements `ServedConnection`. `ServedInv` adds `ClosesOnce` to
`WriteInv`: nothing is outstanding before the accept, and at most one close is
posted, none while a read is outstanding. Without it a second close could come
when `closing` is already false. Steps of the client and of the network
stutter, those of the server end are steps of the abstract connection.

**ConnectionHandshakeProofs.** `ValidatedBeforeHeard`: a server never hears a
client that has not answered its challenge. `HandshakeInv` says that the server
reads messages, or has delivered one, only once validated; that it reads an
answer only to a challenge of its own; that no handshake value is under way to
it before the client has read its challenge, and afterwards only the client's
answer; so that a validated client is one that has answered with the
scrambled challenge. `ReaderStaysArmed`: on an open socket whose handshake is
over, a read or a close is always outstanding. `ReaderInv` is the two
invariants with `ReaderArmed` for each end.

**ConnectionFIFOProofs.** `EachDirectionFIFO`: each direction of `Connection`
implements the FIFO queue, whatever the faults. A message given to `Send` is in
turn a posted function, an element of `m_qMessagesOut` of its sender, a header
in the stream and a message of the receiver. `Flow` says that along these four
places, from the last message delivered to the last one sent, the headers carry
the numbers of the calls to `Send` without a gap or an overlap (`Numbered`,
`FlowOf`); a front whose body write is outstanding has its header in the stream
already, and `Waiting` leaves it out. Two ends are open on purpose: what a
closed sender still had is lost, and so is what is posted to an io thread that
has ended (`IOAlive`), but nothing in between. A receiver takes a frame for a
header only if no handshake value is in the way, hence `StreamInv`: the
challenge comes first in the client's stream until it is read (`Greeting`), the
client's answer is written once, before it reads messages (`OneAnswer`), and
what an early client sends before its answer makes the validation fail, after
which that direction does not flow (`Flowing`). `Numbered` is stated with a
function from positions to numbers, of which each step adds or drops one value:
this is how the proof avoids induction on sequences.

`DeliveredWithBodies`: if no application builds a message without a body, every
message arrives with the body it was sent with, whatever the faults. The
hypothesis is the one the code needs: with empty messages the property is false
(`ConnectionStaleBody`). `EachDirectionFIFO` gives the headers; `BodyInv` adds
that every message there is (`MessagesBodied`: sent, posted, queued or
delivered) has its own body, and that in the stream a body follows the header
of its message (`Titled`, `Bodies`). Between the two there may be a handshake
value, as the write of an early client's header completes before its answer is
written, but never another header. The receiver therefore
reads a body into `m_msgTemporaryIn` only while its header is that message's.

**ServerInterfaceProofs.** `TypeCorrect`, `HandlersStayValid`,
`ConnectionsServed`, `BroadcastReachesAll` and `AnnouncingOnceEnds`. `ServerInv`
adds that every call on a stack stops at an index inside the container
(`CallsOK`; the container never shrinks), that `Update` is at a message of a
listed connection with room to count it (`UpdateOK`), and that a connection
with something outstanding, or with a message queued, is listed (`Kept`).
`NoHandlerOutlivesConnection` itself also counts the references in queued
messages; those disappear as messages are handled, hence the stronger `Kept`.
The proof rests on `KickClient` removing nothing: mended as its code intends,
it would free connections under their handlers (mutated form `KickErases`).
`ConnectionsServed` shows that every step keeps to `ServedConnection` for each
connection, together with `ConnectionImplementsServed` the two halves of the
composition of server and connection.
`BroadcastReachesAll` needs of each call under way, nested ones included, that
it has sent to every connection it came past, unless that is the one to ignore
or has closed (`StacksSent`), and that no connection is accepted twice and so
opens again behind a call (`AcceptedOnce`). `AnnouncingOnceEnds` bounds the
stack of nested calls: each but the first was made for a client not announced
before (`StacksBounded`). Its assumption is the application the run
`ServerUpdate` checks; without it `ServerAnnounce` shows the opposite.

**ExamplesProofs.** `ClientTypeCorrect`, which includes that no pop finds the
queue empty, and `ClientQuiet`: nothing touches a connection given up by
`Disconnect()` or replaced by a later `Connect`, nor the queue of a client that
is down. `ClientInv` is `ClientTypeOK` with: the queue holds no more than was
received (`Received`); what the test has seen is there until it is popped
(`Tested`); a handler is in progress only on a running thread (`OnThread`), and
past the join there is none (`Joined`); the context stays stopped after a
`Disconnect()` (`Stopped`). A later `Connect()` starts a thread again, so `Joined` does
not carry over to it. What does is that on a stopped context no handler is
taken up: a connection given up either has no operation that may complete, or
the context is stopped with no handler in progress (`Unheard`), and a close
that may still run is that of the connection held (`Closes`).

`MessageTypeCorrect` and `LastIn`: a `>>` of the type that
was inserted last gives back that value and leaves the body as it was before,
for all types, values and lengths. `MessageInv` adds `Stacked` to the types:
each item's bytes lie on the body it was put on, and what the next item lies
on, or the body itself, ends there. `Peel` is the arithmetic of taking one
value with its trailing length off again.

`NeverInvalid`, `BoardsStayEqual`, `OneMoves` and `WinnerIsRight` are about
tic-tac-toe with any number of players, leavers and squares to choose from.
`NeverInvalid` is about clients that all answer their challenge rightly
(`wrong = {}`), the others about a game that is `Undisturbed`: in addition nobody
has left. Without these conditions they are false (section 5). All four follow
from one invariant, `TicTacToeInv`. While the game is undisturbed there is
either a `Lobby`, where nothing has been sent and at most one player has a
seat, or a `Game`: two clients have the two symbols (`Seated`), what a client
has together with what is under way to it is the board and the symbol that the
server has for it (`Informed`), and the turn is in one place (`Turns`): in the
last message to the one whose turn it is, with the client, or in its move on
the way back, whose square is free on the server's board (`MoveOf`).
`BoardsAgree` alone is not inductive, since a client moves on its own board and
only `OnTurn`, by which no message is left for it then, makes that board the
server's. `NoInvalidMove` has to hold when players leave as well. A `Game`
survives their leaving for those who stay, until the server handles the next
move: that one finds a connection closed, by `Ends`, and `OnClientDisconnect`
clears the board, on which every move is valid, and which stays empty as long as somebody
has left. Hence the conjunct that a board that is not empty is that of a `Game`. `WinnerIs` is the lemma that the
only line a move can complete is one of its own symbol; `WinsEqual` says that
for the symbols in use `&` compares. `ExamplesTypeCorrect` is the types of the
three parts side by side.

**GameServerProofs.** `GameTypeCorrect`, `PlayerKeeps`, `RosterIsShared` and
`DeparturesRemembered`. A client that plays
is in its own table under its own id, and nothing removes it while it is
connected. A client loses its own entry only to a removal with its id, and
`GameInv` follows ids of departed players from `KickClient` through
`GarbageIDs` and the loop that flushes it (`Removals`) to the messages under
way (`NotesRight`): they are ids of closed connections all along. A client with
a wrong answer is not in the roster, so its `KickClient` changes nothing there
(`FailInv`), and a sleep or an overlap moves nothing (`Unmoved`). `Met` says
that only accepted connections are listed or send requests, `OwnId` what a
client has before it stops waiting.

Neither `RosterShared` nor `DepartureRemembered` is inductive. In the middle of
a registration the roster is not shared, so `RosterKnown` says for each pair
whether the loop over the roster still has it before it; that an addition is
not undone by a late removal needs `RosterStays`: nothing waiting or under way
removes a player of the roster. For departures, that a client knows a player
*now* is too weak, as an addition may be under way too: `LeftRemembered` is
about what remains when the client has taken the whole stream
(`Remains`; `RemainsAppend` and `RemainsTail` say how it changes by a message),
and places the loop over `GarbageIDs` in it. That `clear()` may take a
departure away is in both: `dropped`, the ids of the finding in section 5, is
the exception that `DepartureRemembered` makes.

**Game2DProofs.** `GuiTypeCorrect`, `TextsFit`, `OneIsEdited`, `DragsEnd`,
`DragsExclude` and `TypingIsClean`, for any window, number of items, size of the text buffer and
coordinates, and `Game2DTypeCorrect` for the server and the controls side by side.
`OneEditing` and `DragEnds` speak of the end of a frame; the controls are
called one by one, and in between neither holds. `GuiInv` says what does. After
a click on a box two may be edited, but only if the clicked one has been called
and the other has not, whose call ends its editing (`OneOrTaken`); among those
called so far only the clicked one is edited (`TakenOver`). With the button up
a drag is still on only if no control called so far has a slider (`Ending`).
`Called` is what these proofs need to know of a call: which globals it may
change, that a box begins and ends its editing as `Ended` says, and what it
leaves alone during a drag. One lemma per kind of control shows that it is
called that way; for the text boxes, `KeyedFits` and the lemmas before it
follow a text through an insertion, an erasure by a wrong size and every move.

For `TypingIsClean` it is not enough that texts are of whole characters
(`TextsWhole`, kept by `InsertWhole` and `MovesWhole`). All boxes share the
cursor, so a call moves it for a box that is called later. `CursorRight` names
what may be wrong with it: it is between characters of the text that is edited,
or where a dialog put it behind its stars, or a click on another box has moved
it, and that click ends the editing of this one before it types (`Leaving`).

Only model-checked: liveness (all `~>` and `[]<>` properties), which is out of
the prover's reach.

## 5. Seen while modelling

Besides the findings that runs demonstrate:

* `header.size` is documented as the "size of the ertire message including this header" (message.h:18), but `<<` sets it to the size of the body, and `ReadHeader` reads a body of that size (connection.h:244-247).
* The handler of `ReadHeader` captures the local `success` by reference and writes to it when the read fails (connection.h:238, 257), after `ReadHeader` has returned: a byte of whatever is on the stack by then becomes 0. What that is depends on the compiler and on asio, so `ReadError` leaves it out.
* `pop_back` returns the element seen under one lock and erases another if a `push_back` comes between (queue.h:55-57): an element is lost. Nothing in the library calls it.
* Two consumers may both see one element; the second pop is undefined. The library has one consumer per queue.
* `m_deqConnections` is called "active validated connections" (server.h:201) but connections enter it before validation (server.h:84), so `MessageAllClients` also sends to clients whose handshake is pending or failed.
* A client that is refused prints an error (connection.h:192) and leaves the socket open, so `IsConnected()` (client.h:97) stays true.
* The ping client may send before its challenge has arrived (simpleClient.cpp:32); its first message is then taken for the answer, and validation fails (connection.h:128).
* An echoed message that carries a stale body has `header.size` 0 but a body that is not empty: `WriteHeader` tests the body (connection.h:291), `ReadHeader` the size, so the stream loses its framing.
* `m_deqConnections` only grows. The io thread appends to it (server.h:84) while the main thread may be in the loop of `MessageAllClients` (138) or in the remove and erase of `KickClient` (110).
* `IsConnected()` is called from the application thread while the io thread may close the socket; the models read `sock` atomically.
* `m_asioContext` is declared after `m_deqConnections` (server.h:202-204) and is destroyed before the sockets that refer to it.

In the examples:

* `OnClientDisconnect` of the 2d server pushes to `GarbageIDs` from within the loop over it (multiplayer_server.cpp:66-76): the push may move the vector under the loop, and the `clear()` after it takes the departure away, so the others are never told. It erases from `clientRoster` within the loop over that as well (106-115).
* A position of a player that was removed makes it again: `players[id]` (multiplayer_client.cpp:164) creates an entry, with id 0, that no message removes.
* The client that retries `Connect` in a loop assigns a joinable `thrContext` the second time (client.h:68), which is `std::terminate`.
* A wrong answer (connection.h:137-141) calls `OnClientDisconnect` for a client that tic-tac-toe never seated (server.cpp:32-41): the running game's board is cleared, and the symbol 0 of `players[id]` is given back, while the client stays listed. Somebody who comes after it gets the symbol 0; the two players go on with boards of their own, and one of them may then move to a square that is taken on the server's: it exits. With four clients, two squares and `NoInvalidMove` without its condition TLC finds this in 14 steps; three clients do not suffice.
* The callbacks of both games that a handshake causes run on the io thread, `OnMessage` on the main thread; `board`, `players`, `symbols_left`, `clientRoster` and `GarbageIDs` have no lock.
* Both game servers and the tic-tac-toe clients wait for messages, so that the lost wakeup may leave a move or a registration in the queue until the next one comes, which there may never be: in tic-tac-toe all the others wait for it.
* After a `Disconnect()` the `io_context` stays stopped, so a second `Connect` makes a connection whose handlers never run.
* A third tic-tac-toe client that is let in before the second is validated finds `symbols_left` empty at `back()`. `started` becomes true even when telling the players their symbols finds that one of them has left (server.cpp:59-65), `round` is not reset when a player leaves, and a client that is listed without a seat gets the symbol 0 from `players[id]`, which goes back to `symbols_left` when it leaves.
* A tic-tac-toe client blocked in `AwaitNextMessage` does not notice that the server has gone; its message about it is never printed. The ping client joins a thread that never ends.

In raygui:

* Backspace and Delete end the text by the size of the character typed in the same frame instead of the one erased (raygui.h:2562, 2585-2586), and Backspace moves the cursor by it: a character of two bytes loses one, or leaves one. `TypingKeepsWhole` says that only they, clicks, and the stale cursor of a dialog (below) do so.
* Backspace with the cursor at 0 moves the text to before its buffer when the byte before it is not 0 (2577-2580). A click puts the cursor on any byte (2631-2661).
* A text box drawn before another one resets the cursor that it uses. `GuiTextInputBox` with its secret view sets the cursor to 16, behind the text, and closing the dialog leaves the cursor as it is, so that the next text box starts from a stale one (2455); a text of more than 16 bytes that is then edited is entered in its middle, which may be inside a character. The buffer of the run is too small for that, the exception in `TypingKeepsWhole` states it for every size.
* A button drawn after the slider that ends a drag answers in the same frame, though a comment says that nothing but the dragged slider processes inputs (1366). `GuiToggleSlider` (2143) and `GuiScrollPanel` (1851) do not look at `guiSliderDragging` at all.
* A slider that is dragged and then no longer drawn leaves the others dead until some slider is drawn with the button up.
* The wheel over the scroll bar of a list moves the list and is undone by the bar (3262, 5234).

## 6. Plan

Done: the library with all five of its headers, the protocols and servers of
the two game examples, the controls of raygui; refinements from the deque and
from each direction of a connection to a FIFO queue, and from a connection to
what a server knows of it; theorems for the queue, the connection, the server,
the client, messages, both games and raygui.

Left: `scramble` as arithmetic on 64 bits, and that it has no fixed point.

### Not modelled

* Drawing, styles, fonts and icons of raygui and of the 2d client, and what only draws or computes a rectangle (panels, group boxes, labels, progress bars, `GuiGrid`, `GuiMessageBox`, the HSV pickers): they hold no state that another call depends on, or repeat a control that is modelled.
* Physics of the 2d client (positions, velocities, collisions with other players and the border): arithmetic on floats. Read, not modelled: at the border of x `UpdatePlayerPeramiterCollisions` turns the velocity along y, and the other way round (multiplayer_common.hpp:131-155).
* Console output and input, the text menus of tic-tac-toe.
* The ping example beyond what `Connection` has of it (a client that does not wait, a server that echoes).
* The destruction of a server; `MessageClient` by id, which does not compile when used.
* The Makefile.
