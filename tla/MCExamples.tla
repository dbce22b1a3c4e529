----------------------------- MODULE MCExamples -----------------------------
(***************************************************************************)
(* Parts that share no state, checked side by side: a behaviour is one of  *)
(* the part it starts with, and the others stay in their initial state.    *)
(***************************************************************************)
EXTENDS Message, ClientInterface, TicTacToe

VARIABLE part

vars == <<messageVars, clientVars, tttVars, part>>

Init ==
  /\ MessageInit /\ ClientInit /\ TicTacToeInit
  /\ part \in {"message", "client", "tictactoe"}

Next ==
  \/ part = "message" /\ MessageNext /\ UNCHANGED <<clientVars, tttVars, part>>
  \/ part = "client" /\ ClientNext /\ UNCHANGED <<messageVars, tttVars, part>>
  \/ part = "tictactoe" /\ TicTacToeNext /\ UNCHANGED <<messageVars, clientVars, part>>

\* In a part that is not chosen nothing that is fair is ever enabled.
Spec == Init /\ [][Next]_vars /\ ClientFairness /\ TicTacToeFairness

\* The types of the three, and that no queue is popped empty.
TypeOK == MessageTypeOK /\ ClientTypeOK /\ TicTacToeTypeOK

\* Five squares hold a row and a diagonal that cross; a third client gets
\* two, enough to see what its coming does to a game.
SquaresFor ==
  [n \in 0 .. 3 |-> IF n = 3 THEN {<<0, 0>>, <<1, 0>>}
                    ELSE {<<0, 0>>, <<1, 0>>, <<2, 0>>, <<1, 1>>, <<0, 2>>}]
=============================================================================
