---------------------------- MODULE MCConnection ----------------------------
(***************************************************************************)
(* Instances of Connection for TLC.                                        *)
(***************************************************************************)
EXTENDS Connection, TLC

\* A scramble() without fixed points, as the real one is.
CONSTANTS n1, n2
Swap == (n1 :> n2) @@ (n2 :> n1)

\* Messages each end may send.
Two == [s \in Side |-> 2]
One == [s \in Side |-> 1]
ClientTwo == [s \in Side |-> IF s = "client" THEN 2 ELSE 1]

=============================================================================
