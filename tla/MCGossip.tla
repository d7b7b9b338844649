------------------------------ MODULE MCGossip ------------------------------
(***************************************************************************)
(* Constants for checking Gossip with TLC.                                 *)
(***************************************************************************)
EXTENDS Gossip, TLC

CONSTANTS n1, n2, n3

\* n2 is started with n1 as its seed.
OneSeed == [n \in Node |-> IF n = n2 THEN {n1} ELSE {}]

\* n1 has two rounds and then, as another process, only answers; n3 is gone.
Rounds == (n1 :> <<2, 0>>) @@ (n2 :> <<1>>) @@ (n3 :> << >>)

\* n2 knows n1, then a producer without rounds, and n3, the seed's row and n3 silent.
\* n1 has been given a new database, and since died after it had registered
\* n3, now with generation 2, and before it merged n3's table.
Rows1 == Host(n3) :> Alive(2)
Rows2 == (Key(n1) :> [status |-> "dead", generation |-> 0])
           @@ (Host(n1) :> Alive(0)) @@ (Host(n3) :> Suspected(Alive(1)))
OldTables == (n1 :> Rows1) @@ (n2 :> Rows2) @@ (n3 :> NoPlan)

OldGenerations == (n1 :> 0) @@ (n2 :> 1) @@ (n3 :> 2)

\* Only the node that is gone is ever silent for too long.
SilentRows == {Host(n3)}

=============================================================================
