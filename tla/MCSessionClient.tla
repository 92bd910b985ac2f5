-------------------------- MODULE MCSessionClient --------------------------
(* Every two operations, at once or one after the other; calls are          *)
(* interchangeable, so in one order. A call stores at most two rows, on top *)
(* of the one there may be.                                                 *)
EXTENDS SessionClient

CONSTANTS c1, c2

Order == <<"request", "restore", "logIn", "signUp", "logOut", "logoutAll">>

Pairs == {m \in [{c1, c2} -> Kinds] :
             \E i, j \in 1..6 : i <= j /\ m[c1] = Order[i] /\ m[c2] = Order[j]}

=============================================================================
