----------------------------- MODULE MCContents -----------------------------
(* ChkMap and Transform for TLC: a behaviour is one of either. *)
EXTENDS ChkMap, Transform, TLC

CONSTANTS Parts, k1, k2, k3, k4

\* Search keys that need up to three levels of nodes.
Hashes == k1 :> <<1, 1, 1, 1>> @@ k2 :> <<1, 1, 2, 1>> @@ k3 :> <<1, 2, 1, 1>> @@ k4 :> <<2, 1, 1, 1>>
Written == k1 :> <<1, 1>> @@ k2 :> <<1, 2>> @@ k3 :> <<2, 1>> @@ k4 :> <<2, 2>>
BothWays == {<<k1, k2, k3, k4>>, <<k4, k3, k2, k1>>}
AllOrders == {o \in [1 .. 4 -> {k1, k2, k3, k4}] : \A i, j \in 1 .. 4 : o[i] = o[j] => i = j}

\* A directory with a file in it and another directory beside it.
Place(up, name, kind, f) == [up |-> up, name |-> <<name>>, kind |-> kind, file |-> f]
Small == {<<Place(0, "a", "directory", 1), Place(1, "b", "file", 2), Place(0, "b", "directory", 3)>>}
TwoNames == {<<"a">>, <<"b">>}

VARIABLE focus

ContentsInit == ChkInit /\ TransformInit /\ focus \in Parts
ChkMoves == focus = "chk" /\ ChkNext /\ UNCHANGED <<focus, tvars>>
TransformMoves == focus = "transform" /\ TransformNext /\ UNCHANGED <<focus, chkvars>>
ContentsSpec == ContentsInit /\ [][ChkMoves \/ TransformMoves]_<<focus, chkvars, tvars>>
=============================================================================
