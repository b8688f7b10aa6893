------------------------------ MODULE MCTrees ------------------------------
(* DirState and StatCache for TLC: a behaviour is one of either. *)
EXTENDS DirState, StatCache, TLC

CONSTANTS Parts, p1, p2, p3, t1, t2, t3, m1, m2, h1, c1, c2

\* One tree object per process, and two of them in one process.
OneEach == (t1 :> p1) @@ (t2 :> p2) @@ (t3 :> p3)
TwoInOne == (t1 :> p1) @@ (t2 :> p1) @@ (t3 :> p2)
Both == {OneEach, TwoInOne}
Symmetric == Permutations(Mods) \cup Permutations(Contents)

VARIABLE focus

TreesInit ==
  /\ DInit /\ SInit /\ focus \in Parts
  /\ focus # "dirstate" => owner = TwoInOne
  /\ focus # "hashes" => disk.content = c1
DirStateMoves == focus = "dirstate" /\ DNext /\ UNCHANGED <<focus, svars>>
HashesMove == focus = "hashes" /\ SNext /\ UNCHANGED <<focus, dvars>>
TreesSpec == TreesInit /\ [][DirStateMoves \/ HashesMove]_<<focus, dvars, svars>>
=============================================================================
