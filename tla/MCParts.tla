------------------------------ MODULE MCParts ------------------------------
(* BoundBranch, AutopackPlan, ConfigStore, SmartClient, KnownGraph,         *)
(* MergeSort and the tokens of LockDir for TLC: a behaviour is one of one   *)
(* of them.                                                                 *)
EXTENDS BoundBranch, AutopackPlan, ConfigStore, SmartClient, KnownGraph, MergeSort, TLC

CONSTANTS Parts, trunk, work, side, t1, t2, p1, p2, p3, o1, o2, u1, u2, v1, v2, c1, c2, k1, k2, k3

\* A tree on each of two branches, both on one, and one on the master.
OnTwo == (t1 :> work) @@ (t2 :> side)
OnOne == (t1 :> work) @@ (t2 :> work)
OnMaster == (t1 :> work) @@ (t2 :> trunk)
Apart == {OnTwo, OnMaster}
Together == {OnOne}

\* Sequences of different members of S, n at most.
Lists(S, n) ==
  {l \in UNION {[1 .. i -> S] : i \in 0 .. n} : IsInjective(l)}
\* All graphs of three revisions and a ghost, and those of five in an order of age.
OfThree == [{1, 2, 5} -> Lists({1, 2, 5, 9}, 2)]
OfFive ==
  {<<<<>>, b, c, d, e>> : b \in Lists({1}, 1), c \in Lists({1, 2}, 2),
     d \in Lists(1 .. 3, 3), e \in Lists(1 .. 4, 3)}
Graphs == OfThree \cup OfFive

VARIABLES
  focus,
  lockdir, held, junk, tmp, lockpc, op, result, lockseen, tries, nonce, lockHeld, viaToken, mode, issued

lockvars ==
  <<lockdir, held, junk, tmp, lockpc, op, result, lockseen, tries, nonce, lockHeld, viaToken, mode, issued>>

\* Stealers that share locks by token, each on a machine of its own; all the
\* machines are called localhost.
LockDirs == {p1, p2, p3}
Tokens ==
  INSTANCE LockDir WITH
    Procs <- LockDirs, Machine <- [p \in LockDirs |-> p],
    HostName <- [p \in LockDirs |-> "localhost"], LocalHost <- "localhost", Stealers <- LockDirs,
    Users <- {}, CarefulUsers <- TRUE, Mortals <- {p1}, TornKinds <- {},
    UseTokens <- TRUE, BuggyRename <- TRUE, MaxTries <- 1, pc <- lockpc, seen <- lockseen

PartsInit ==
  /\ focus \in Parts
  /\ BInit /\ Init /\ ConfInit /\ SmartInit
  /\ focus # "branches" => \A br \in Branches : ~bound[br] /\ home = CHOOSE l \in Layouts : TRUE
  /\ focus # "config" => ~guarded
  /\ focus # "smart" => newest = 3
  /\ focus # "graph" => known = {} /\ parent_keys = [k \in Keys |-> {}]
  /\ focus # "revnos" => lineage = CHOOSE h \in Lineages : TRUE
  /\ KInit /\ MergeInit
  /\ Tokens!Init /\ (focus # "tokens" => lockdir)

BranchesMove ==
  focus = "branches" /\ BNext /\ UNCHANGED <<focus, vars, confvars, smartvars, graphvars, mergevars, lockvars>>
AutopackMoves ==
  focus = "autopack" /\ Next /\ UNCHANGED <<focus, bvars, confvars, smartvars, graphvars, mergevars, lockvars>>
ConfigMoves ==
  focus = "config" /\ ConfNext /\ UNCHANGED <<focus, bvars, vars, smartvars, graphvars, mergevars, lockvars>>
SmartMoves ==
  focus = "smart" /\ SmartNext /\ UNCHANGED <<focus, bvars, vars, confvars, graphvars, mergevars, lockvars>>
GraphMoves ==
  focus = "graph" /\ KnownGraphNext /\ UNCHANGED <<focus, bvars, vars, confvars, smartvars, mergevars, lockvars>>
SortMoves ==
  focus = "revnos" /\ MergeNext /\ UNCHANGED <<focus, bvars, vars, confvars, smartvars, graphvars, lockvars>>
TokensMove ==
  /\ focus = "tokens" /\ Tokens!Next /\ Tokens!SoleReleaser'
  /\ UNCHANGED <<focus, bvars, vars, confvars, smartvars, graphvars, mergevars>>
\* The bound on calls is reached, and nothing is under way.
SmartRests ==
  /\ focus = "smart" /\ TotalCalls = MaxRequests /\ \A c \in Clients : at[c] = "idle"
  /\ UNCHANGED <<focus, bvars, vars, confvars, smartvars, graphvars, mergevars, lockvars>>

PartsNext ==
  BranchesMove \/ AutopackMoves \/ ConfigMoves \/ SmartMoves \/ SmartRests \/ GraphMoves
  \/ SortMoves \/ TokensMove
PartsSpec ==
  PartsInit /\ [][PartsNext]_<<focus, bvars, vars, confvars, smartvars, graphvars, mergevars, lockvars>>

(* Whoever has the lock at once bears one token, that of the lock in place,   *)
(* when all that is known of other holders is a host name that says nothing   *)
(* (is_lock_holder_known_dead), locks stay behind to be claimed by any bearer *)
(* of their token (validate_token), and no bearer takes a lock off the disk   *)
(* that others still use.                                                     *)
TokensAreShared == focus = "tokens" => Tokens!SharedByToken
=============================================================================
