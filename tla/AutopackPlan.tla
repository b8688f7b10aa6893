---------------------------- MODULE AutopackPlan ----------------------------
(***************************************************************************)
(* How autopack keeps the number of packs small: _max_pack_count,          *)
(* pack_distribution, plan_autopack_combinations and _do_autopack of       *)
(* bzrlib/repofmt/pack_repo.py.  The state is a repository seen as the     *)
(* revision counts of its packs, and the local variables of a plan in the  *)
(* making; every commit adds a pack and plans at once, as                  *)
(* _commit_write_group does.  One action is one turn of a planning loop.   *)
(***************************************************************************)
EXTENDS Integers, Sequences

CONSTANTS
  Pushes,    \* how many revisions a commit or push may bring
  MaxRevs,   \* bound: revisions in the repository
  MaxBlanks  \* bound: packs without revisions

ASSUME PlanAssumption ==
  Pushes \subseteq Nat \ {0} /\ MaxRevs \in Nat /\ MaxBlanks \in Nat

VARIABLES
  packs,  \* the revision counts of the packs that have revisions, largest first
  blanks, \* the number of packs without revisions
  pc,     \* "idle", "plan" or "consume"
  todo,   \* existing_packs not looked at yet
  dist,   \* pack_distribution
  kept,   \* the packs that stay as they are
  moved,  \* the packs of all pack_operations
  opRevs, \* revision count of the last of pack_operations
  rest    \* next_pack_rev_count in the inner loop

vars == <<packs, blanks, pc, todo, dist, kept, moved, opRevs, rest>>

-----------------------------------------------------------------------------
(* Pure parts *)

\* The sum of a sequence of revision counts.
TotalRevs(s) ==
  LET Upto[i \in 0 .. Len(s)] == IF i = 0 THEN 0 ELSE Upto[i - 1] + s[i]
  IN Upto[Len(s)]

\* The decimal digits of n, from the last: their sum, and one pack of 10^e for each
\* unit of digit e, the largest first.
DigitSum[n \in 0 .. MaxRevs] == IF n = 0 THEN 0 ELSE DigitSum[n \div 10] + (n % 10)
Sizes[n \in 0 .. MaxRevs] ==
  IF n = 0 THEN <<>>
  ELSE LET tens == Sizes[n \div 10] IN
       [i \in 1 .. Len(tens) + (n % 10) |-> IF i <= Len(tens) THEN 10 * tens[i] ELSE 1]

MaxPackCount(n) == IF n = 0 THEN 1 ELSE DigitSum[n]
PackDistribution(n) == IF n = 0 THEN <<0>> ELSE Sizes[n]

\* existing_packs.sort(reverse=True), one pack at a time.
Place(s, n) ==
  CHOOSE p \in 1 .. Len(s) + 1 : \A i \in 1 .. Len(s) : s[i] >= n <=> i < p
Insert(s, n) ==
  [i \in 1 .. Len(s) + 1 |-> CASE i < Place(s, n) -> s[i]
                              [] i = Place(s, n) -> n
                              [] i > Place(s, n) -> s[i - 1]]

-----------------------------------------------------------------------------
(* Committing and planning *)

Init ==
  /\ packs = <<>> /\ blanks = 0 /\ pc = "idle"
  /\ todo = <<>> /\ dist = <<>> /\ kept = <<>> /\ moved = <<>>
  /\ opRevs = 0 /\ rest = 0

\* _do_autopack, up to the planning loop.  With no more packs that have revisions
\* than there are packs in the distribution there is nothing to plan.
MutLateAutopack(s, b) ==
  IF MaxPackCount(TotalRevs(s)) + 1 >= Len(s) + b \/ Len(s) <= Len(PackDistribution(TotalRevs(s)))
  THEN UNCHANGED <<pc, todo, dist>>
  ELSE pc' = "plan" /\ todo' = s /\ dist' = PackDistribution(TotalRevs(s))
Autopack(s, b) ==
  LET total == TotalRevs(s) IN
  IF MaxPackCount(total) >= Len(s) + b \/ Len(s) <= Len(PackDistribution(total))
  THEN UNCHANGED <<pc, todo, dist>>
  ELSE pc' = "plan" /\ todo' = s /\ dist' = PackDistribution(total)

Commit(k) ==
  /\ pc = "idle" /\ TotalRevs(packs) + k <= MaxRevs
  /\ packs' = Insert(packs, k)
  /\ Autopack(packs', blanks)
  /\ UNCHANGED <<blanks, kept, moved, opRevs, rest>>

\* sign-my-commits and the like: a pack without revisions, which is left alone.
Sign ==
  /\ pc = "idle" /\ blanks < MaxBlanks
  /\ blanks' = blanks + 1
  /\ Autopack(packs, blanks')
  /\ UNCHANGED <<packs, kept, moved, opRevs, rest>>

\* A pack at least as large as the head of the distribution stays ...
KeepPack ==
  /\ pc = "plan" /\ todo # <<>> /\ dist # <<>>
  /\ Head(todo) >= Head(dist)
  /\ rest' = Head(todo) /\ pc' = "consume"
  /\ kept' = Append(kept, Head(todo)) /\ todo' = Tail(todo)
  /\ UNCHANGED <<packs, blanks, dist, moved, opRevs>>

\* ... and its revisions are taken off the distribution.
Consume ==
  /\ pc = "consume" /\ dist # <<>>
  /\ \/ /\ rest >= Head(dist)
        /\ rest' = rest - Head(dist) /\ dist' = Tail(dist)
     \/ /\ rest < Head(dist)
        /\ rest' = 0 /\ dist' = <<Head(dist) - rest>> \o Tail(dist)
  /\ pc' = IF rest' = 0 THEN "plan" ELSE "consume"
  /\ UNCHANGED <<packs, blanks, todo, kept, moved, opRevs>>

\* A smaller pack joins the pack operation for that position.
MovePack ==
  /\ pc = "plan" /\ todo # <<>> /\ dist # <<>>
  /\ Head(todo) < Head(dist)
  /\ moved' = Append(moved, Head(todo)) /\ todo' = Tail(todo)
  /\ \/ /\ opRevs + Head(todo) >= Head(dist)
        /\ opRevs' = 0 /\ dist' = Tail(dist)
     \/ /\ opRevs + Head(todo) < Head(dist)
        /\ opRevs' = opRevs + Head(todo) /\ UNCHANGED dist
  /\ UNCHANGED <<packs, blanks, pc, kept, rest>>

\* All pack operations become one, and it is executed.
Execute ==
  /\ pc = "plan" /\ todo = <<>>
  /\ packs' = IF moved = <<>> THEN packs ELSE Insert(kept, TotalRevs(moved))
  /\ pc' = "idle" /\ dist' = <<>> /\ kept' = <<>> /\ moved' = <<>> /\ opRevs' = 0
  /\ UNCHANGED <<blanks, todo, rest>>

\* pack(): a user has everything packed into one.
PackAll ==
  /\ pc = "idle" /\ packs # <<>>
  /\ packs' = <<TotalRevs(packs)>>
  /\ UNCHANGED <<blanks, pc, todo, dist, kept, moved, opRevs, rest>>

Next == (\E k \in Pushes : Commit(k)) \/ Sign \/ KeepPack \/ Consume \/ MovePack \/ Execute \/ PackAll

Spec == Init /\ [][Next]_vars

-----------------------------------------------------------------------------
(* Properties *)

(* What autopack is for: between commits there are no more packs with         *)
(* revisions than the digit sum of the number of revisions, so that their     *)
(* number grows with the logarithm of the repository's size.                  *)
PackCountBounded == pc = "idle" => Len(packs) <= MaxPackCount(TotalRevs(packs))
=============================================================================
