---------------------------- MODULE BranchProofs ----------------------------
(***************************************************************************)
(* Proofs about BoundBranch: for any number of branches, users, calls and  *)
(* failures, what a branch or a tree refers to is in its repository, what  *)
(* was committed to the master is in the master's, tips only move as the   *)
(* call that moves them may, and without failures no local work is lost.   *)
(* And about ConfigStore, the files that branches and users have their     *)
(* options in: a save changes only what the process that saves has set or  *)
(* removed.  And about SmartClient, through which a branch on a server is  *)
(* used: which requests may be carried out twice, and that a client which  *)
(* believes to have a lock has it.                                         *)
(***************************************************************************)
EXTENDS BoundBranch, ConfigStore, SmartClient, Induction, SequenceTheorems

-----------------------------------------------------------------------------
(* The revision graph *)

\* Revisions come after their parents.
ParentsFirst(par) ==
  /\ par \in Seq(Seq(Nat))
  /\ \A r \in 1 .. Len(par) : \A p \in Range(par[r]) : p \in 0 .. r - 1

\* One step of the recursion in AncestorsIn, and its solutions up to n.
AncestorsBody(par, g, r) == IF r = Null THEN {} ELSE {r} \cup UNION {g[p] : p \in Range(par[r])}
Solves(par, n, g) == g = [r \in 0 .. n |-> AncestorsBody(par, g, r)]

(* The recursion in AncestorsIn has a solution, as parents come first.        *)
LEMMA SolutionExists ==
  ASSUME NEW par, ParentsFirst(par)
  PROVE  \E g : Solves(par, Len(par), g)
<1> DEFINE S == {n \in Nat : n <= Len(par) => \E g : Solves(par, n, g)}
<1>0. Len(par) \in Nat /\ Null = 0
  BY DEF ParentsFirst, Null
<1>1. 0 \in S
  <2> DEFINE g == [r \in 0 .. 0 |-> {}]
  <2>1. Solves(par, 0, g)
    BY <1>0 DEF Solves, AncestorsBody
  <2> HIDE DEF g
  <2> QED BY <2>1
<1>2. ASSUME NEW n \in Nat, n \in S PROVE n + 1 \in S
  <2> SUFFICES ASSUME n + 1 <= Len(par) PROVE \E g : Solves(par, n + 1, g)
    OBVIOUS
  <2>1. PICK g : Solves(par, n, g)
    BY <1>0, <1>2
  <2> DEFINE h == [r \in 0 .. n + 1 |->
                     IF r <= n THEN g[r] ELSE AncestorsBody(par, g, r)]
  <2>2. ASSUME NEW r \in 0 .. n + 1 PROVE h[r] = AncestorsBody(par, h, r)
    <3>1. h[r] = AncestorsBody(par, g, r)
      BY <2>1 DEF Solves
    <3>2. ASSUME r # Null, NEW p \in Range(par[r]) PROVE h[p] = g[p]
      <4>1. r \in 1 .. Len(par) /\ r \in Int
        BY <1>0, <3>2
      <4>2. p \in 0 .. r - 1
        BY <4>1 DEF ParentsFirst
      <4> QED BY <4>1, <4>2
    <3> HIDE DEF h
    <3> QED BY <3>1, <3>2 DEF AncestorsBody
  <2>3. Solves(par, n + 1, h)
    BY <2>2 DEF Solves
  <2> HIDE DEF h
  <2> QED BY <2>3
<1> HIDE DEF S
<1>3. \A n \in Nat : n \in S
  BY <1>1, <1>2, NatSetInduction
<1> QED BY <1>0, <1>3 DEF S

(* The ancestry of a revision is itself and the ancestries of its parents.    *)
LEMMA AncestorsEquation ==
  ASSUME NEW par, ParentsFirst(par), NEW r \in 0 .. Len(par)
  PROVE  AncestorsIn(par)[r] = AncestorsBody(par, AncestorsIn(par), r)
<1>1. AncestorsIn(par) = CHOOSE g : Solves(par, Len(par), g)
  BY DEF AncestorsIn, Solves, AncestorsBody
<1>2. Solves(par, Len(par), AncestorsIn(par))
  BY <1>1, SolutionExists
<1> QED BY <1>2 DEF Solves

(* The same, said of what is in an ancestry; nothing is in that of null:.      *)
LEMMA AncestorsMembers ==
  ASSUME NEW par, ParentsFirst(par)
  PROVE  /\ AncestorsIn(par)[0] = {}
         /\ \A r \in 1 .. Len(par) :
              /\ \A p \in Range(par[r]) : p \in Nat /\ p < r
              /\ \A x : x \in AncestorsIn(par)[r] <=>
                         x = r \/ \E p \in Range(par[r]) : x \in AncestorsIn(par)[p]
<1>0. Len(par) \in Nat /\ Null = 0
  BY DEF ParentsFirst, Null
<1>1. AncestorsIn(par)[0] = {}
  <2>1. 0 \in 0 .. Len(par)
    BY <1>0
  <2> QED BY <1>0, <2>1, AncestorsEquation DEF AncestorsBody
<1>2. ASSUME NEW r \in 1 .. Len(par)
      PROVE  /\ \A p \in Range(par[r]) : p \in Nat /\ p < r
             /\ \A x : x \in AncestorsIn(par)[r] <=>
                        x = r \/ \E p \in Range(par[r]) : x \in AncestorsIn(par)[p]
  <2>1. r \in 0 .. Len(par) /\ r # 0
    BY <1>0
  <2>2. AncestorsIn(par)[r] = {r} \cup UNION {AncestorsIn(par)[p] : p \in Range(par[r])}
    BY <1>0, <2>1, AncestorsEquation DEF AncestorsBody
  <2>3. \A p \in Range(par[r]) : p \in 0 .. r - 1
    BY DEF ParentsFirst
  <2>4. \A p \in 0 .. r - 1 : p \in Nat /\ p < r
    BY <1>0
  <2> QED BY <2>2, <2>3, <2>4
<1> QED BY <1>1, <1>2

(* A new revision changes no ancestry that there was.                         *)
LEMMA AncestorsStable ==
  ASSUME NEW par, ParentsFirst(par), NEW ps, ParentsFirst(Append(par, ps)),
         NEW r \in 0 .. Len(par)
  PROVE  AncestorsIn(Append(par, ps))[r] = AncestorsIn(par)[r]
<1> DEFINE more == Append(par, ps)
           S == {n \in Nat : n <= Len(par) => AncestorsIn(more)[n] = AncestorsIn(par)[n]}
<1>0. /\ Len(par) \in Nat /\ Null = 0 /\ Len(more) = Len(par) + 1
      /\ \A n \in 1 .. Len(par) : more[n] = par[n]
  BY DEF ParentsFirst, Null
<1>1. ASSUME NEW n \in Nat, \A m \in Nat : m < n => m \in S PROVE n \in S
  <2> SUFFICES ASSUME n <= Len(par) PROVE AncestorsIn(more)[n] = AncestorsIn(par)[n]
    OBVIOUS
  <2>1. /\ AncestorsIn(par)[n] = AncestorsBody(par, AncestorsIn(par), n)
        /\ AncestorsIn(more)[n] = AncestorsBody(more, AncestorsIn(more), n)
    <3>1. n \in 0 .. Len(par) /\ n \in 0 .. Len(more)
      BY <1>0
    <3> QED BY <3>1, AncestorsEquation
  <2>2. ASSUME n # Null
        PROVE  /\ more[n] = par[n]
               /\ \A p \in Range(par[n]) : AncestorsIn(more)[p] = AncestorsIn(par)[p]
    <3>1. n \in 1 .. Len(par)
      BY <1>0, <2>2
    <3>2. \A p \in Range(par[n]) : p \in Nat /\ p < n
      BY <3>1, AncestorsMembers
    <3> QED BY <1>0, <1>1, <3>1, <3>2
  <2> HIDE DEF more
  <2> QED BY <2>1, <2>2 DEF AncestorsBody
<1> HIDE DEF S
<1>2. \A n \in Nat : n \in S
  BY <1>1, StrongInduction
<1> QED BY <1>0, <1>2 DEF S

(* Ancestries hold no revision made later.                                    *)
LEMMA AncestorsOlder ==
  ASSUME NEW par, ParentsFirst(par), NEW r \in 0 .. Len(par)
  PROVE  AncestorsIn(par)[r] \subseteq 1 .. r
<1> DEFINE S == {n \in Nat : n <= Len(par) => AncestorsIn(par)[n] \subseteq 1 .. n}
<1>0. Len(par) \in Nat /\ Null = 0
  BY DEF ParentsFirst, Null
<1>1. ASSUME NEW n \in Nat, \A m \in Nat : m < n => m \in S PROVE n \in S
  <2> SUFFICES ASSUME n <= Len(par), NEW x \in AncestorsIn(par)[n] PROVE x \in 1 .. n
    OBVIOUS
  <2>1. n \in 1 .. Len(par) /\ (x = n \/ \E p \in Range(par[n]) : x \in AncestorsIn(par)[p])
    <3>1. n # 0
      BY AncestorsMembers
    <3>2. n \in 1 .. Len(par)
      BY <1>0, <3>1
    <3> QED BY <3>2, AncestorsMembers
  <2>2. ASSUME NEW p \in Range(par[n]), x \in AncestorsIn(par)[p] PROVE x \in 1 .. n
    <3>1. p \in Nat /\ p < n
      BY <2>1, AncestorsMembers
    <3> QED BY <1>0, <1>1, <2>2, <3>1
  <2> QED BY <2>1, <2>2
<1> HIDE DEF S
<1>2. \A n \in Nat : n \in S
  BY <1>1, StrongInduction
<1> QED BY <1>0, <1>2 DEF S

(* Ancestors of ancestors are ancestors.                                      *)
LEMMA AncestorsClosed ==
  ASSUME NEW par, ParentsFirst(par), NEW r \in 0 .. Len(par), NEW x \in AncestorsIn(par)[r]
  PROVE  x \in 1 .. Len(par) /\ AncestorsIn(par)[x] \subseteq AncestorsIn(par)[r]
<1> DEFINE S == {n \in Nat : n <= Len(par) =>
                   \A y \in AncestorsIn(par)[n] : AncestorsIn(par)[y] \subseteq AncestorsIn(par)[n]}
<1>0. Len(par) \in Nat /\ Null = 0
  BY DEF ParentsFirst, Null
<1>1. ASSUME NEW n \in Nat, \A m \in Nat : m < n => m \in S PROVE n \in S
  <2> SUFFICES ASSUME n <= Len(par), NEW y \in AncestorsIn(par)[n]
               PROVE  AncestorsIn(par)[y] \subseteq AncestorsIn(par)[n]
    OBVIOUS
  <2>1. /\ n \in 1 .. Len(par) /\ (y = n \/ \E p \in Range(par[n]) : y \in AncestorsIn(par)[p])
        /\ \A p \in Range(par[n]) : AncestorsIn(par)[p] \subseteq AncestorsIn(par)[n]
    <3>1. n # 0
      BY AncestorsMembers
    <3>2. n \in 1 .. Len(par)
      BY <1>0, <3>1
    <3> QED BY <3>2, AncestorsMembers
  <2>2. ASSUME NEW p \in Range(par[n]), y \in AncestorsIn(par)[p]
        PROVE  AncestorsIn(par)[y] \subseteq AncestorsIn(par)[n]
    <3>1. p \in Nat /\ p < n
      BY <2>1, AncestorsMembers
    <3> QED BY <1>0, <1>1, <2>1, <2>2, <3>1
  <2> QED BY <2>1, <2>2
<1> HIDE DEF S
<1>2. \A n \in Nat : n \in S
  BY <1>1, StrongInduction
<1>3. x \in 1 .. Len(par)
  BY <1>0, AncestorsOlder
<1> QED BY <1>0, <1>2, <1>3 DEF S

-----------------------------------------------------------------------------
(* set_parent_trees *)

\* One turn of the loop in AcceptedParents, and its solutions up to n.
AcceptedBody(ids, g, i) ==
  IF i = 0 THEN <<>>
  ELSE IF i = 1 \/ ids[i] \in Heads(Range(ids)) \ ({Null} \cup Range(g[i - 1]))
       THEN Append(g[i - 1], ids[i])
       ELSE g[i - 1]
Accepts(ids, n, g) == g = [i \in 0 .. n |-> AcceptedBody(ids, g, i)]

(* The loop of set_parent_trees ends.                                         *)
LEMMA AcceptedExists ==
  ASSUME NEW ids, Len(ids) \in Nat
  PROVE  \E g : Accepts(ids, Len(ids), g)
<1> DEFINE S == {n \in Nat : n <= Len(ids) => \E g : Accepts(ids, n, g)}
<1>1. 0 \in S
  <2> DEFINE g == [i \in 0 .. 0 |-> <<>>]
  <2>1. Accepts(ids, 0, g)
    BY DEF Accepts, AcceptedBody
  <2> HIDE DEF g
  <2> QED BY <2>1
<1>2. ASSUME NEW n \in Nat, n \in S PROVE n + 1 \in S
  <2> SUFFICES ASSUME n + 1 <= Len(ids) PROVE \E g : Accepts(ids, n + 1, g)
    OBVIOUS
  <2>1. PICK g : Accepts(ids, n, g)
    BY <1>2
  <2> DEFINE h == [i \in 0 .. n + 1 |-> IF i <= n THEN g[i] ELSE AcceptedBody(ids, g, i)]
  <2>2. ASSUME NEW i \in 0 .. n + 1 PROVE h[i] = AcceptedBody(ids, h, i)
    <3>1. h[i] = AcceptedBody(ids, g, i)
      BY <2>1 DEF Accepts
    <3>2. i # 0 => h[i - 1] = g[i - 1]
      OBVIOUS
    <3> HIDE DEF h
    <3> QED BY <3>1, <3>2 DEF AcceptedBody
  <2>3. Accepts(ids, n + 1, h)
    BY <2>2 DEF Accepts
  <2> HIDE DEF h
  <2> QED BY <2>3
<1> HIDE DEF S
<1>3. \A n \in Nat : n \in S
  BY <1>1, <1>2, NatSetInduction
<1> QED BY <1>3 DEF S

(* set_parent_trees makes up no parents.                                      *)
LEMMA AcceptedParentsType ==
  ASSUME NEW R, NEW ids \in Seq(R)
  PROVE  AcceptedParents(ids) \in Seq(R)
<1> DEFINE A == CHOOSE g : Accepts(ids, Len(ids), g)
           S == {n \in Nat : n <= Len(ids) => A[n] \in Seq(R)}
<1>0. Len(ids) \in Nat
  OBVIOUS
<1>1. AcceptedParents(ids) = A[Len(ids)]
  BY DEF AcceptedParents, Accepts, AcceptedBody
<1>2. Accepts(ids, Len(ids), A)
  BY <1>0, AcceptedExists
<1> HIDE DEF A
<1>3. \A i \in 0 .. Len(ids) : A[i] = AcceptedBody(ids, A, i)
  BY <1>2 DEF Accepts
<1>4. 0 \in S
  <2>1. A[0] = <<>>
    <3>1. 0 \in 0 .. Len(ids)
      BY <1>0
    <3> QED BY <1>3, <3>1 DEF AcceptedBody
  <2>2. <<>> \in Seq(R)
    OBVIOUS
  <2> QED BY <2>1, <2>2
<1>5. ASSUME NEW n \in Nat, n \in S PROVE n + 1 \in S
  <2> SUFFICES ASSUME n + 1 <= Len(ids) PROVE A[n + 1] \in Seq(R)
    OBVIOUS
  <2>1. A[n] \in Seq(R) /\ ids[n + 1] \in R
    BY <1>0, <1>5
  <2>2. A[n + 1] = A[n] \/ A[n + 1] = Append(A[n], ids[n + 1])
    <3>1. n + 1 \in 0 .. Len(ids) /\ n + 1 # 0 /\ (n + 1) - 1 = n
      BY <1>0
    <3>2. A[n + 1] = AcceptedBody(ids, A, n + 1)
      BY <1>3, <3>1
    <3> QED BY <3>1, <3>2 DEF AcceptedBody
  <2>3. Append(A[n], ids[n + 1]) \in Seq(R)
    BY <2>1, AppendProperties, Zenon
  <2> QED BY <2>1, <2>2, <2>3, Zenon
<1> HIDE DEF S
<1>6. \A n \in Nat : n \in S
  BY <1>4, <1>5, NatSetInduction
<1> QED BY <1>0, <1>1, <1>6 DEF S

-----------------------------------------------------------------------------
(* The inductive invariant *)

Ops == {"none", "commit", "local", "uncommit", "pull", "push", "update"}
Known == 0 .. Len(parents)
StepType == {"lock", "record", "tip", "tree"} \X Branches
CallType == [op : Ops, todo : Seq(StepType),
             new : [no : Int, rev : Known], old : Known, over : BOOLEAN]
BTypeOK ==
  /\ home \in [Trees -> Branches]
  /\ ParentsFirst(parents)
  /\ store \in [Branches -> SUBSET Nat]
  /\ tip \in [Branches -> [no : Int, rev : Known]]
  /\ bound \in [Branches -> BOOLEAN] /\ ~bound[Master]
  /\ tree \in [Trees -> Seq(Known)]
  /\ lock \in [Branches -> Trees \cup {Free, Stale}]
  /\ run \in [Trees -> CallType]
  /\ shared \subseteq 1 .. Len(parents)

\* What a commit to b or the master may replace.
Unmoved(b, r) == tip[b].rev \in {r, Null}

\* What is left of a commit, and what it has checked so far still holds, because the
\* branches are locked.
CommitHereOK(t) ==
  LET b == home[t] IN
  /\ run[t].op \in {"commit", "local"}
  /\ \/ /\ run[t].todo = << <<"record", b>>, <<"tip", b>>, <<"tree", b>> >>
        /\ run[t].new.rev = Null /\ Unmoved(b, Basis(t))
     \/ /\ run[t].todo = IntoTree(b)
        /\ run[t].new.rev # Null /\ Unmoved(b, LeftParent(run[t].new.rev))
     \/ run[t].todo = << <<"tree", b>> >>

CommitBoundOK(t) ==
  LET b == home[t] IN
  /\ run[t].op = "commit" /\ bound[b]
  /\ \/ /\ run[t].todo = CommitSteps(b)
        /\ run[t].new.rev = Null
     \/ /\ lock[Master] = t
        /\ \/ /\ run[t].todo = << <<"record", b>>, <<"tip", Master>>, <<"tip", b>>, <<"tree", b>> >>
              /\ run[t].new.rev = Null /\ Unmoved(Master, Basis(t))
           \/ /\ run[t].todo = << <<"tip", Master>>, <<"tip", b>>, <<"tree", b>> >>
              /\ run[t].new.rev # Null /\ Unmoved(Master, LeftParent(run[t].new.rev))
           \/ /\ run[t].todo = IntoTree(b)
              /\ run[t].new = tip[Master]

\* What is left of an uncommit: the tips that are to be set are still the old one.
UncommitOK(t) ==
  LET b == home[t] IN
  /\ run[t].op = "uncommit"
  /\ run[t].old # Null /\ run[t].new.rev = LeftParent(run[t].old)
  /\ \/ /\ run[t].todo = IntoMasterAndTree(b)
        /\ bound[b] /\ tip[b].rev = run[t].old
     \/ /\ run[t].todo = Tail(IntoMasterAndTree(b))
        /\ bound[b] /\ tip[b].rev = run[t].old
        /\ lock[Master] = t /\ tip[Master].rev = run[t].old
     \/ run[t].todo = IntoTree(b) /\ tip[b].rev = run[t].old
     \/ run[t].todo = << <<"tree", b>> >>

\* What is left of a pull, a push or an update.
PullOK(t) ==
  LET b == home[t] IN
  /\ run[t].op = "pull"
  /\ \/ /\ bound[b]
        /\ \/ run[t].todo = IntoMasterAndTree(b)
           \/ lock[Master] = t /\ run[t].todo = Tail(IntoMasterAndTree(b))
     \/ run[t].todo = IntoTree(b)
     \/ run[t].todo = << <<"tree", b>> >>

PushOK(t) ==
  /\ run[t].op = "push"
  /\ \E b \in Branches :
       /\ lock[b] = t /\ b \notin Range(home)
       /\ \/ bound[b] /\ run[t].todo = IntoMasterToo(b)
          \/ bound[b] /\ run[t].todo = Tail(IntoMasterToo(b)) /\ lock[Master] = t
          \/ run[t].todo = Into(b)

UpdateOK(t) ==
  LET b == home[t] IN
  /\ run[t].op = "update"
  /\ \/ run[t].todo = IntoTree(b) /\ bound[b] /\ lock[b] = t
     \/ run[t].todo = << <<"tree", b>> >>

CallOK(t) ==
  \/ run[t].op = "none" /\ run[t].todo = <<>>
  \/ lock[home[t]] = t /\ (CommitHereOK(t) \/ CommitBoundOK(t) \/ UncommitOK(t) \/ PullOK(t))
  \/ PushOK(t)
  \/ UpdateOK(t)

\* The branch of a tree has what the call under way may make a parent of the tree.
Holds(b, r) == Ancestry(r) \subseteq store[b]
CallPresent(t) ==
  /\ Holds(home[t], run[t].old)
  /\ \/ run[t].op \in {"commit", "local", "uncommit"}
     \/ run[t].op = "update" /\ run[t].todo = << <<"tree", home[t]>> >>
     => Holds(home[t], run[t].new.rev)

\* Whatever anybody refers to has no shared revision that the master lacks, except for
\* the one that a commit is just about to set the master's tip to.
MasterHas(r) == Ancestry(r) \cap shared \subseteq store[Master]
CallInMaster(t) ==
  /\ MasterHas(run[t].old)
  /\ ~(run[t].op = "commit" /\ Doing(t, <<"tip", Master>>)) => MasterHas(run[t].new.rev)
ReferencesInMaster ==
  /\ \A b \in Branches : MasterHas(tip[b].rev)
  /\ \A t \in Trees : \A r \in Range(tree[t]) : MasterHas(r)
  /\ \A t \in Trees : CallInMaster(t)

BranchInv ==
  /\ BTypeOK
  /\ \A t \in Trees : CallOK(t) /\ CallPresent(t)
  /\ TipsArePresent /\ ReferencesInMaster

-----------------------------------------------------------------------------
(* What a step of one user leaves to the others *)

\* The graph and the repositories only grow.
GraphGrows ==
  \/ parents' = parents /\ shared' = shared
  \/ /\ \E t \in Trees : parents' = Append(parents, tree[t])
     /\ shared' \subseteq shared \cup {Len(parents) + 1}
Respects(t) ==
  /\ home' = home /\ GraphGrows
  /\ \A b \in Branches : store[b] \subseteq store'[b]
  /\ \A u \in Trees \ {t} : run'[u] = run[u] /\ tree'[u] = tree[u]
  /\ \A b \in Branches : lock[b] \in Trees \ {t} =>
       lock'[b] = lock[b] /\ tip'[b] = tip[b] /\ bound'[b] = bound[b]

(* A commit appends a revision whose parents are known.                       *)
LEMMA GrownParents ==
  ASSUME BTypeOK, NEW t \in Trees
  PROVE  /\ ParentsFirst(Append(parents, tree[t]))
         /\ Len(Append(parents, tree[t])) = Len(parents) + 1 /\ Len(parents) \in Nat
         /\ \A r \in 1 .. Len(parents) : Append(parents, tree[t])[r] = parents[r]
         /\ Append(parents, tree[t])[Len(parents) + 1] = tree[t]
<1>1. /\ parents \in Seq(Seq(Nat)) /\ tree[t] \in Seq(0 .. Len(parents))
      /\ \A r \in 1 .. Len(parents) : \A p \in Range(parents[r]) : p \in 0 .. r - 1
  BY DEF BTypeOK, ParentsFirst, Known
<1>2. Len(parents) \in Nat /\ tree[t] \in Seq(Nat)
  BY <1>1
<1>3. /\ Append(parents, tree[t]) \in Seq(Seq(Nat))
      /\ Len(Append(parents, tree[t])) = Len(parents) + 1
      /\ \A r \in 1 .. Len(parents) : Append(parents, tree[t])[r] = parents[r]
      /\ Append(parents, tree[t])[Len(parents) + 1] = tree[t]
  BY <1>1, <1>2, AppendProperties
<1>4. \A p \in Range(tree[t]) : p \in 0 .. Len(parents)
  BY <1>1 DEF Range
<1>5. ASSUME NEW r \in 1 .. Len(parents) + 1, NEW p \in Range(Append(parents, tree[t])[r])
      PROVE  p \in 0 .. r - 1
  <2>1. CASE r = Len(parents) + 1
    BY <1>2, <1>3, <1>4, <2>1
  <2>2. CASE r \in 1 .. Len(parents)
    BY <1>1, <1>3, <2>2
  <2> QED BY <1>2, <2>1, <2>2
<1> QED BY <1>2, <1>3, <1>5 DEF ParentsFirst

(* The past of the revisions there are does not change.                       *)
LEMMA PastStable ==
  ASSUME BTypeOK, GraphGrows
  PROVE  /\ Len(parents) \in Nat /\ ParentsFirst(parents') /\ Known \subseteq Known'
         /\ \A r \in Known :
              /\ Ancestry(r)' = Ancestry(r)
              /\ r # Null => LeftParent(r)' = LeftParent(r)
              /\ Ancestry(r) \cap shared' \subseteq shared
<1>0. Len(parents) \in Nat /\ ParentsFirst(parents)
  BY DEF BTypeOK, ParentsFirst
<1>1. CASE parents' = parents /\ shared' = shared
  BY <1>0, <1>1 DEF Ancestry, LeftParent, Known
<1>2. ASSUME NEW t \in Trees, parents' = Append(parents, tree[t]),
             shared' \subseteq shared \cup {Len(parents) + 1}
      PROVE  /\ ParentsFirst(parents') /\ Known \subseteq Known'
             /\ \A r \in Known :
                  /\ Ancestry(r)' = Ancestry(r)
                  /\ r # Null => LeftParent(r)' = LeftParent(r)
                  /\ Ancestry(r) \cap shared' \subseteq shared
  <2>1. ParentsFirst(parents') /\ Known \subseteq Known'
    BY <1>0, <1>2, GrownParents DEF Known
  <2>2. ASSUME NEW r \in Known
        PROVE  /\ Ancestry(r)' = Ancestry(r)
               /\ r # Null => LeftParent(r)' = LeftParent(r)
               /\ Ancestry(r) \cap shared' \subseteq shared
    <3>1. Ancestry(r)' = Ancestry(r)
      BY <1>0, <1>2, <2>1, AncestorsStable DEF Ancestry, Known
    <3>2. r # Null => LeftParent(r)' = LeftParent(r)
      <4> SUFFICES ASSUME r # Null PROVE LeftParent(r)' = LeftParent(r)
        OBVIOUS
      <4>1. r \in 1 .. Len(parents)
        BY <1>0 DEF Known, Null
      <4>2. parents'[r] = parents[r]
        BY <1>2, <4>1, GrownParents
      <4> QED BY <4>2 DEF LeftParent
    <3>3. Ancestry(r) \subseteq 1 .. Len(parents)
      <4>1. Ancestry(r) \subseteq 1 .. r
        BY <1>0, AncestorsOlder DEF Ancestry, Known
      <4> QED BY <1>0, <4>1 DEF Known
    <3> QED BY <1>0, <1>2, <3>1, <3>2, <3>3
  <2> QED BY <2>1, <2>2
<1> QED BY <1>0, <1>1, <1>2 DEF GraphGrows

(* Nobody but its user disturbs a call that is under way.                     *)
LEMMA OthersCalls ==
  ASSUME BTypeOK, NEW t \in Trees, NEW u \in Trees \ {t}, Respects(t), CallOK(u)
  PROVE  CallOK(u)'
<1>1. /\ home'[u] = home[u] /\ run'[u] = run[u] /\ Basis(u)' = Basis(u)
      /\ Range(home)' = Range(home) /\ home[u] \in Branches /\ Master \in Branches
  BY BoundBranchAssumption DEF Respects, Basis, BTypeOK, BoundBranchAssumption
<1>2. \A b \in Branches : lock[b] = u =>
        lock'[b] = u /\ tip'[b] = tip[b] /\ bound'[b] = bound[b]
  BY DEF Respects
<1>3. /\ run[u].new.rev # Null => LeftParent(run[u].new.rev)' = LeftParent(run[u].new.rev)
      /\ run[u].old # Null => LeftParent(run[u].old)' = LeftParent(run[u].old)
  <2>1. run[u].new.rev \in Known /\ run[u].old \in Known
    BY DEF BTypeOK, CallType
  <2> QED BY <2>1, PastStable DEF Respects
<1>4. ASSUME lock[home[u]] = u, CommitHereOK(u) PROVE CommitHereOK(u)'
  BY <1>1, <1>2, <1>3, <1>4 DEF CommitHereOK, Unmoved, IntoTree
<1>5. ASSUME lock[home[u]] = u, CommitBoundOK(u) PROVE CommitBoundOK(u)'
  BY <1>1, <1>2, <1>3, <1>5 DEF CommitBoundOK, Unmoved, CommitSteps, IntoTree
<1>6. ASSUME lock[home[u]] = u, UncommitOK(u) PROVE UncommitOK(u)'
  BY <1>1, <1>2, <1>3, <1>6 DEF UncommitOK, IntoTree, IntoMasterAndTree
<1>7. ASSUME lock[home[u]] = u, PullOK(u) PROVE PullOK(u)'
  BY <1>1, <1>2, <1>7 DEF PullOK, IntoTree, IntoMasterAndTree
<1>8. ASSUME PushOK(u) PROVE PushOK(u)'
  BY <1>1, <1>2, <1>8 DEF PushOK, Into, IntoMasterToo
<1>9. ASSUME UpdateOK(u) PROVE UpdateOK(u)'
  BY <1>1, <1>2, <1>9 DEF UpdateOK, IntoTree
<1> QED BY <1>1, <1>2, <1>4, <1>5, <1>6, <1>7, <1>8, <1>9 DEF CallOK

(* Only revisions that there are are referred to.                             *)
LEMMA KnownReferences ==
  ASSUME BTypeOK
  PROVE  /\ \A b \in Branches : tip[b].rev \in Known
         /\ \A u \in Trees : tree[u] \in Seq(Known) /\ \A r \in Range(tree[u]) : r \in Known
         /\ \A u \in Trees : run[u].old \in Known /\ run[u].new.rev \in Known
         /\ Null \in Known /\ Len(parents) \in Nat
<1>1. \A b \in Branches : tip[b].rev \in Known
  BY DEF BTypeOK
<1>2. ASSUME NEW u \in Trees
      PROVE  tree[u] \in Seq(Known) /\ \A r \in Range(tree[u]) : r \in Known
  <2>1. tree[u] \in Seq(Known)
    BY DEF BTypeOK
  <2> QED BY <2>1 DEF Range
<1>3. \A u \in Trees : run[u].old \in Known /\ run[u].new.rev \in Known
  BY DEF BTypeOK, CallType
<1>4. Null \in Known /\ Len(parents) \in Nat
  BY DEF BTypeOK, ParentsFirst, Known, Null
<1> QED BY <1>1, <1>2, <1>3, <1>4

(* What a repository or the master has, it keeps.                             *)
LEMMA ReferencesStable ==
  ASSUME BTypeOK, NEW t \in Trees, Respects(t), NEW r \in Known
  PROVE  /\ \A b \in Branches : Holds(b, r) => Holds(b, r)'
         /\ MasterHas(r) => MasterHas(r)'
<1>1. Ancestry(r)' = Ancestry(r) /\ Ancestry(r) \cap shared' \subseteq shared
  BY PastStable DEF Respects
<1>2. \A b \in Branches : store[b] \subseteq store'[b]
  BY DEF Respects
<1>3. Master \in Branches
  BY BoundBranchAssumption DEF BoundBranchAssumption
<1> QED BY <1>1, <1>2, <1>3 DEF Holds, MasterHas

(* To check a step of one user it is enough to look at what it refers to.     *)
LEMMA StepInv ==
  ASSUME BranchInv, NEW t \in Trees, Respects(t), BTypeOK',
         CallOK(t)', CallPresent(t)', CallInMaster(t)',
         \A b \in Branches : tip'[b] # tip[b] =>
           Ancestry(tip[b].rev)' \subseteq store'[b] /\ MasterHas(tip[b].rev)',
         tree'[t] # tree[t] =>
           \A r \in Range(tree'[t]) :
             /\ AncestorsIn(parents')[r] \subseteq store'[home[t]]
             /\ AncestorsIn(parents')[r] \cap shared' \subseteq store'[Master]
  PROVE  BranchInv'
<1> USE DEF BranchInv
<1>1. /\ home' = home /\ home \in [Trees -> Branches]
      /\ \A u \in Trees \ {t} : run'[u] = run[u] /\ tree'[u] = tree[u]
  BY DEF Respects, BTypeOK
<1>2. /\ \A b \in Branches : tip[b].rev \in Known
      /\ \A u \in Trees : \A r \in Range(tree[u]) : r \in Known
      /\ \A u \in Trees : run[u].old \in Known /\ run[u].new.rev \in Known
  BY KnownReferences
<1>3. \A u \in Trees : CallOK(u)'
  BY OthersCalls
<1>4. \A u \in Trees : CallPresent(u)'
  <2> SUFFICES ASSUME NEW u \in Trees \ {t} PROVE CallPresent(u)'
    OBVIOUS
  <2>1. /\ Holds(home[u], run[u].old) => Holds(home[u], run[u].old)'
        /\ Holds(home[u], run[u].new.rev) => Holds(home[u], run[u].new.rev)'
    BY <1>1, <1>2, ReferencesStable
  <2>2. CallPresent(u)
    OBVIOUS
  <2> QED BY <1>1, <2>1, <2>2 DEF CallPresent, Holds
<1>5. \A u \in Trees : CallInMaster(u)'
  <2> SUFFICES ASSUME NEW u \in Trees \ {t} PROVE CallInMaster(u)'
    OBVIOUS
  <2>1. /\ MasterHas(run[u].old) => MasterHas(run[u].old)'
        /\ MasterHas(run[u].new.rev) => MasterHas(run[u].new.rev)'
    BY <1>1, <1>2, ReferencesStable
  <2>2. CallInMaster(u)
    BY DEF ReferencesInMaster
  <2> QED BY <1>1, <2>1, <2>2 DEF CallInMaster, MasterHas, Doing
<1>6. \A b \in Branches : Ancestry(tip[b].rev)' \subseteq store'[b] /\ MasterHas(tip[b].rev)'
  <2> SUFFICES ASSUME NEW b \in Branches, tip'[b] = tip[b]
               PROVE  Ancestry(tip[b].rev)' \subseteq store'[b] /\ MasterHas(tip[b].rev)'
    OBVIOUS
  <2>1. Holds(b, tip[b].rev) /\ MasterHas(tip[b].rev)
    BY DEF TipsArePresent, ReferencesInMaster, Holds
  <2> DEFINE r == tip[b].rev
  <2>2. AncestorsIn(parents')[r] \subseteq store'[b] /\ AncestorsIn(parents')[r] \cap shared' \subseteq store'[Master]
    <3>1. r \in Known /\ Holds(b, r) /\ MasterHas(r)
      BY <1>2, <2>1
    <3> HIDE DEF r
    <3> QED BY <3>1, ReferencesStable DEF Holds, MasterHas, Ancestry
  <2> QED BY <2>2 DEF MasterHas, Ancestry
<1>7. \A u \in Trees : \A r \in Range(tree'[u]) :
        /\ AncestorsIn(parents')[r] \subseteq store'[home[u]]
        /\ AncestorsIn(parents')[r] \cap shared' \subseteq store'[Master]
  <2> SUFFICES ASSUME NEW u \in Trees, tree'[u] = tree[u], NEW r \in Range(tree[u])
               PROVE  /\ AncestorsIn(parents')[r] \subseteq store'[home[u]]
                      /\ AncestorsIn(parents')[r] \cap shared' \subseteq store'[Master]
    BY <1>1
  <2>1. r \in Known /\ Holds(home[u], r) /\ MasterHas(r)
    BY <1>2 DEF TipsArePresent, ReferencesInMaster, Holds
  <2>2. Holds(home[u], r)' /\ MasterHas(r)'
    BY <1>1, <2>1, ReferencesStable
  <2> QED BY <1>1, <2>2 DEF Holds, MasterHas, Ancestry
<1>8. TipsArePresent' /\ ReferencesInMaster'
  BY <1>1, <1>5, <1>6, <1>7 DEF TipsArePresent, ReferencesInMaster, MasterHas, Ancestry
<1> QED BY <1>3, <1>4, <1>8

-----------------------------------------------------------------------------
(* The calls begin *)

(* The steps of the calls are steps.                                          *)
LEMMA StepTypes ==
  ASSUME NEW b \in Branches
  PROVE  /\ CommitSteps(b) \in Seq(StepType)
         /\ << <<"record", b>>, <<"tip", b>>, <<"tree", b>> >> \in Seq(StepType)
         /\ IntoTree(b) \in Seq(StepType) /\ IntoMasterAndTree(b) \in Seq(StepType)
         /\ Into(b) \in Seq(StepType) /\ IntoMasterToo(b) \in Seq(StepType)
         /\ << <<"tree", b>> >> \in Seq(StepType)
<1>1. Master \in Branches
  BY BoundBranchAssumption DEF BoundBranchAssumption
<1>2. \A x \in {"lock", "record", "tip", "tree"}, c \in Branches : <<x, c>> \in StepType
  BY DEF StepType
<1>3. \A s1, s2, s3, s4, s5 \in StepType :
        /\ <<s1>> \in Seq(StepType) /\ <<s1, s2>> \in Seq(StepType)
        /\ <<s1, s2, s3>> \in Seq(StepType) /\ <<s1, s2, s3, s4>> \in Seq(StepType)
        /\ <<s1, s2, s3, s4, s5>> \in Seq(StepType)
  OBVIOUS
<1> HIDE DEF StepType
<1> QED BY <1>1, <1>2, <1>3 DEF CommitSteps, Into, IntoTree, IntoMasterToo, IntoMasterAndTree

(* A call whose steps are in order begins.                                    *)
LEMMA CallBegins ==
  ASSUME BranchInv, NEW t \in Trees, NEW op, NEW bs, NEW todo, NEW new, NEW old, NEW over,
         Call(t, op, bs, todo, new, old, over), 
         UNCHANGED <<home, parents, store, tip, bound, tree, shared>>,
         op \in Ops, todo \in Seq(StepType), new \in [no : Int, rev : Known],
         old \in Known, over \in BOOLEAN,
         op = "commit" /\ todo # <<>> => Head(todo) # <<"tip", Master>>,
         Holds(home[t], old) /\ MasterHas(old) /\ MasterHas(new.rev),
         \/ op \in {"commit", "local", "uncommit"}
         \/ (op = "update" /\ todo = << <<"tree", home[t]>> >>)
         => Holds(home[t], new.rev),
         CallOK(t)'
  PROVE  BranchInv'
<1>1. /\ run' = [run EXCEPT ![t] = [op |-> op, todo |-> todo, new |-> new,
                                    old |-> old, over |-> over]]
      /\ lock' = [b \in Branches |-> IF b \in bs THEN t ELSE lock[b]]
      /\ \A b \in bs : lock[b] \in {Free, t}
  BY DEF Call, MayLock
<1>2. BTypeOK /\ Free \notin Trees
  BY BoundBranchAssumption DEF BranchInv, BoundBranchAssumption
<1>3. BTypeOK'
  <2>1. run' \in [Trees -> CallType]
    BY <1>1, <1>2 DEF BTypeOK, CallType
  <2>2. lock' \in [Branches -> Trees \cup {Free, Stale}]
    BY <1>1, <1>2 DEF BTypeOK
  <2>3. CallType' = CallType /\ Known' = Known
    BY DEF CallType, Known
  <2> QED BY <1>2, <2>1, <2>2, <2>3 DEF BTypeOK
<1>4. Respects(t)
  BY <1>1, <1>2 DEF Respects, GraphGrows, BTypeOK
<1>5. run'[t] = [op |-> op, todo |-> todo, new |-> new, old |-> old, over |-> over]
  BY <1>1, <1>2 DEF BTypeOK
<1>6. CallPresent(t)' /\ CallInMaster(t)'
  BY <1>5 DEF CallPresent, CallInMaster, Holds, MasterHas, Ancestry, Doing
<1> QED BY <1>3, <1>4, <1>6, StepInv

(* Nothing is missing of null:.                                               *)
LEMMA NullIsPresent ==
  ASSUME BTypeOK
  PROVE  (\A b \in Branches : Holds(b, Null)) /\ MasterHas(Null)
<1>1. Ancestry(Null) = {}
  BY AncestorsMembers DEF BTypeOK, Ancestry, Null
<1> QED BY <1>1 DEF Holds, MasterHas

(* A commit to a bound branch.                                                *)
LEMMA CommitBoundInv ==
  ASSUME BranchInv, NEW t \in Trees, CommitBound(t)
  PROVE  BranchInv'
<1> DEFINE b == home[t]
<1>1. /\ Call(t, "commit", {b}, CommitSteps(b), NullTip, Null, FALSE) /\ bound[b]
      /\ UNCHANGED <<home, parents, store, tip, bound, tree, shared>>
  BY DEF CommitBound, history
<1>2. BTypeOK /\ b \in Branches
  BY DEF BranchInv, BTypeOK
<1>3. /\ Holds(b, Null) /\ MasterHas(Null) /\ NullTip.rev = Null
      /\ Null \in Known /\ NullTip \in [no : Int, rev : Known]
  BY <1>2, NullIsPresent, KnownReferences DEF NullTip
<1>4. CommitSteps(b) \in Seq(StepType) /\ Head(CommitSteps(b)) # <<"tip", Master>>
  <2>1. Head(CommitSteps(b)) = <<"lock", Master>>
    BY DEF CommitSteps
  <2>2. CommitSteps(b) \in Seq(StepType)
    BY <1>2, StepTypes
  <2>3. <<"lock", Master>> # <<"tip", Master>>
    OBVIOUS
  <2> QED BY <2>1, <2>2, <2>3
<1>5. CallOK(t)'
  <2>1. /\ run'[t] = [op |-> "commit", todo |-> CommitSteps(b), new |-> NullTip, old |-> Null, over |-> FALSE]
        /\ lock'[b] = t
    BY <1>1, <1>2 DEF Call, BTypeOK
  <2>2. CommitBoundOK(t)'
    BY <1>1, <2>1 DEF CommitBoundOK, NullTip, CommitSteps
  <2> QED BY <1>1, <2>1, <2>2 DEF CallOK
<1> QED BY <1>1, <1>3, <1>4, <1>5, CallBegins DEF Ops

(* A commit to a branch of its own, or a local one.                           *)
LEMMA CommitHereInv ==
  ASSUME BranchInv, NEW t \in Trees, CommitHere(t)
  PROVE  BranchInv'
<1> DEFINE b == home[t]
           op == IF bound[b] THEN "local" ELSE "commit"
           steps == << <<"record", b>>, <<"tip", b>>, <<"tree", b>> >>
           new == [no |-> tip[b].no + 1, rev |-> Null]
<1>1. /\ Call(t, op, {b}, steps, new, Null, FALSE) /\ UpToDate(t, b)
      /\ UNCHANGED <<home, parents, store, tip, bound, tree, shared>>
  BY DEF CommitHere, history
<1>2. BTypeOK /\ b \in Branches
  BY DEF BranchInv, BTypeOK
<1>3. /\ Holds(b, Null) /\ MasterHas(Null) /\ new.rev = Null
      /\ Null \in Known /\ new \in [no : Int, rev : Known]
  BY <1>2, NullIsPresent, KnownReferences DEF BTypeOK
<1>4. steps \in Seq(StepType) /\ Head(steps) # <<"tip", Master>>
  BY <1>2, StepTypes
<1>5. CallOK(t)'
  <2>1. /\ run'[t] = [op |-> op, todo |-> steps, new |-> new, old |-> Null, over |-> FALSE]
        /\ lock'[b] = t
    BY <1>1, <1>2 DEF Call, BTypeOK
  <2>2. Unmoved(b, Basis(t))'
    BY <1>1 DEF UpToDate, Unmoved, Basis
  <2>3. CommitHereOK(t)'
    BY <1>1, <2>1, <2>2 DEF CommitHereOK
  <2> QED BY <1>1, <2>1, <2>3 DEF CallOK
<1>6. op \in Ops
  BY DEF Ops
<1> HIDE DEF op, steps, new
<1> QED BY <1>1, <1>3, <1>4, <1>5, <1>6, CallBegins

(* The left parent of a revision is one that there is, and part of its past.  *)
LEMMA LeftParentIsPast ==
  ASSUME BTypeOK, NEW r \in Known, r # Null
  PROVE  LeftParent(r) \in Known /\ Ancestry(LeftParent(r)) \subseteq Ancestry(r)
<1>1. /\ ParentsFirst(parents) /\ Len(parents) \in Nat /\ r \in 1 .. Len(parents)
      /\ parents[r] \in Seq(Nat) /\ Ancestry(Null) = {}
  <2>1. ParentsFirst(parents) /\ Len(parents) \in Nat
    BY KnownReferences DEF BTypeOK
  <2>2. r \in 1 .. Len(parents)
    BY <2>1 DEF Known, Null
  <2>3. parents[r] \in Seq(Nat)
    BY <2>1, <2>2 DEF ParentsFirst
  <2> QED BY <2>1, <2>2, <2>3, AncestorsMembers DEF Ancestry, Null
<1>2. CASE parents[r] = <<>>
  BY <1>1, <1>2 DEF LeftParent, Known, Null
<1>3. CASE parents[r] # <<>>
  <2>1. LeftParent(r) = Head(parents[r]) /\ Head(parents[r]) \in Range(parents[r])
    BY <1>1, <1>3 DEF LeftParent, Range
  <2>2. LeftParent(r) \in Nat /\ LeftParent(r) < r
    BY <1>1, <2>1, AncestorsMembers
  <2> QED BY <1>1, <2>1, <2>2, AncestorsMembers DEF Ancestry, Known
<1> QED BY <1>2, <1>3

(* What a tip needs is in its repository, and what is shared in the master's. *)
LEMMA TipsHold ==
  ASSUME BranchInv, NEW b \in Branches
  PROVE  tip[b].rev \in Known /\ Holds(b, tip[b].rev) /\ MasterHas(tip[b].rev)
BY KnownReferences DEF BranchInv, TipsArePresent, ReferencesInMaster, Holds

(* An uncommit.                                                               *)
LEMMA UncommitInv ==
  ASSUME BranchInv, NEW t \in Trees, Uncommit(t)
  PROVE  BranchInv'
<1> DEFINE b == home[t]
           old == tip[b].rev
           new == Back(b)
<1>1. PICK todo : /\ Call(t, "uncommit", {b}, todo, new, old, FALSE)
                  /\ todo = IntoTree(b) \/ (bound[b] /\ todo = IntoMasterAndTree(b))
  BY DEF Uncommit
<1>2. /\ BTypeOK /\ b \in Branches /\ old # Null
      /\ UNCHANGED <<home, parents, store, tip, bound, tree, shared>>
  BY DEF BranchInv, BTypeOK, Uncommit
<1>3. /\ old \in Known /\ Holds(b, old) /\ MasterHas(old)
      /\ new.rev = LeftParent(old) /\ new.rev \in Known /\ new \in [no : Int, rev : Known]
      /\ Holds(b, new.rev) /\ MasterHas(new.rev)
  <2>1. old \in Known /\ Holds(b, old) /\ MasterHas(old)
    BY <1>2, TipsHold
  <2>2. new.rev = LeftParent(old)
    BY DEF Back
  <2>3. LeftParent(old) \in Known /\ Ancestry(LeftParent(old)) \subseteq Ancestry(old)
    BY <1>2, <2>1, LeftParentIsPast
  <2>4. new \in [no : Int, rev : Known]
    BY <1>2, <2>3 DEF Back, BTypeOK
  <2> QED BY <2>1, <2>2, <2>3, <2>4 DEF Holds, MasterHas
<1>4. todo \in Seq(StepType)
  BY <1>1, <1>2, StepTypes
<1>5. CallOK(t)'
  <2>1. /\ run'[t] = [op |-> "uncommit", todo |-> todo, new |-> new, old |-> old, over |-> FALSE]
        /\ lock'[b] = t
    BY <1>1, <1>2 DEF Call, BTypeOK
  <2>2. LeftParent(old)' = LeftParent(old)
    BY <1>2 DEF LeftParent
  <2>3. UncommitOK(t)'
    BY <1>1, <1>2, <1>3, <2>1, <2>2 DEF UncommitOK, IntoTree, IntoMasterAndTree
  <2> QED BY <1>2, <2>1, <2>3 DEF CallOK
<1> HIDE DEF old, new
<1> QED BY <1>1, <1>2, <1>3, <1>4, <1>5, CallBegins DEF Ops

(* A pull.                                                                    *)
LEMMA PullInv ==
  ASSUME BranchInv, NEW t \in Trees, NEW s \in Branches, NEW over \in BOOLEAN,
         NEW here \in BOOLEAN, Pull(t, s, over, here)
  PROVE  BranchInv'
<1> DEFINE b == home[t]
           todo == IF bound[b] /\ ~here /\ s # Master THEN IntoMasterAndTree(b) ELSE IntoTree(b)
<1>1. /\ Call(t, "pull", {b}, todo, tip[s], tip[b].rev, over)
      /\ UNCHANGED <<home, parents, store, tip, bound, tree, shared>>
  BY DEF Pull
<1>2. BTypeOK /\ b \in Branches /\ tip[s] \in [no : Int, rev : Known]
  BY DEF BranchInv, BTypeOK
<1>3. /\ tip[b].rev \in Known /\ Holds(b, tip[b].rev) /\ MasterHas(tip[b].rev)
      /\ MasterHas(tip[s].rev)
  BY <1>2, TipsHold
<1>4. todo \in Seq(StepType)
  BY <1>2, StepTypes
<1>5. CallOK(t)'
  <2>1. /\ run'[t] = [op |-> "pull", todo |-> todo, new |-> tip[s], old |-> tip[b].rev, over |-> over]
        /\ lock'[b] = t
    BY <1>1, <1>2 DEF Call, BTypeOK
  <2>2. PullOK(t)'
    BY <1>1, <2>1 DEF PullOK, IntoTree, IntoMasterAndTree
  <2> QED BY <1>1, <2>1, <2>2 DEF CallOK
<1> HIDE DEF todo
<1> QED BY <1>1, <1>2, <1>3, <1>4, <1>5, CallBegins DEF Ops

(* A push.                                                                    *)
LEMMA PushInv ==
  ASSUME BranchInv, NEW t \in Trees, NEW b \in Branches, NEW over \in BOOLEAN, Push(t, b, over)
  PROVE  BranchInv'
<1> DEFINE todo == IF bound[b] THEN IntoMasterToo(b) ELSE Into(b)
           new == tip[home[t]]
<1>1. /\ Call(t, "push", {b}, todo, new, Null, over) /\ b \notin Range(home)
      /\ UNCHANGED <<home, parents, store, tip, bound, tree, shared>>
  BY DEF Push
<1>2. BTypeOK /\ home[t] \in Branches /\ new \in [no : Int, rev : Known]
  BY DEF BranchInv, BTypeOK
<1>3. /\ Null \in Known /\ Holds(home[t], Null) /\ MasterHas(Null)
      /\ MasterHas(new.rev)
  BY <1>2, TipsHold, NullIsPresent, KnownReferences
<1>4. todo \in Seq(StepType)
  BY <1>2, StepTypes
<1>5. CallOK(t)'
  <2>1. /\ run'[t] = [op |-> "push", todo |-> todo, new |-> new, old |-> Null, over |-> over]
        /\ lock'[b] = t
    BY <1>1, <1>2 DEF Call, BTypeOK
  <2>2. Range(home)' = Range(home)
    BY <1>1
  <2>3. PushOK(t)'
    BY <1>1, <2>1, <2>2 DEF PushOK, Into, IntoMasterToo
  <2> QED BY <2>3 DEF CallOK
<1> HIDE DEF todo, new
<1> QED BY <1>1, <1>2, <1>3, <1>4, <1>5, CallBegins DEF Ops

(* An update of a tree of a bound branch.                                     *)
LEMMA UpdateBoundInv ==
  ASSUME BranchInv, NEW t \in Trees, UpdateBound(t)
  PROVE  BranchInv'
<1> DEFINE b == home[t]
<1>1. UNCHANGED <<home, parents, store, tip, bound, tree, shared>> /\ bound[b]
  BY DEF UpdateBound, history
<1>2. /\ BTypeOK /\ b \in Branches /\ Master \in Branches
      /\ \A c \in Branches : tip[c] \in [no : Int, rev : Known]
  BY BoundBranchAssumption DEF BranchInv, BTypeOK, BoundBranchAssumption
<1>3. /\ Null \in Known /\ Holds(b, Null) /\ MasterHas(Null)
      /\ tip[b].rev \in Known /\ Holds(b, tip[b].rev) /\ MasterHas(tip[b].rev)
      /\ MasterHas(tip[Master].rev)
  BY <1>2, TipsHold, NullIsPresent, KnownReferences
<1>4. << <<"tree", b>> >> \in Seq(StepType) /\ IntoTree(b) \in Seq(StepType)
  BY <1>2, StepTypes
<1>5. CASE Call(t, "update", {b}, << <<"tree", b>> >>, tip[b], Null, FALSE)
  <2>1. run'[t] = [op |-> "update", todo |-> << <<"tree", b>> >>, new |-> tip[b], old |-> Null, over |-> FALSE]
    BY <1>2, <1>5 DEF Call, BTypeOK
  <2>2. CallOK(t)'
    BY <1>1, <2>1 DEF CallOK, UpdateOK
  <2> QED BY <1>1, <1>2, <1>3, <1>4, <1>5, <2>2, CallBegins DEF Ops
<1>6. CASE Call(t, "update", {b}, IntoTree(b), tip[Master], Pivoted(b), TRUE)
  <2>1. /\ run'[t] = [op |-> "update", todo |-> IntoTree(b), new |-> tip[Master],
                      old |-> Pivoted(b), over |-> TRUE]
        /\ lock'[b] = t
    BY <1>2, <1>6 DEF Call, BTypeOK
  <2>2. CallOK(t)'
    BY <1>1, <2>1 DEF CallOK, UpdateOK, IntoTree
  <2>3. Pivoted(b) \in Known /\ Holds(b, Pivoted(b)) /\ MasterHas(Pivoted(b))
    BY <1>3 DEF Pivoted
  <2>4. IntoTree(b) # << <<"tree", b>> >>
    BY DEF IntoTree
  <2> QED BY <1>1, <1>2, <1>3, <1>4, <1>6, <2>2, <2>3, <2>4, CallBegins DEF Ops
<1> QED BY <1>5, <1>6 DEF UpdateBound

(* An update of a tree of a branch of its own.                                *)
LEMMA UpdateTreeInv ==
  ASSUME BranchInv, NEW t \in Trees, UpdateTree(t)
  PROVE  BranchInv'
<1> DEFINE b == home[t]
<1>1. /\ UNCHANGED <<home, parents, store, tip, bound, tree, shared>>
      /\ Call(t, "update", {}, << <<"tree", b>> >>, tip[b], Null, FALSE)
  BY DEF UpdateTree, history
<1>2. BTypeOK /\ b \in Branches /\ tip[b] \in [no : Int, rev : Known]
  BY DEF BranchInv, BTypeOK
<1>3. /\ Null \in Known /\ Holds(b, Null) /\ MasterHas(Null)
      /\ Holds(b, tip[b].rev) /\ MasterHas(tip[b].rev)
  BY <1>2, TipsHold, NullIsPresent, KnownReferences
<1>4. << <<"tree", b>> >> \in Seq(StepType)
  BY <1>2, StepTypes
<1>5. CallOK(t)'
  <2>1. run'[t] = [op |-> "update", todo |-> << <<"tree", b>> >>, new |-> tip[b], old |-> Null, over |-> FALSE]
    BY <1>1, <1>2 DEF Call, BTypeOK
  <2> QED BY <1>1, <2>1 DEF CallOK, UpdateOK
<1> QED BY <1>1, <1>2, <1>3, <1>4, <1>5, CallBegins DEF Ops

(* The calls that need no step of their own: a bind or an unbind, ...         *)
LEMMA RebindInv ==
  ASSUME BranchInv, NEW t \in Trees, Rebind(t)
  PROVE  BranchInv'
<1>1. /\ UNCHANGED <<home, parents, store, tip, tree, lock, run, shared>>
      /\ bound' = [bound EXCEPT ![home[t]] = ~@] /\ home[t] # Master
      /\ lock[home[t]] \in {Free, t} /\ run[t].op = "none"
  BY DEF Rebind, history, Idle, MayLock
<1>2. BTypeOK /\ Free \notin Trees
  BY BoundBranchAssumption DEF BranchInv, BoundBranchAssumption
<1>3. BTypeOK'
  <2>1. CallType' = CallType /\ Known' = Known
    BY <1>1 DEF CallType, Known
  <2> QED BY <1>1, <1>2, <2>1 DEF BTypeOK
<1>4. Respects(t)
  BY <1>1, <1>2 DEF Respects, GraphGrows, BTypeOK
<1>5. CallOK(t) /\ CallPresent(t) /\ CallInMaster(t)
  BY DEF BranchInv, ReferencesInMaster
<1>6. run[t].todo = <<>>
  BY <1>1, <1>5 DEF CallOK, CommitHereOK, CommitBoundOK, UncommitOK, PullOK, PushOK, UpdateOK
<1>7. CallOK(t)' /\ CallPresent(t)' /\ CallInMaster(t)'
  BY <1>1, <1>5, <1>6 DEF CallOK, CallPresent, CallInMaster, Holds, MasterHas, Ancestry, Doing
<1> QED BY <1>1, <1>3, <1>4, <1>7, StepInv

(* ... and a merge: what it fetches is all of the past of the new parent.     *)
LEMMA MergeInv ==
  ASSUME BranchInv, NEW t \in Trees, NEW s \in Branches, Merge(t, s)
  PROVE  BranchInv'
<1> DEFINE b == home[t]
           r == tip[s].rev
           Good == {x \in Known : Ancestry(x) \subseteq store'[b] /\ Ancestry(x) \cap shared \subseteq store'[Master]}
<1>1. /\ UNCHANGED <<home, parents, tip, bound, lock, run, shared>>
      /\ store' = [store EXCEPT ![b] = @ \cup Ancestry(r)]
      /\ tree' = [tree EXCEPT ![t] = AcceptedParents(Append(@, r))]
      /\ run[t].op = "none"
  BY DEF Merge, history, Idle
<1>2. /\ BTypeOK /\ b \in Branches /\ Master \in Branches
      /\ CallOK(t) /\ CallPresent(t) /\ CallInMaster(t)
  BY BoundBranchAssumption DEF BranchInv, BTypeOK, BoundBranchAssumption, ReferencesInMaster
<1>3. \A c \in Branches : store[c] \subseteq store'[c]
  BY <1>1, <1>2 DEF BTypeOK
<1>4. \A x \in Known : (Ancestry(x) \subseteq store[b] \/ x = r) /\ MasterHas(x) => x \in Good
  BY <1>1, <1>2, <1>3 DEF BTypeOK, MasterHas
<1>5. Append(tree[t], r) \in Seq(Good)
  <2>1. r \in Good
    BY <1>4, TipsHold
  <2>2. \A x \in Range(tree[t]) : x \in Good
    BY <1>2, <1>4, KnownReferences DEF BranchInv, TipsArePresent, ReferencesInMaster
  <2>3. tree[t] \in Seq(Known)
    BY <1>2, KnownReferences
  <2>4. tree[t] \in Seq(Good)
    <3> HIDE DEF Good
    <3> QED BY <2>2, <2>3 DEF Range
  <2> HIDE DEF Good, r
  <2> QED BY <2>1, <2>4
<1>6. tree'[t] \in Seq(Good)
  <2>1. tree'[t] = AcceptedParents(Append(tree[t], r))
    BY <1>1, <1>2 DEF BTypeOK
  <2> HIDE DEF Good, r
  <2> QED BY <1>5, <2>1, AcceptedParentsType
<1>7. BTypeOK'
  <2>1. CallType' = CallType /\ Known' = Known
    BY <1>1 DEF CallType, Known
  <2>2. tree'[t] \in Seq(Known)
    BY <1>6
  <2>3. Ancestry(r) \subseteq Nat
    <3>1. r \in 0 .. Len(parents) /\ ParentsFirst(parents)
      BY <1>2, TipsHold DEF BTypeOK, Known
    <3> QED BY <3>1, AncestorsOlder DEF Ancestry
  <2>4. store' \in [Branches -> SUBSET Nat]
    BY <1>1, <1>2, <2>3 DEF BTypeOK
  <2>5. tree' \in [Trees -> Seq(Known)]
    BY <1>1, <1>2, <2>2 DEF BTypeOK
  <2> QED BY <1>1, <1>2, <2>1, <2>4, <2>5 DEF BTypeOK
<1>8. Respects(t)
  BY <1>1, <1>2, <1>3 DEF Respects, GraphGrows, BTypeOK
<1>9. run[t].todo = <<>>
  BY <1>1, <1>2 DEF CallOK, CommitHereOK, CommitBoundOK, UncommitOK, PullOK, PushOK, UpdateOK
<1>10. CallOK(t)'
  BY <1>1, <1>9 DEF CallOK
<1>11. CallPresent(t)' /\ CallInMaster(t)'
  BY <1>1, <1>2, <1>3, <1>9 DEF CallPresent, CallInMaster, Holds, MasterHas, Ancestry, Doing
<1>12. \A x \in Range(tree'[t]) :
         /\ AncestorsIn(parents')[x] \subseteq store'[home[t]]
         /\ AncestorsIn(parents')[x] \cap shared' \subseteq store'[Master]
  <2>1. \A x \in Range(tree'[t]) : x \in Good
    <3> HIDE DEF Good
    <3> QED BY <1>6 DEF Range
  <2> QED BY <1>1, <2>1 DEF Ancestry
<1> QED BY <1>1, <1>7, <1>8, <1>10, <1>11, <1>12, StepInv

-----------------------------------------------------------------------------
(* The steps of a call *)

(* What is left to do when the next thing is to set a tip, and to which it is *)
(* set; the lock of that branch is held.                                      *)
TipOfTree(t, b) == b = home[t] /\ run[t].todo = IntoTree(b) /\ lock[b] = t
TipOfMaster(t, b) ==
  /\ b = Master /\ lock[b] = t /\ bound[home[t]] /\ lock[home[t]] = t
  /\ run[t].todo = << <<"tip", b>>, <<"tip", home[t]>>, <<"tree", home[t]>> >>
TipPushed(t, b) ==
  /\ run[t].op = "push" /\ lock[b] = t
  /\ \/ run[t].todo = Into(b) /\ b \notin Range(home)
     \/ \E c \in Branches : /\ b = Master /\ bound[c] /\ lock[c] = t /\ c \notin Range(home)
                            /\ run[t].todo = << <<"tip", b>>, <<"tip", c>> >>

LEMMA DoingTip ==
  ASSUME NEW t \in Trees, CallOK(t), NEW b \in Branches, Doing(t, <<"tip", b>>)
  PROVE  /\ run[t].todo # <<>> /\ lock[b] = t
         /\ \/ TipOfTree(t, b) /\ run[t].op \in {"commit", "local", "uncommit", "pull", "update"}
            \/ TipOfMaster(t, b) /\ run[t].op \in {"commit", "uncommit", "pull"}
            \/ TipPushed(t, b)
<1>1. run[t].todo # <<>> /\ Head(run[t].todo) = <<"tip", b>>
  BY DEF Doing
<1>2. CASE lock[home[t]] = t /\ CommitHereOK(t)
  BY <1>1, <1>2 DEF CommitHereOK, TipOfTree, IntoTree
<1>3. CASE lock[home[t]] = t /\ CommitBoundOK(t)
  BY <1>1, <1>3 DEF CommitBoundOK, CommitSteps, TipOfTree, TipOfMaster, IntoTree
<1>4. CASE lock[home[t]] = t /\ UncommitOK(t)
  BY <1>1, <1>4 DEF UncommitOK, TipOfTree, TipOfMaster, IntoTree, IntoMasterAndTree
<1>5. CASE lock[home[t]] = t /\ PullOK(t)
  BY <1>1, <1>5 DEF PullOK, TipOfTree, TipOfMaster, IntoTree, IntoMasterAndTree
<1>6. CASE PushOK(t)
  BY <1>1, <1>6 DEF PushOK, TipPushed, Into, IntoMasterToo
<1>7. CASE UpdateOK(t)
  BY <1>1, <1>7 DEF UpdateOK, TipOfTree, IntoTree
<1> QED BY <1>1, <1>2, <1>3, <1>4, <1>5, <1>6, <1>7 DEF CallOK

(* A call ends: it leaves its locks free or, when it is killed, stale.        *)
LEMMA CallEnds ==
  ASSUME BranchInv, NEW t \in Trees, GraphGrows, home' = home,
         run' = [run EXCEPT ![t] = NoCall],
         \/ lock' = Unlocked(t)
         \/ lock' = [b \in Branches |-> IF lock[b] = t THEN Stale ELSE lock[b]]
  PROVE  /\ run' \in [Trees -> CallType'] /\ lock' \in [Branches -> Trees \cup {Free, Stale}]
         /\ \A u \in Trees \ {t} : run'[u] = run[u]
         /\ \A b \in Branches : lock[b] \in Trees \ {t} => lock'[b] = lock[b]
         /\ CallOK(t)' /\ CallPresent(t)' /\ CallInMaster(t)'
<1>1. BTypeOK
  BY DEF BranchInv
<1>2. /\ Known \subseteq Known' /\ Ancestry(Null)' = {} /\ Null \in Known
  <2>1. Ancestry(Null) = {}
    BY <1>1, AncestorsMembers DEF BTypeOK, Ancestry, Null
  <2> QED BY <1>1, <2>1, PastStable, KnownReferences
<1>3. NoCall \in CallType' /\ CallType \subseteq CallType'
  BY <1>2 DEF NoCall, NullTip, CallType, Ops
<1>4. run' \in [Trees -> CallType'] /\ run'[t] = NoCall
  BY <1>1, <1>3 DEF BTypeOK
<1>5. \A u \in Trees \ {t} : run'[u] = run[u]
  BY <1>1 DEF BTypeOK
<1>6. /\ lock' \in [Branches -> Trees \cup {Free, Stale}]
      /\ \A b \in Branches : lock[b] \in Trees \ {t} => lock'[b] = lock[b]
  BY <1>1 DEF BTypeOK, Unlocked
<1>7. CallOK(t)' /\ CallPresent(t)' /\ CallInMaster(t)'
  <2>1. /\ run'[t].op = "none" /\ run'[t].todo = <<>> /\ run'[t].old = Null
        /\ run'[t].new.rev = Null
    BY <1>4 DEF NoCall, NullTip
  <2>2. AncestorsIn(parents')[Null] = {}
    BY <1>2 DEF Ancestry
  <2> QED BY <2>1, <2>2 DEF CallOK, CallPresent, CallInMaster, Holds, MasterHas, Ancestry, Doing
<1> QED BY <1>4, <1>5, <1>6, <1>7

(* A call takes a step: it goes on to the next one, or ends.                  *)
LEMMA CallGoesOn ==
  ASSUME BranchInv, NEW t \in Trees, GraphGrows, home' = home,
         NEW call \in CallType', call.todo = run[t].todo, run[t].todo # <<>>, Next1(t, call)
  PROVE  /\ run' \in [Trees -> CallType'] /\ lock' \in [Branches -> Trees \cup {Free, Stale}]
         /\ \A u \in Trees \ {t} : run'[u] = run[u]
         /\ \A b \in Branches : lock[b] \in Trees \ {t} => lock'[b] = lock[b]
         /\ \/ /\ Len(run[t].todo) = 1
               /\ CallOK(t)' /\ CallPresent(t)' /\ CallInMaster(t)'
            \/ /\ Len(run[t].todo) # 1 /\ lock' = lock
               /\ run'[t] = [call EXCEPT !.todo = Tail(run[t].todo)]
<1>1. BTypeOK
  BY DEF BranchInv
<1>2. CASE Len(run[t].todo) = 1
  BY <1>2, CallEnds DEF Next1
<1>3. CASE Len(run[t].todo) # 1
  <2>1. run' = [run EXCEPT ![t] = [call EXCEPT !.todo = Tail(run[t].todo)]] /\ lock' = lock
    BY <1>3 DEF Next1
  <2>2. Known \subseteq Known' /\ CallType \subseteq CallType'
    <3>1. Known \subseteq Known'
      BY <1>1, PastStable
    <3> QED BY <3>1 DEF CallType
  <2>3. [call EXCEPT !.todo = Tail(run[t].todo)] \in CallType'
    <3>1. Tail(run[t].todo) \in Seq(StepType)
      BY <1>1 DEF BTypeOK, CallType
    <3> QED BY <3>1 DEF CallType
  <2>4. run' \in [Trees -> CallType']
    BY <1>1, <2>1, <2>2, <2>3 DEF BTypeOK
  <2>5. /\ \A u \in Trees \ {t} : run'[u] = run[u]
        /\ run'[t] = [call EXCEPT !.todo = Tail(run[t].todo)]
    BY <1>1, <2>1 DEF BTypeOK
  <2> QED BY <1>1, <1>3, <2>1, <2>4, <2>5 DEF BTypeOK
<1> QED BY <1>2, <1>3

(* The master is locked: the tree of a commit is found to be up to date with  *)
(* it, and an uncommit finds it where the branch is.                          *)
LEMMA LockMasterInv ==
  ASSUME BranchInv, NEW t \in Trees, LockMaster(t)
  PROVE  BranchInv'
<1>1. /\ UNCHANGED <<home, parents, store, tip, bound, tree, shared>>
      /\ Doing(t, <<"lock", Master>>) /\ lock[Master] \in {Free, t}
  BY DEF LockMaster, history, MayLock
<1>2. /\ BTypeOK /\ Master \in Branches /\ Free \notin Trees /\ home[t] \in Branches
      /\ CallOK(t) /\ CallPresent(t) /\ CallInMaster(t)
  BY BoundBranchAssumption DEF BranchInv, BTypeOK, BoundBranchAssumption, ReferencesInMaster
<1>3. Known' = Known /\ CallType' = CallType /\ GraphGrows
  BY <1>1 DEF CallType, Known, GraphGrows
<1>4. CASE Stop(t)
  <2>1. /\ run' \in [Trees -> CallType'] /\ lock' \in [Branches -> Trees \cup {Free, Stale}]
        /\ \A u \in Trees \ {t} : run'[u] = run[u]
        /\ \A b \in Branches : lock[b] \in Trees \ {t} => lock'[b] = lock[b]
        /\ CallOK(t)' /\ CallPresent(t)' /\ CallInMaster(t)'
    BY <1>1, <1>3, <1>4, CallEnds DEF Stop
  <2>2. BTypeOK'
    BY <1>1, <1>2, <1>3, <2>1 DEF BTypeOK
  <2>3. Respects(t)
    BY <1>1, <1>2, <1>3, <2>1 DEF Respects, BTypeOK
  <2> QED BY <1>1, <2>1, <2>2, <2>3, StepInv
<1>5. CASE /\ MasterAgrees(t) /\ lock' = [lock EXCEPT ![Master] = t]
           /\ run' = [run EXCEPT ![t].todo = Tail(@),
                                 ![t].new.no = IF run[t].op = "commit"
                                               THEN tip[Master].no + 1 ELSE @]
  <2>0. run[t] \in CallType /\ tip[Master].no \in Int
    BY <1>2 DEF BTypeOK
  <2>1. PICK no \in Int : run' = [run EXCEPT ![t] = [run[t] EXCEPT !.todo = Tail(@), !.new.no = no]]
    <3>1. run[t].new.no \in Int /\ tip[Master].no + 1 \in Int
      BY <2>0 DEF CallType
    <3>2. CASE run[t].op = "commit"
      BY <1>5, <3>1, <3>2
    <3>3. CASE run[t].op # "commit"
      BY <1>5, <3>1, <3>3
    <3> QED BY <3>2, <3>3
  <2>2. /\ run'[t].op = run[t].op /\ run'[t].todo = Tail(run[t].todo)
        /\ run'[t].new.rev = run[t].new.rev /\ run'[t].old = run[t].old
        /\ run'[t] \in CallType
    <3>1. Tail(run[t].todo) \in Seq(StepType)
      BY <1>1, <2>0 DEF Doing, CallType
    <3>2. run'[t] = [run[t] EXCEPT !.todo = Tail(@), !.new.no = no]
      BY <1>2, <2>1 DEF BTypeOK
    <3> DEFINE c == run[t]
               new == [c.new EXCEPT !.no = no]
               next == [op |-> c.op, todo |-> Tail(c.todo), new |-> new, old |-> c.old, over |-> c.over]
    <3>3. /\ c.op \in Ops /\ c.new \in [no : Int, rev : Known] /\ c.old \in Known /\ c.over \in BOOLEAN
          /\ c = [op |-> c.op, todo |-> c.todo, new |-> c.new, old |-> c.old, over |-> c.over]
      BY <2>0 DEF CallType
    <3>4. new \in [no : Int, rev : Known] /\ new.rev = c.new.rev
      BY <3>3
    <3>5. run'[t] = next
      BY <3>2, <3>3
    <3>6. next \in CallType
      <4> HIDE DEF new
      <4> QED BY <3>1, <3>3, <3>4 DEF CallType
    <3> QED BY <3>4, <3>5, <3>6
  <2>3. BTypeOK'
    <3>1. run' \in [Trees -> CallType]
      BY <1>2, <2>1, <2>2 DEF BTypeOK
    <3> QED BY <1>1, <1>2, <1>3, <1>5, <3>1 DEF BTypeOK
  <2>4. Respects(t)
    BY <1>1, <1>2, <1>3, <1>5, <2>1 DEF Respects, BTypeOK
  <2>5. /\ CallOK(t)' /\ ~Doing(t, <<"tip", Master>>)
        /\ run[t].op = "commit" \/ run[t].op = "uncommit" \/ run[t].op = "pull" \/ run[t].op = "push"
    <3>1. run[t].todo # <<>> /\ Head(run[t].todo) = <<"lock", Master>>
      BY <1>1 DEF Doing
    <3>2. lock'[Master] = t /\ (\A b \in Branches : lock[b] = t => lock'[b] = t)
      BY <1>2, <1>5 DEF BTypeOK
    <3>3. ~Doing(t, <<"tip", Master>>)
      BY <3>1 DEF Doing
    <3>4. CASE lock[home[t]] = t /\ CommitBoundOK(t)
      <4>1. /\ run[t].op = "commit" /\ bound[home[t]] /\ run[t].todo = CommitSteps(home[t])
            /\ run[t].new.rev = Null
        BY <3>1, <3>4 DEF CommitBoundOK, IntoTree
      <4>2. Unmoved(Master, Basis(t))'
        BY <1>1, <1>5, <4>1 DEF MasterAgrees, UpToDate, Unmoved, Basis
      <4>3. run'[t].todo = << <<"record", home[t]>>, <<"tip", Master>>, <<"tip", home[t]>>, <<"tree", home[t]>> >>
        BY <2>2, <4>1 DEF CommitSteps
      <4>4. CommitBoundOK(t)'
        BY <1>1, <2>2, <3>2, <4>1, <4>2, <4>3 DEF CommitBoundOK
      <4> QED BY <1>1, <1>2, <3>2, <3>3, <3>4, <4>1, <4>4 DEF CallOK
    <3>5. CASE lock[home[t]] = t /\ UncommitOK(t)
      <4>1. /\ run[t].op = "uncommit" /\ bound[home[t]] /\ run[t].todo = IntoMasterAndTree(home[t])
            /\ tip[home[t]].rev = run[t].old
        BY <3>1, <3>5 DEF UncommitOK, IntoMasterAndTree, IntoTree
      <4>2. tip[Master].rev = run[t].old
        BY <1>5, <4>1 DEF MasterAgrees
      <4>3. UncommitOK(t)'
        BY <1>1, <2>2, <3>2, <3>5, <4>1, <4>2 DEF UncommitOK, LeftParent, IntoMasterAndTree
      <4> QED BY <1>1, <1>2, <3>2, <3>3, <3>5, <4>1, <4>3 DEF CallOK
    <3>6. CASE lock[home[t]] = t /\ PullOK(t)
      <4>1. run[t].op = "pull" /\ bound[home[t]] /\ run[t].todo = IntoMasterAndTree(home[t])
        BY <3>1, <3>6 DEF PullOK, IntoMasterAndTree, IntoTree
      <4>2. PullOK(t)'
        BY <1>1, <2>2, <3>2, <4>1 DEF PullOK, IntoMasterAndTree
      <4> QED BY <1>1, <1>2, <3>2, <3>3, <3>6, <4>1, <4>2 DEF CallOK
    <3>7. CASE PushOK(t)
      <4>1. PICK b \in Branches : /\ run[t].op = "push" /\ lock[b] = t /\ b \notin Range(home)
                                  /\ bound[b] /\ run[t].todo = IntoMasterToo(b)
        BY <3>1, <3>7 DEF PushOK, Into, IntoMasterToo
      <4>2. Range(home)' = Range(home)
        BY <1>1
      <4>3. PushOK(t)'
        BY <1>1, <2>2, <3>2, <4>1, <4>2 DEF PushOK
      <4> QED BY <3>3, <4>1, <4>3 DEF CallOK
    <3>8. ~(lock[home[t]] = t /\ CommitHereOK(t)) /\ ~UpdateOK(t)
      BY <3>1 DEF CommitHereOK, UpdateOK, IntoTree
    <3> QED BY <1>2, <3>1, <3>4, <3>5, <3>6, <3>7, <3>8 DEF CallOK
  <2>6. CallPresent(t)'
    BY <1>1, <1>2, <2>2, <2>5 DEF CallPresent, Holds, Ancestry
  <2>7. CallInMaster(t)'
    BY <1>1, <1>2, <2>2, <2>5 DEF CallInMaster, MasterHas, Ancestry
  <2> QED BY <1>1, <2>3, <2>4, <2>5, <2>6, <2>7, StepInv
<1> QED BY <1>4, <1>5 DEF LockMaster

(* A call that ends without changing more: it waits too long for the master,  *)
(* fails or is killed.                                                        *)
LEMMA StopInv ==
  ASSUME BranchInv, NEW t \in Trees, run' = [run EXCEPT ![t] = NoCall],
         \/ lock' = Unlocked(t)
         \/ lock' = [b \in Branches |-> IF lock[b] = t THEN Stale ELSE lock[b]],
         UNCHANGED <<home, parents, store, tip, bound, tree, shared>>
  PROVE  BranchInv'
<1>1. BTypeOK
  BY DEF BranchInv
<1>2. Known' = Known /\ CallType' = CallType /\ GraphGrows
  BY DEF CallType, Known, GraphGrows
<1>3. /\ run' \in [Trees -> CallType'] /\ lock' \in [Branches -> Trees \cup {Free, Stale}]
      /\ \A u \in Trees \ {t} : run'[u] = run[u]
      /\ \A b \in Branches : lock[b] \in Trees \ {t} => lock'[b] = lock[b]
      /\ CallOK(t)' /\ CallPresent(t)' /\ CallInMaster(t)'
  BY <1>2, CallEnds
<1>4. BTypeOK'
  BY <1>1, <1>2, <1>3 DEF BTypeOK
<1>5. Respects(t)
  BY <1>1, <1>2, <1>3 DEF Respects, BTypeOK
<1> QED BY <1>3, <1>4, <1>5, StepInv

(* A lock that a dead process left is broken: it was nobody's.                *)
LEMMA BreakLockInv ==
  ASSUME BranchInv, NEW b \in Branches, BreakLock(b)
  PROVE  BranchInv'
<1>1. /\ UNCHANGED <<home, parents, store, tip, bound, tree, run, shared>>
      /\ lock[b] = Stale /\ lock' = [lock EXCEPT ![b] = Free]
  BY DEF BreakLock, history
<1>2. BTypeOK /\ Stale \notin Trees
  BY BoundBranchAssumption DEF BranchInv, BoundBranchAssumption
<1>3. \A t \in Trees : \A c \in Branches : lock[c] = t => lock'[c] = t
  BY <1>1, <1>2 DEF BTypeOK
<1>4. BTypeOK'
  <2>1. CallType' = CallType /\ Known' = Known
    BY <1>1 DEF CallType, Known
  <2> QED BY <1>1, <1>2, <2>1 DEF BTypeOK
<1>5. ASSUME NEW t \in Trees PROVE CallOK(t)' /\ CallPresent(t)'
  <2>1. /\ CallOK(t) /\ CallPresent(t) /\ home[t] \in Branches /\ Master \in Branches
        /\ Range(home)' = Range(home)
        /\ \A r : LeftParent(r)' = LeftParent(r) /\ Ancestry(r)' = Ancestry(r)
        /\ \A c, r : Unmoved(c, r)' = Unmoved(c, r)
    BY <1>1, <1>2, BoundBranchAssumption
       DEF BranchInv, BTypeOK, BoundBranchAssumption, LeftParent, Ancestry, Unmoved
  <2>2. Basis(t)' = Basis(t)
    BY <1>1 DEF Basis
  <2>3. lock[home[t]] = t => lock'[home[t]] = t
    BY <1>3, <2>1
  <2>4. CommitHereOK(t) => CommitHereOK(t)'
    BY <1>1, <2>1, <2>2 DEF CommitHereOK, Unmoved, LeftParent
  <2>5. CommitBoundOK(t) => CommitBoundOK(t)'
    BY <1>1, <1>3, <2>1, <2>2 DEF CommitBoundOK, Unmoved, LeftParent
  <2>6. UncommitOK(t) => UncommitOK(t)'
    BY <1>1, <1>3, <2>1 DEF UncommitOK, LeftParent
  <2>7. PullOK(t) => PullOK(t)'
    BY <1>1, <1>3, <2>1 DEF PullOK
  <2>8. PushOK(t) => PushOK(t)'
    BY <1>1, <1>3, <2>1 DEF PushOK
  <2>9. UpdateOK(t) => UpdateOK(t)'
    BY <1>1, <1>3, <2>1 DEF UpdateOK
  <2>10. CallOK(t)'
    BY <1>1, <2>1, <2>3, <2>4, <2>5, <2>6, <2>7, <2>8, <2>9 DEF CallOK
  <2> QED BY <1>1, <2>1, <2>10 DEF CallPresent, Holds, Ancestry
<1>6. TipsArePresent' /\ ReferencesInMaster'
  BY <1>1 DEF BranchInv, TipsArePresent, ReferencesInMaster, CallInMaster, MasterHas, Ancestry, Doing
<1> QED BY <1>4, <1>5, <1>6 DEF BranchInv

(* The lists that set_parent_trees is called with are made of the parents of  *)
(* the tree and a few revisions more.                                         *)
LEMMA SeqClosed ==
  ASSUME NEW R, NEW s \in Seq(R), NEW u \in Seq(R), NEW x \in R
  PROVE  /\ Reverse(s) \in Seq(R) /\ s \o u \in Seq(R) /\ Append(s, x) \in Seq(R)
         /\ s # <<>> => Tail(s) \in Seq(R)
         /\ <<>> \in Seq(R) /\ <<x>> \in Seq(R)
<1>1. Reverse(s) \in Seq(R)
  <2>1. Reverse(s) = [i \in 1 .. Len(s) |-> s[(Len(s) - i) + 1]]
    BY DEF Reverse
  <2>2. Len(s) \in Nat /\ \A i \in 1 .. Len(s) : s[(Len(s) - i) + 1] \in R
    OBVIOUS
  <2> QED BY <2>1, <2>2
<1>2. s \o u \in Seq(R) /\ Append(s, x) \in Seq(R)
  OBVIOUS
<1> QED BY <1>1, <1>2

(* What is left of a call that is about to set the parents of its tree.       *)
LEMMA DoingTree ==
  ASSUME NEW t \in Trees, CallOK(t), Doing(t, <<"tree", home[t]>>)
  PROVE  /\ run[t].todo = << <<"tree", home[t]>> >>
         /\ run[t].op \in {"commit", "local", "uncommit", "pull", "update"}
         /\ run[t].op = "uncommit" => run[t].old # Null
<1>1. run[t].todo # <<>> /\ Head(run[t].todo) = <<"tree", home[t]>>
  BY DEF Doing
<1>2. CASE CommitHereOK(t)
  BY <1>1, <1>2 DEF CommitHereOK, IntoTree
<1>3. CASE CommitBoundOK(t)
  BY <1>1, <1>3 DEF CommitBoundOK, CommitSteps, IntoTree
<1>4. CASE UncommitOK(t)
  BY <1>1, <1>4 DEF UncommitOK, IntoTree, IntoMasterAndTree
<1>5. CASE PullOK(t)
  BY <1>1, <1>5 DEF PullOK, IntoTree, IntoMasterAndTree
<1>6. CASE UpdateOK(t)
  BY <1>1, <1>6 DEF UpdateOK, IntoTree
<1>7. ~PushOK(t)
  BY <1>1 DEF PushOK, Into, IntoMasterToo
<1> QED BY <1>1, <1>2, <1>3, <1>4, <1>5, <1>6, <1>7 DEF CallOK

(* A tree only gets parents that the repository of its branch has.            *)
LEMMA NewParentsGood ==
  ASSUME BranchInv, NEW t \in Trees, Doing(t, <<"tree", home[t]>>), NEW ids \in NewParents(t)
  PROVE  ids \in Seq({x \in Known : Holds(home[t], x) /\ MasterHas(x)})
<1> DEFINE G == {x \in Known : Holds(home[t], x) /\ MasterHas(x)}
<1> SUFFICES ids \in Seq(G)
  OBVIOUS
<1>1. /\ BTypeOK /\ CallOK(t) /\ CallPresent(t) /\ CallInMaster(t) /\ home[t] \in Branches
  BY DEF BranchInv, BTypeOK, ReferencesInMaster
<1>2. /\ run[t].todo = << <<"tree", home[t]>> >>
      /\ run[t].op \in {"commit", "local", "uncommit", "pull", "update"}
      /\ run[t].op = "uncommit" => run[t].old # Null
  BY <1>1, DoingTree
<1>3. /\ tip[home[t]].rev \in G /\ run[t].old \in G
      /\ run[t].op # "pull" => run[t].new.rev \in G
  <2>1. ~Doing(t, <<"tip", Master>>)
    BY DEF Doing
  <2>2. run[t].op # "pull" => Holds(home[t], run[t].new.rev)
    BY <1>1, <1>2 DEF CallPresent
  <2>3. MasterHas(run[t].new.rev) /\ MasterHas(run[t].old) /\ Holds(home[t], run[t].old)
    BY <1>1, <2>1 DEF CallInMaster, CallPresent
  <2> QED BY <1>1, <2>2, <2>3, TipsHold, KnownReferences
<1>4. tree[t] \in Seq(G) /\ Merges(t) \in Seq(G)
  <2>1. \A x \in Range(tree[t]) : x \in G
    BY <1>1, KnownReferences DEF BranchInv, TipsArePresent, ReferencesInMaster, Holds
  <2>2. tree[t] \in Seq(Known)
    BY <1>1, KnownReferences
  <2> HIDE DEF G
  <2>3. tree[t] \in Seq(G)
    BY <2>1, <2>2 DEF Range
  <2> QED BY <2>3 DEF Merges
<1>5. ASSUME run[t].old # Null, parents[run[t].old] # <<>>
      PROVE  Tail(parents[run[t].old]) \in Seq(G)
  <2> DEFINE r == run[t].old
  <2>1. r \in 1 .. Len(parents) /\ ParentsFirst(parents) /\ parents[r] \in Seq(Nat)
    <3>1. r \in Known /\ Len(parents) \in Nat /\ ParentsFirst(parents)
      BY <1>1, KnownReferences DEF BTypeOK
    <3>2. r \in 1 .. Len(parents)
      BY <1>5, <3>1 DEF Known, Null
    <3> QED BY <3>1, <3>2 DEF ParentsFirst
  <2>2. ASSUME NEW p \in Range(parents[r]) PROVE p \in G
    <3>1. p \in Nat /\ p < r /\ Ancestry(p) \subseteq Ancestry(r)
      BY <2>1, AncestorsMembers DEF Ancestry
    <3>2. p \in Known
      BY <2>1, <3>1 DEF Known
    <3> QED BY <1>3, <3>1, <3>2 DEF Holds, MasterHas
  <2> HIDE DEF G, r
  <2>3. parents[r] \in Seq(G)
    BY <2>1, <2>2 DEF Range
  <2> QED BY <1>5, <2>3 DEF r
<1> HIDE DEF G
<1>6. CASE run[t].op \in {"commit", "local"}
  <2>1. ids = <<run[t].new.rev>> /\ run[t].new.rev \in G
    BY <1>3, <1>6 DEF NewParents, CommittedParents
  <2> QED BY <2>1
<1>7. CASE run[t].op = "uncommit"
  <2> DEFINE first == IF run[t].new.rev = Null THEN <<>> ELSE <<run[t].new.rev>>
             merged == IF parents[run[t].old] = <<>> THEN <<>> ELSE Reverse(Tail(parents[run[t].old]))
  <2>1. ids = AcceptedParents(first \o Reverse(Merges(t) \o merged))
    BY <1>7 DEF NewParents, UncommittedParents
  <2>2. first \in Seq(G) /\ merged \in Seq(G)
    <3>1. first \in Seq(G)
      BY <1>3, <1>7
    <3>2. CASE parents[run[t].old] = <<>>
      BY <3>1, <3>2
    <3>3. CASE parents[run[t].old] # <<>>
      <4>1. Tail(parents[run[t].old]) \in Seq(G)
        BY <1>2, <1>5, <1>7, <3>3
      <4>2. merged = Reverse(Tail(parents[run[t].old]))
        BY <3>3
      <4> HIDE DEF first, merged
      <4>3. Reverse(Tail(parents[run[t].old])) \in Seq(G)
        BY <1>3, <4>1, SeqClosed
      <4> QED BY <3>1, <4>2, <4>3
    <3> QED BY <3>2, <3>3
  <2> HIDE DEF first, merged
  <2>3. Merges(t) \o merged \in Seq(G)
    BY <1>3, <1>4, <2>2, SeqClosed
  <2>4. first \o Reverse(Merges(t) \o merged) \in Seq(G)
    BY <1>3, <2>2, <2>3, SeqClosed
  <2> QED BY <2>1, <2>4, AcceptedParentsType
<1>8. CASE run[t].op = "pull"
  <2>1. ids = tree[t] \/ ids = AcceptedParents(<<tip[home[t]].rev>> \o Merges(t))
    BY <1>8 DEF NewParents, PulledParents
  <2>2. <<tip[home[t]].rev>> \o Merges(t) \in Seq(G)
    <3>1. <<tip[home[t]].rev>> \in Seq(G)
      BY <1>3
    <3> QED BY <1>3, <1>4, <3>1, SeqClosed
  <2> QED BY <1>4, <2>1, <2>2, AcceptedParentsType
<1>9. CASE run[t].op = "update"
  <2> DEFINE mine == AcceptedParents(<<run[t].new.rev>> \o Merges(t))
  <2>1. \/ ids = tree[t] \/ ids = AcceptedParents(mine \o KeepOld(t))
        \/ ids = AcceptedParents(Append(tree[t], run[t].old))
    BY <1>9 DEF NewParents, UpdatedParents
  <2>2. KeepOld(t) \in Seq(G) /\ <<run[t].new.rev>> \in Seq(G)
    BY <1>3, <1>9 DEF KeepOld
  <2>3. mine \in Seq(G)
    BY <1>3, <1>4, <2>2, SeqClosed, AcceptedParentsType
  <2> HIDE DEF mine
  <2>4. mine \o KeepOld(t) \in Seq(G) /\ Append(tree[t], run[t].old) \in Seq(G)
    BY <1>3, <1>4, <2>2, <2>3, SeqClosed
  <2> QED BY <1>4, <2>1, <2>4, AcceptedParentsType
<1> QED BY <1>2, <1>6, <1>7, <1>8, <1>9

(* The parents of the tree are set: the last step of a call.                  *)
LEMMA SetTreeInv ==
  ASSUME BranchInv, NEW t \in Trees, SetTree(t)
  PROVE  BranchInv'
<1>1. /\ UNCHANGED <<home, parents, store, tip, bound, shared>>
      /\ Doing(t, <<"tree", home[t]>>) /\ Next1(t, run[t])
  BY DEF SetTree, history, Done
<1>2. PICK ids \in NewParents(t) : tree' = [tree EXCEPT ![t] = ids]
  BY DEF SetTree
<1>3. /\ BTypeOK /\ home[t] \in Branches /\ CallOK(t)
      /\ Known' = Known /\ CallType' = CallType /\ GraphGrows
  BY <1>1 DEF BranchInv, BTypeOK, CallType, Known, GraphGrows
<1>4. /\ run' \in [Trees -> CallType'] /\ lock' \in [Branches -> Trees \cup {Free, Stale}]
      /\ \A u \in Trees \ {t} : run'[u] = run[u]
      /\ \A b \in Branches : lock[b] \in Trees \ {t} => lock'[b] = lock[b]
      /\ CallOK(t)' /\ CallPresent(t)' /\ CallInMaster(t)'
  <2>1. run[t] \in CallType' /\ run[t].todo # <<>> /\ Len(run[t].todo) = 1
    <3>1. run[t].todo = << <<"tree", home[t]>> >>
      BY <1>1, <1>3, DoingTree
    <3> QED BY <1>3, <3>1 DEF BTypeOK
  <2> QED BY <1>1, <1>3, <2>1, CallGoesOn
<1>5. tree'[t] = ids /\ ids \in Seq({x \in Known : Holds(home[t], x) /\ MasterHas(x)})
  BY <1>1, <1>2, <1>3, NewParentsGood DEF BTypeOK
<1>6. BTypeOK'
  <2>1. ids \in Seq(Known)
    BY <1>5
  <2>2. tree' \in [Trees -> Seq(Known)]
    BY <1>2, <1>3, <2>1 DEF BTypeOK
  <2> QED BY <1>1, <1>3, <1>4, <2>2 DEF BTypeOK
<1>7. Respects(t)
  BY <1>1, <1>2, <1>3, <1>4 DEF Respects, BTypeOK
<1>8. \A x \in Range(tree'[t]) :
        /\ AncestorsIn(parents')[x] \subseteq store'[home[t]]
        /\ AncestorsIn(parents')[x] \cap shared' \subseteq store'[Master]
  <2>1. \A x \in Range(ids) : Holds(home[t], x) /\ MasterHas(x)
    BY <1>5 DEF Range
  <2> QED BY <1>1, <1>5, <2>1 DEF Holds, MasterHas, Ancestry
<1> QED BY <1>1, <1>4, <1>6, <1>7, <1>8, StepInv

(* What is left of a commit that is about to record its revision.             *)
LEMMA DoingRecord ==
  ASSUME NEW t \in Trees, CallOK(t), Doing(t, <<"record", home[t]>>)
  PROVE  /\ run[t].op \in {"commit", "local"} /\ lock[home[t]] = t
         /\ \/ /\ run[t].todo = << <<"record", home[t]>>, <<"tip", home[t]>>, <<"tree", home[t]>> >>
               /\ Unmoved(home[t], Basis(t))
            \/ /\ run[t].todo = << <<"record", home[t]>>, <<"tip", Master>>,
                                   <<"tip", home[t]>>, <<"tree", home[t]>> >>
               /\ run[t].op = "commit" /\ bound[home[t]]
               /\ lock[Master] = t /\ Unmoved(Master, Basis(t))
<1>1. run[t].todo # <<>> /\ Head(run[t].todo) = <<"record", home[t]>>
  BY DEF Doing
<1>2. CASE lock[home[t]] = t /\ CommitHereOK(t)
  BY <1>1, <1>2 DEF CommitHereOK, IntoTree
<1>3. CASE lock[home[t]] = t /\ CommitBoundOK(t)
  BY <1>1, <1>3 DEF CommitBoundOK, CommitSteps, IntoTree
<1>4. ~UncommitOK(t) /\ ~PullOK(t)
  BY <1>1 DEF UncommitOK, PullOK, IntoTree, IntoMasterAndTree
<1>5. ~PushOK(t) /\ ~UpdateOK(t)
  BY <1>1 DEF PushOK, UpdateOK, Into, IntoMasterToo, IntoTree
<1> QED BY <1>1, <1>2, <1>3, <1>4, <1>5 DEF CallOK

(* The revision of a commit is recorded, and nobody refers to it yet but the  *)
(* call itself.                                                               *)
LEMMA RecordInv ==
  ASSUME BranchInv, NEW t \in Trees, Record(t)
  PROVE  BranchInv'
<1> DEFINE b == home[t]
           new == Len(parents) + 1
           call == [run[t] EXCEPT !.new.rev = new]
<1>1. UNCHANGED <<home, tip, bound, tree>> /\ Doing(t, <<"record", b>>)
  BY DEF Record
<1>2. /\ BTypeOK /\ b \in Branches /\ Master \in Branches
      /\ CallOK(t) /\ CallPresent(t) /\ CallInMaster(t)
  BY BoundBranchAssumption DEF BranchInv, BTypeOK, BoundBranchAssumption, ReferencesInMaster
<1>3. CASE Len(parents) = MaxTips
  <2>1. Stop(t) /\ UNCHANGED <<parents, store, shared>>
    BY <1>3 DEF Record
  <2> QED BY <1>1, <2>1, StopInv DEF Stop
<1>4. CASE Len(parents) # MaxTips
  <2>1. /\ parents' = Append(parents, tree[t])
        /\ store' = [store EXCEPT ![b] = @ \cup {new}]
        /\ shared' = IF Len(run[t].todo) = 4 THEN shared \cup {new} ELSE shared
        /\ Next1(t, call)
    BY <1>4 DEF Record
  <2>2. GraphGrows
    BY <2>1 DEF GraphGrows
  <2>3. /\ Len(parents) \in Nat /\ ParentsFirst(parents') /\ Known \subseteq Known' /\ new \in Known'
        /\ parents'[new] = tree[t] /\ Len(parents') = new
    <3>1. Len(parents) \in Nat /\ ParentsFirst(parents') /\ Known \subseteq Known'
      BY <1>2, <2>2, PastStable
    <3>2. parents'[new] = tree[t] /\ Len(parents') = new
      BY <1>2, <2>1, GrownParents
    <3> QED BY <3>1, <3>2 DEF Known
  <2>4. call \in CallType' /\ call.todo = run[t].todo
    <3>1. run[t] \in CallType
      BY <1>2 DEF BTypeOK
    <3> QED BY <2>3, <3>1 DEF CallType
  <2>5. /\ run[t].op \in {"commit", "local"} /\ lock[b] = t
        /\ \/ /\ run[t].todo = << <<"record", b>>, <<"tip", b>>, <<"tree", b>> >>
              /\ Unmoved(b, Basis(t))
           \/ /\ run[t].todo = << <<"record", b>>, <<"tip", Master>>, <<"tip", b>>, <<"tree", b>> >>
              /\ run[t].op = "commit" /\ bound[b]
              /\ lock[Master] = t /\ Unmoved(Master, Basis(t))
    BY <1>1, <1>2, DoingRecord
  <2>6. Len(run[t].todo) = 3 \/ (Len(run[t].todo) = 4 /\ run[t].op = "commit")
    <3>1. CASE run[t].todo = << <<"record", b>>, <<"tip", b>>, <<"tree", b>> >>
      BY <3>1
    <3>2. CASE run[t].todo = << <<"record", b>>, <<"tip", Master>>, <<"tip", b>>, <<"tree", b>> >>
      <4>1. Len(run[t].todo) = 4
        BY <3>2
      <4>2. run[t].todo # << <<"record", b>>, <<"tip", b>>, <<"tree", b>> >>
        BY <4>1
      <4> QED BY <2>5, <4>1, <4>2
    <3> QED BY <2>5, <3>1, <3>2
  <2>7. /\ run' \in [Trees -> CallType'] /\ lock' = lock
        /\ \A u \in Trees \ {t} : run'[u] = run[u]
        /\ run'[t] = [call EXCEPT !.todo = Tail(run[t].todo)]
    <3>1. run[t].todo # <<>> /\ Len(run[t].todo) # 1
      BY <2>6
    <3> HIDE DEF call
    <3> QED BY <1>1, <2>1, <2>2, <2>4, <3>1, CallGoesOn
  <2>8. /\ run'[t].op = run[t].op /\ run'[t].todo = Tail(run[t].todo)
        /\ run'[t].new.rev = new /\ run'[t].old = run[t].old
    <3>1. run[t] \in CallType
      BY <1>2 DEF BTypeOK
    <3> QED BY <2>7, <3>1 DEF CallType
  <2>9. /\ store' \in [Branches -> SUBSET Nat]
        /\ \A c \in Branches : store[c] \subseteq store'[c]
        /\ store'[b] = store[b] \cup {new}
    BY <1>2, <2>1, <2>3 DEF BTypeOK
  <2>10. BTypeOK'
    <3>1. tip \in [Branches -> [no : Int, rev : Known']]
      BY <1>2, <2>3 DEF BTypeOK
    <3>2. tree \in [Trees -> Seq(Known')]
      <4>1. ASSUME NEW u \in Trees PROVE tree[u] \in Seq(Known')
        <5>1. tree[u] \in Seq(Known)
          BY <1>2, KnownReferences
        <5> QED BY <2>3, <5>1
      <4> QED BY <1>2, <4>1 DEF BTypeOK
    <3>3. shared' \subseteq 1 .. Len(parents')
      <4>1. shared \subseteq 1 .. Len(parents)
        BY <1>2 DEF BTypeOK
      <4> QED BY <2>1, <2>3, <4>1
    <3> QED BY <1>1, <1>2, <2>3, <2>7, <2>9, <3>1, <3>2, <3>3 DEF BTypeOK
  <2>11. Respects(t)
    BY <1>1, <1>2, <2>1, <2>2, <2>7, <2>9 DEF Respects, BTypeOK
  <2>12. (IF parents'[new] = <<>> THEN Null ELSE Head(parents'[new])) = Basis(t) /\ new # Null
    BY <2>3 DEF Basis, Null
  <2>13. /\ CallOK(t)'
         /\ \/ Len(run[t].todo) = 3 /\ (run'[t].op = "commit" => run'[t].todo = IntoTree(b))
            \/ Doing(t, <<"tip", Master>>)'
    <3>1. CASE /\ run[t].todo = << <<"record", b>>, <<"tip", b>>, <<"tree", b>> >>
               /\ Unmoved(b, Basis(t))
      <4>1. run'[t].todo = IntoTree(b) /\ Len(run[t].todo) = 3
        BY <2>8, <3>1 DEF IntoTree
      <4>2. Unmoved(b, LeftParent(run[t].new.rev))'
        BY <1>1, <2>8, <2>12, <3>1 DEF Unmoved, LeftParent
      <4>3. CommitHereOK(t)'
        BY <1>1, <2>5, <2>8, <2>12, <4>1, <4>2 DEF CommitHereOK
      <4> QED BY <1>1, <2>5, <2>7, <4>1, <4>3 DEF CallOK
    <3>2. CASE /\ run[t].todo = << <<"record", b>>, <<"tip", Master>>, <<"tip", b>>, <<"tree", b>> >>
               /\ run[t].op = "commit" /\ bound[b]
               /\ lock[Master] = t /\ Unmoved(Master, Basis(t))
      <4>1. run'[t].todo = << <<"tip", Master>>, <<"tip", b>>, <<"tree", b>> >>
        BY <2>8, <3>2
      <4>2. Unmoved(Master, LeftParent(run[t].new.rev))'
        BY <1>1, <2>8, <2>12, <3>2 DEF Unmoved, LeftParent
      <4>3. CommitBoundOK(t)'
        BY <1>1, <2>7, <2>8, <2>12, <3>2, <4>1, <4>2 DEF CommitBoundOK
      <4>4. Doing(t, <<"tip", Master>>)'
        BY <4>1 DEF Doing
      <4> QED BY <1>1, <2>5, <2>7, <4>3, <4>4 DEF CallOK
    <3> QED BY <2>5, <3>1, <3>2
  <2>14. \A x : x \in AncestorsIn(parents')[new] <=>
                 x = new \/ \E p \in Range(tree[t]) : x \in Ancestry(p)
    <3>1. new \in 1 .. Len(parents')
      BY <2>3
    <3>2. \A x : x \in AncestorsIn(parents')[new] <=>
                  x = new \/ \E p \in Range(tree[t]) : x \in AncestorsIn(parents')[p]
      BY <2>3, <3>1, AncestorsMembers
    <3>3. \A p \in Range(tree[t]) : AncestorsIn(parents')[p] = Ancestry(p)
      BY <1>2, <2>2, PastStable, KnownReferences DEF Ancestry
    <3> QED BY <3>2, <3>3
  <2>15. Holds(home[t], run[t].old)' /\ MasterHas(run[t].old)'
    <3>1. Holds(home[t], run[t].old) /\ MasterHas(run[t].old) /\ run[t].old \in Known
      BY <1>2, KnownReferences DEF CallPresent, CallInMaster
    <3>2. Holds(b, run[t].old)' /\ MasterHas(run[t].old)'
      <4> DEFINE r == run[t].old
      <4>1. r \in Known /\ Holds(b, r) /\ MasterHas(r) /\ run'[t].old = r
        BY <2>8, <3>1
      <4> HIDE DEF r
      <4>2. AncestorsIn(parents')[r] \subseteq store'[b] /\ AncestorsIn(parents')[r] \cap shared' \subseteq store'[Master]
        BY <1>2, <2>11, <4>1, ReferencesStable DEF Holds, MasterHas, Ancestry
      <4> QED BY <1>1, <4>1, <4>2 DEF Holds, MasterHas, Ancestry
    <3> QED BY <1>1, <3>2 DEF Holds
  <2>16. CallPresent(t)'
    <3>1. AncestorsIn(parents')[new] \subseteq store'[b]
      <4>1. \A p \in Range(tree[t]) : Ancestry(p) \subseteq store[b]
        BY DEF BranchInv, TipsArePresent
      <4> QED BY <2>9, <2>14, <4>1
    <3> QED BY <1>1, <2>8, <2>15, <3>1 DEF CallPresent, Holds, Ancestry
  <2>17. CallInMaster(t)'
    <3>1. CASE Len(run[t].todo) = 3
      <4>1. shared' = shared /\ new \notin shared
        <5>1. shared \subseteq 1 .. Len(parents)
          BY <1>2 DEF BTypeOK
        <5> QED BY <2>1, <2>3, <3>1, <5>1
      <4>2. \A p \in Range(tree[t]) : MasterHas(p)
        BY DEF BranchInv, ReferencesInMaster
      <4>3. AncestorsIn(parents')[new] \cap shared' \subseteq store'[Master]
        BY <1>2, <2>9, <2>14, <4>1, <4>2 DEF MasterHas
      <4> QED BY <2>8, <2>15, <4>3 DEF CallInMaster, MasterHas, Ancestry
    <3>2. CASE Doing(t, <<"tip", Master>>)'
      <4>1. run'[t].op = "commit" \/ Len(run[t].todo) = 3
        BY <2>6, <2>8
      <4> QED BY <2>15, <3>1, <3>2, <4>1 DEF CallInMaster
    <3> QED BY <2>13, <3>1, <3>2
  <2> QED BY <1>1, <2>10, <2>11, <2>13, <2>16, <2>17, StepInv
<1> QED BY <1>3, <1>4

(* What a call has under way is in order after it has set a tip.              *)
LEMMA TipSetOK ==
  ASSUME BTypeOK, BTypeOK', NEW t \in Trees, NEW b \in Branches, CallOK(t), Doing(t, <<"tip", b>>),
         UNCHANGED <<home, parents, bound, tree, lock>>,
         run'[t] = [run[t] EXCEPT !.todo = Tail(run[t].todo)], Len(run[t].todo) # 1,
         \A c \in Branches \ {b} : tip'[c] = tip[c],
         run[t].op \in {"commit", "uncommit"} /\ (run[t].op = "uncommit" \/ run[t].new.rev # Null)
           => tip'[b] = run[t].new
  PROVE  CallOK(t)'
<1>1. /\ run'[t].op = run[t].op /\ run'[t].todo = Tail(run[t].todo)
      /\ run'[t].new = run[t].new /\ run'[t].old = run[t].old
  <2>1. run[t] \in CallType
    BY DEF BTypeOK
  <2> QED BY <2>1 DEF CallType
<1>2. /\ run[t].todo # <<>> /\ Head(run[t].todo) = <<"tip", b>>
      /\ home[t] \in Branches /\ Master \in Branches /\ Range(home)' = Range(home)
      /\ \A r : LeftParent(r)' = LeftParent(r)
  BY BoundBranchAssumption DEF Doing, BTypeOK, BoundBranchAssumption, LeftParent
<1>3. CASE lock[home[t]] = t /\ CommitHereOK(t)
  <2>1. run[t].op \in {"commit", "local"} /\ run[t].todo = IntoTree(home[t])
    BY <1>2, <1>3 DEF CommitHereOK, IntoTree
  <2>2. run'[t].todo = << <<"tree", home[t]>> >>
    BY <1>1, <2>1 DEF IntoTree
  <2> QED BY <1>1, <1>3, <2>1, <2>2 DEF CallOK, CommitHereOK
<1>4. CASE lock[home[t]] = t /\ CommitBoundOK(t)
  <2>1. run[t].todo # CommitSteps(home[t])
    BY <1>2 DEF CommitSteps
  <2>2. run[t].todo # << <<"record", home[t]>>, <<"tip", Master>>, <<"tip", home[t]>>, <<"tree", home[t]>> >>
    BY <1>2
  <2>3. CASE run[t].todo = IntoTree(home[t])
    <3>1. run'[t].todo = << <<"tree", home[t]>> >>
      BY <1>1, <2>3 DEF IntoTree
    <3> QED BY <1>1, <1>4, <3>1 DEF CallOK, CommitHereOK, CommitBoundOK
  <2>4. CASE /\ run[t].todo = << <<"tip", Master>>, <<"tip", home[t]>>, <<"tree", home[t]>> >>
             /\ run[t].new.rev # Null
    <3>1. run'[t].todo = IntoTree(home[t]) /\ b = Master
      BY <1>1, <1>2, <2>4 DEF IntoTree
    <3>2. tip'[Master] = run[t].new /\ lock[Master] = t /\ bound[home[t]] /\ run[t].op = "commit"
      BY <1>4, <2>1, <2>4, <3>1 DEF CommitBoundOK
    <3>3. CommitBoundOK(t)'
      BY <1>1, <3>1, <3>2 DEF CommitBoundOK, IntoTree
    <3> QED BY <1>4, <3>3 DEF CallOK
  <2> QED BY <1>4, <2>1, <2>2, <2>3, <2>4 DEF CommitBoundOK
<1>5. CASE lock[home[t]] = t /\ UncommitOK(t)
  <2>1. run[t].op = "uncommit" /\ run[t].old # Null /\ run[t].new.rev = LeftParent(run[t].old)
    BY <1>5 DEF UncommitOK
  <2>2. run[t].todo # IntoMasterAndTree(home[t])
    BY <1>2 DEF IntoMasterAndTree
  <2>3. CASE run[t].todo = IntoTree(home[t])
    <3>1. run'[t].todo = << <<"tree", home[t]>> >>
      BY <1>1, <2>3 DEF IntoTree
    <3> QED BY <1>1, <1>2, <1>5, <2>1, <3>1 DEF CallOK, UncommitOK
  <2>4. CASE /\ run[t].todo = Tail(IntoMasterAndTree(home[t]))
             /\ bound[home[t]] /\ tip[home[t]].rev = run[t].old
    <3>1. run'[t].todo = IntoTree(home[t]) /\ b = Master
      BY <1>1, <1>2, <2>4 DEF IntoTree, IntoMasterAndTree
    <3>2. tip'[home[t]] = tip[home[t]]
      BY <1>2, <2>4, <3>1 DEF BTypeOK
    <3>3. UncommitOK(t)'
      BY <1>1, <1>2, <2>1, <2>4, <3>1, <3>2 DEF UncommitOK, IntoTree
    <3> QED BY <1>5, <3>3 DEF CallOK
  <2>5. CASE run[t].todo = << <<"tree", home[t]>> >>
    BY <1>2, <2>5
  <2> QED BY <1>5, <2>2, <2>3, <2>4, <2>5 DEF UncommitOK
<1>6. CASE lock[home[t]] = t /\ PullOK(t)
  <2>1. run[t].op = "pull"
    BY <1>6 DEF PullOK
  <2>2. run[t].todo = IntoTree(home[t]) \/ run[t].todo = Tail(IntoMasterAndTree(home[t]))
    BY <1>2, <1>6 DEF PullOK, IntoMasterAndTree
  <2>3. run'[t].todo = << <<"tree", home[t]>> >> \/ run'[t].todo = IntoTree(home[t])
    <3>1. Tail(IntoTree(home[t])) = << <<"tree", home[t]>> >>
      BY DEF IntoTree
    <3>2. Tail(Tail(IntoMasterAndTree(home[t]))) = IntoTree(home[t])
      BY DEF IntoTree, IntoMasterAndTree
    <3> QED BY <1>1, <2>2, <3>1, <3>2
  <2> QED BY <1>1, <1>6, <2>1, <2>3 DEF CallOK, PullOK, IntoTree
<1>7. CASE PushOK(t)
  <2>1. PICK c \in Branches : /\ run[t].op = "push" /\ lock[c] = t /\ c \notin Range(home)
                              /\ \/ run[t].todo = Tail(IntoMasterToo(c))
                                 \/ run[t].todo = Into(c)
    <3>1. \A c : run[t].todo # IntoMasterToo(c)
      BY <1>2 DEF IntoMasterToo
    <3> QED BY <1>7, <3>1 DEF PushOK
  <2>2. run[t].todo # Into(c)
    <3>1. Len(Into(c)) = 1
      BY DEF Into
    <3> QED BY <3>1
  <2>3. run'[t].todo = Into(c)
    <3>1. Tail(Tail(IntoMasterToo(c))) = Into(c)
      BY DEF Into, IntoMasterToo
    <3> QED BY <1>1, <2>1, <2>2, <3>1
  <2> QED BY <1>1, <1>2, <2>1, <2>3 DEF CallOK, PushOK, Into
<1>8. CASE UpdateOK(t)
  <2>1. run[t].op = "update" /\ run[t].todo = IntoTree(home[t])
    BY <1>2, <1>8 DEF UpdateOK
  <2>2. run'[t].todo = << <<"tree", home[t]>> >>
    BY <1>1, <2>1 DEF IntoTree
  <2> QED BY <1>1, <2>1, <2>2 DEF CallOK, UpdateOK
<1> QED BY <1>2, <1>3, <1>4, <1>5, <1>6, <1>7, <1>8 DEF CallOK

(* A tip is set, or not if there is nothing to do or the branches diverged;   *)
(* what it needs is fetched first.                                            *)
LEMMA SetTipInv ==
  ASSUME BranchInv, NEW t \in Trees, SetTip(t)
  PROVE  BranchInv'
<1> DEFINE r == run[t].new.rev
<1>1. PICK b \in Branches :
        /\ Doing(t, <<"tip", b>>)
        /\ \/ Sets(t, b) /\ Replace(b, run[t].new) /\ Done(t)
           \/ Diverged(t, b) /\ Fetch(b, r) /\ Stop(t) /\ UNCHANGED tip
           \/ ~Sets(t, b) /\ ~Diverged(t, b) /\ Done(t) /\ UNCHANGED <<tip, store>>
  BY DEF SetTip
<1>2. /\ UNCHANGED <<home, parents, bound, tree, shared>>
      /\ BTypeOK /\ CallOK(t) /\ CallPresent(t) /\ CallInMaster(t)
      /\ home[t] \in Branches /\ Master \in Branches /\ r \in Known
  BY BoundBranchAssumption, KnownReferences
     DEF SetTip, history, BranchInv, BTypeOK, BoundBranchAssumption, ReferencesInMaster
<1>3. Known' = Known /\ CallType' = CallType /\ GraphGrows
  BY <1>2 DEF CallType, Known, GraphGrows
<1>4. run[t].todo # <<>> /\ lock[b] = t
  BY <1>1, <1>2, DoingTip
<1>5. /\ tip' \in [Branches -> [no : Int, rev : Known]]
      /\ \A c \in Branches \ {b} : tip'[c] = tip[c]
      /\ tip'[b] = tip[b] \/ (tip'[b] = run[t].new /\ Sets(t, b) /\ Ancestry(r) \subseteq store'[b])
      /\ Sets(t, b) => tip'[b] = run[t].new
  <2>1. run[t].new \in [no : Int, rev : Known]
    BY <1>2 DEF BTypeOK, CallType
  <2>2. CASE Sets(t, b) /\ Replace(b, run[t].new)
    BY <1>2, <2>1, <2>2 DEF Replace, Fetch, BTypeOK
  <2>3. CASE ~Sets(t, b) /\ UNCHANGED tip
    BY <1>2, <2>3 DEF BTypeOK
  <2>4. Diverged(t, b) => ~Sets(t, b)
    BY DEF Diverged, Sets
  <2> QED BY <1>1, <2>2, <2>3, <2>4
<1>6. store' \in [Branches -> SUBSET Nat] /\ \A c \in Branches : store[c] \subseteq store'[c]
  <2>1. Ancestry(r) \subseteq Nat
    <3>1. ParentsFirst(parents) /\ r \in 0 .. Len(parents)
      BY <1>2 DEF BTypeOK, Known
    <3> QED BY <3>1, AncestorsOlder DEF Ancestry
  <2>2. store' = store \/ store' = [store EXCEPT ![b] = @ \cup Ancestry(r)]
    BY <1>1 DEF Replace, Fetch
  <2>3. store \in [Branches -> SUBSET Nat]
    BY <1>2 DEF BTypeOK
  <2> HIDE DEF r
  <2>4. CASE store' = store
    BY <2>3, <2>4
  <2>5. CASE store' = [store EXCEPT ![b] = @ \cup Ancestry(r)]
    BY <2>1, <2>3, <2>5
  <2> QED BY <2>2, <2>4, <2>5
<1>7. /\ run' \in [Trees -> CallType'] /\ lock' \in [Branches -> Trees \cup {Free, Stale}]
      /\ \A u \in Trees \ {t} : run'[u] = run[u]
      /\ \A c \in Branches : lock[c] \in Trees \ {t} => lock'[c] = lock[c]
      /\ \/ CallOK(t)' /\ CallPresent(t)' /\ CallInMaster(t)'
         \/ /\ Len(run[t].todo) # 1 /\ lock' = lock
            /\ run'[t] = [run[t] EXCEPT !.todo = Tail(run[t].todo)]
  <2>1. run[t] \in CallType'
    BY <1>2, <1>3 DEF BTypeOK
  <2>2. CASE Next1(t, run[t])
    BY <1>2, <1>3, <1>4, <2>1, <2>2, CallGoesOn
  <2>3. CASE Stop(t)
    BY <1>2, <1>3, <2>3, CallEnds DEF Stop
  <2> QED BY <1>1, <2>2, <2>3 DEF Done
<1>8. BTypeOK'
  BY <1>2, <1>3, <1>5, <1>6, <1>7 DEF BTypeOK
<1>9. Respects(t)
  BY <1>2, <1>3, <1>4, <1>5, <1>6, <1>7 DEF Respects, BTypeOK
<1>10. \A x, c : (Ancestry(x) \subseteq store[c] /\ c \in Branches => AncestorsIn(parents')[x] \subseteq store'[c])
         /\ (MasterHas(x) => AncestorsIn(parents')[x] \cap shared' \subseteq store'[Master])
  BY <1>2, <1>6 DEF Ancestry, MasterHas
<1>11. MasterHas(r) \/ (b = Master /\ run[t].op = "commit" /\ Doing(t, <<"tip", Master>>))
  <2>1. Doing(t, <<"tip", Master>>) => b = Master
    BY <1>1 DEF Doing
  <2> QED BY <1>2, <2>1 DEF CallInMaster
<1>12. run[t].op = "commit" /\ b = Master => Sets(t, b) \/ MasterHas(r)
  <2>1. r = Null => MasterHas(r)
    BY <1>2, NullIsPresent
  <2> QED BY <2>1 DEF Sets, Asked
<1>13. MasterHas(r) \/ (b = Master /\ Ancestry(r) \subseteq store'[Master] /\ tip'[b] = run[t].new)
  <2>1. CASE MasterHas(r)
    BY <2>1
  <2>2. CASE b = Master /\ run[t].op = "commit" /\ Sets(t, b)
    <3>1. Replace(b, run[t].new)
      BY <1>1, <2>2 DEF Diverged, Sets
    <3>2. Ancestry(r) \subseteq store'[b]
      BY <1>2, <3>1 DEF Replace, Fetch, BTypeOK
    <3> QED BY <1>5, <2>2, <3>2
  <2> QED BY <1>11, <1>12, <2>1, <2>2
<1>14. \A c \in Branches : tip'[c] # tip[c] =>
         Ancestry(tip[c].rev)' \subseteq store'[c] /\ MasterHas(tip[c].rev)'
  <2>1. SUFFICES ASSUME tip'[b] = run[t].new, Ancestry(r) \subseteq store'[b]
                 PROVE  Ancestry(tip[b].rev)' \subseteq store'[b] /\ MasterHas(tip[b].rev)'
    BY <1>5
  <2>2. AncestorsIn(parents')[r] \subseteq store'[b]
    BY <1>2, <2>1 DEF Ancestry
  <2>3. AncestorsIn(parents')[r] \cap shared' \subseteq store'[Master]
    BY <1>2, <1>10, <1>13, <2>1 DEF Ancestry
  <2> QED BY <2>1, <2>2, <2>3 DEF Ancestry, MasterHas
<1>15. CASE CallOK(t)' /\ CallPresent(t)' /\ CallInMaster(t)'
  BY <1>2, <1>8, <1>9, <1>14, <1>15, StepInv
<1>16. CASE /\ Len(run[t].todo) # 1 /\ lock' = lock
            /\ run'[t] = [run[t] EXCEPT !.todo = Tail(run[t].todo)]
  <2>1. CallOK(t)'
    <3>1. run[t].op \in {"commit", "uncommit"} /\ (run[t].op = "uncommit" \/ run[t].new.rev # Null)
          => tip'[b] = run[t].new
      BY <1>5 DEF Sets, Asked
    <3>2. UNCHANGED <<home, parents, bound, tree, lock>>
      BY <1>2, <1>16
    <3> QED BY <1>1, <1>2, <1>5, <1>8, <1>16, <3>1, <3>2, TipSetOK
  <2>2. /\ run'[t].op = run[t].op /\ run'[t].new = run[t].new /\ run'[t].old = run[t].old
        /\ run'[t].todo = Tail(run[t].todo)
    <3>1. run[t] \in CallType
      BY <1>2 DEF BTypeOK
    <3> QED BY <1>16, <3>1 DEF CallType
  <2>3. CallPresent(t)'
    <3>1. Holds(home[t], run[t].old)'
      BY <1>2, <1>10, <2>2 DEF CallPresent, Holds, Ancestry
    <3>2. CASE run[t].op \in {"commit", "local", "uncommit"}
      <4>1. Holds(home[t], r)
        BY <1>2, <3>2 DEF CallPresent
      <4>2. AncestorsIn(parents')[r] \subseteq store'[home[t]]
        BY <1>2, <1>10, <4>1 DEF Holds
      <4> QED BY <1>2, <2>2, <3>1, <4>2 DEF CallPresent, Holds, Ancestry
    <3>3. CASE run[t].op = "update"
      <4>1. TipOfTree(t, b)
        BY <1>1, <1>2, <3>3, DoingTip DEF TipPushed
      <4>2. AncestorsIn(parents')[r] \subseteq store'[home[t]]
        <5>1. CASE Sets(t, b)
          <6>1. Replace(b, run[t].new)
            BY <1>1, <5>1 DEF Diverged, Sets
          <6>2. Ancestry(r) \subseteq store'[b]
            BY <1>2, <6>1 DEF Replace, Fetch, BTypeOK
          <6> QED BY <1>2, <4>1, <6>2 DEF TipOfTree, Ancestry
        <5>2. CASE ~Sets(t, b)
          <6>1. r = Null
            BY <3>3, <5>2 DEF Sets, Asked
          <6>2. Holds(home[t], r)
            BY <1>2, <6>1, NullIsPresent
          <6> QED BY <1>2, <1>10, <6>2 DEF Holds
        <5> QED BY <5>1, <5>2
      <4> QED BY <1>2, <2>2, <3>1, <4>2 DEF CallPresent, Holds, Ancestry
    <3>4. CASE run[t].op \notin {"commit", "local", "uncommit", "update"}
      BY <2>2, <3>1, <3>4 DEF CallPresent
    <3> QED BY <3>2, <3>3, <3>4
  <2>4. CallInMaster(t)'
    <3>1. AncestorsIn(parents')[r] \cap shared' \subseteq store'[Master]
      BY <1>2, <1>10, <1>13 DEF Ancestry
    <3>2. AncestorsIn(parents')[run[t].old] \cap shared' \subseteq store'[Master]
      BY <1>2, <1>10 DEF CallInMaster
    <3> QED BY <2>2, <3>1, <3>2 DEF CallInMaster, MasterHas, Ancestry
  <2> QED BY <1>2, <1>8, <1>9, <1>14, <2>1, <2>3, <2>4, StepInv
<1> QED BY <1>7, <1>15, <1>16

-----------------------------------------------------------------------------
(* The specification *)

(* Nothing is there and nothing is under way.                                 *)
LEMMA InitInv == BInit => BranchInv
<1> SUFFICES ASSUME BInit PROVE BranchInv
  OBVIOUS
<1>1. /\ home \in [Trees -> Branches] /\ Master \in Branches
      /\ parents = <<>> /\ store = [b \in Branches |-> {}] /\ tip = [b \in Branches |-> NullTip]
      /\ bound \in [Branches -> BOOLEAN] /\ ~bound[Master]
      /\ tree = [t \in Trees |-> <<>>] /\ lock = [b \in Branches |-> Free]
      /\ run = [t \in Trees |-> NoCall] /\ shared = {}
  BY BoundBranchAssumption DEF BInit, BoundBranchAssumption
<1>2. Len(parents) = 0 /\ Known = {0} /\ ParentsFirst(parents)
  <2>1. Len(parents) = 0 /\ parents \in Seq(Seq(Nat))
    BY <1>1
  <2>2. Known = {0}
    BY <2>1 DEF Known
  <2>3. ParentsFirst(parents)
    BY <2>1 DEF ParentsFirst
  <2> QED BY <2>1, <2>2, <2>3
<1>3. BTypeOK
  <2>1. NullTip \in [no : Int, rev : Known]
    BY <1>2 DEF NullTip, Null
  <2>2. NoCall \in CallType
    BY <1>2, <2>1 DEF NoCall, CallType, Ops, Null
  <2>3. \A t \in Trees : tree[t] \in Seq(Known)
    BY <1>1
  <2> QED BY <1>1, <1>2, <2>1, <2>2, <2>3 DEF BTypeOK
<1>4. Ancestry(Null) = {}
  BY <1>2, AncestorsMembers DEF Ancestry, Null
<1>5. /\ \A b \in Branches : tip[b].rev = Null
      /\ \A t \in Trees : Range(tree[t]) = {}
      /\ \A t \in Trees : /\ run[t].op = "none" /\ run[t].todo = <<>> /\ run[t].old = Null
                          /\ run[t].new.rev = Null
  BY <1>1 DEF NullTip, NoCall, Range
<1> QED BY <1>3, <1>4, <1>5 DEF BranchInv, TipsArePresent, ReferencesInMaster, CallOK, CallPresent,
      CallInMaster, Holds, MasterHas, Doing

(* Nothing happens.                                                           *)
LEMMA StutterInv ==
  ASSUME BranchInv, UNCHANGED bvars
  PROVE  BranchInv'
<1> USE DEF bvars
<1>1. /\ Known' = Known /\ BTypeOK'
  <2>1. Known' = Known /\ CallType' = CallType
    BY DEF Known, CallType
  <2> QED BY <2>1 DEF BranchInv, BTypeOK
<1>2. TipsArePresent' /\ ReferencesInMaster'
  BY DEF BranchInv, TipsArePresent, ReferencesInMaster, CallInMaster, MasterHas, Ancestry, Doing
<1>3. ASSUME NEW t \in Trees PROVE CallOK(t)' /\ CallPresent(t)'
  <2>1. /\ \A r : LeftParent(r)' = LeftParent(r) /\ Ancestry(r)' = Ancestry(r)
        /\ Basis(t)' = Basis(t) /\ CallOK(t) /\ CallPresent(t)
    BY DEF BranchInv, LeftParent, Ancestry, Basis
  <2>2. /\ (CommitHereOK(t)' <=> CommitHereOK(t)) /\ (CommitBoundOK(t)' <=> CommitBoundOK(t))
    BY <2>1 DEF CommitHereOK, CommitBoundOK, Unmoved, CommitSteps, IntoTree
  <2>3. (UncommitOK(t)' <=> UncommitOK(t)) /\ (PullOK(t)' <=> PullOK(t))
    BY <2>1 DEF UncommitOK, PullOK, IntoTree, IntoMasterAndTree
  <2>4. (PushOK(t)' <=> PushOK(t)) /\ (UpdateOK(t)' <=> UpdateOK(t))
    BY DEF PushOK, UpdateOK, Into, IntoTree, IntoMasterToo
  <2>5. CallOK(t)'
    BY <2>1, <2>2, <2>3, <2>4 DEF CallOK
  <2> QED BY <2>1, <2>5 DEF CallPresent, Holds, Ancestry
<1> QED BY <1>1, <1>2, <1>3 DEF BranchInv

(* What the proof says of the branches holds at all times.                    *)
THEOREM BranchInvariant == BSpec => []BranchInv
<1>1. BInit => BranchInv
  BY InitInv
<1>2. BranchInv /\ [BNext]_bvars => BranchInv'
  <2> SUFFICES ASSUME BranchInv, [BNext]_bvars PROVE BranchInv'
    OBVIOUS
  <2>1. ASSUME NEW t \in Trees, Start(t) PROVE BranchInv'
    BY <2>1, CommitBoundInv, CommitHereInv, UncommitInv, PullInv, PushInv, UpdateBoundInv,
       UpdateTreeInv, RebindInv, MergeInv DEF Start
  <2>2. ASSUME NEW t \in Trees, GiveUp(t) \/ Fail(t) PROVE BranchInv'
    BY <2>2, StopInv DEF GiveUp, Fail, Stop, history
  <2>3. ASSUME NEW t \in Trees, Step(t) PROVE BranchInv'
    BY <2>2, <2>3, LockMasterInv, RecordInv, SetTipInv, SetTreeInv DEF Step
  <2> QED BY <2>1, <2>3, BreakLockInv, StutterInv DEF BNext, AllEnded
<1> QED BY <1>1, <1>2, PTL DEF BSpec

(* Whatever a branch or a tree refers to is in its repository, with all its   *)
(* past, whoever works on it and whatever fails (commit.py, branch.py: fetch  *)
(* before set_last_revision_info).                                            *)
THEOREM AlwaysPresent == BSpec => []TipsArePresent
<1>1. BranchInv => TipsArePresent
  BY DEF BranchInv
<1> QED BY <1>1, BranchInvariant, PTL

(* No branch has a revision of a commit to its master that the master lacks   *)
(* (commit.py: the master is committed to first).                             *)
THEOREM AlwaysMasterFirst == BSpec => []MasterFirst
<1>1. BranchInv => MasterFirst
  BY DEF BranchInv, ReferencesInMaster, MasterHas, MasterFirst
<1> QED BY <1>1, BranchInvariant, PTL

(* A tip that a step changes is the one the call is about to set.             *)
LEMMA TipMoves ==
  ASSUME BranchInv, BNext, NEW b \in Branches, tip'[b] # tip[b]
  PROVE  \E t \in Trees : Doing(t, <<"tip", b>>) /\ Sets(t, b) /\ tip'[b] = run[t].new
<1>0. tip \in [Branches -> [no : Int, rev : Known]]
  BY DEF BranchInv, BTypeOK
<1>1. ASSUME NEW t \in Trees, SetTip(t)
      PROVE  Doing(t, <<"tip", b>>) /\ Sets(t, b) /\ tip'[b] = run[t].new
  <2>1. PICK c \in Branches : Doing(t, <<"tip", c>>) /\ Sets(t, c) /\ tip' = [tip EXCEPT ![c] = run[t].new]
    BY <1>1 DEF SetTip, Replace
  <2> QED BY <1>0, <2>1
<1>2. ASSUME NEW t \in Trees, Start(t) PROVE FALSE
  BY <1>2 DEF Start, CommitBound, CommitHere, Uncommit, Pull, Push, UpdateBound, UpdateTree, Rebind, Merge
<1>3. ASSUME NEW t \in Trees, Step(t), ~SetTip(t) PROVE FALSE
  BY <1>3 DEF Step, LockMaster, GiveUp, Record, SetTree, Fail
<1>4. ~AllEnded /\ \A c \in Branches : ~BreakLock(c)
  BY DEF AllEnded, BreakLock, bvars
<1> QED BY <1>1, <1>2, <1>3, <1>4 DEF BNext

(* The tip a call is about to set is one that it may set.                     *)
LEMMA TipMovesWell ==
  ASSUME BranchInv, NEW t \in Trees, NEW b \in Branches, Doing(t, <<"tip", b>>), Sets(t, b),
         tip'[b] = run[t].new
  PROVE  MovesWell(b)
<1> SUFFICES
      /\ lock[b] = t
      /\ CASE run[t].op \in {"commit", "local"} ->
                \/ tip[b].rev \in {LeftParent(run[t].new.rev), Null}
                \/ bound[b] /\ run[t].new = tip[Master]
           [] run[t].op \in {"pull", "push"} ->
                run[t].over \/ tip[b].rev \in Ancestry(run[t].new.rev) \cup {Null}
           [] run[t].op = "uncommit" -> run[t].new.rev = LeftParent(tip[b].rev)
           [] run[t].op = "update" -> b # Master
  BY DEF MovesWell
<1>1. /\ CallOK(t) /\ BTypeOK /\ run[t].todo # <<>> /\ Head(run[t].todo) = <<"tip", b>>
  BY DEF BranchInv, Doing
<1>2. /\ lock[b] = t
      /\ \/ TipOfTree(t, b) /\ run[t].op \in {"commit", "local", "uncommit", "pull", "update"}
         \/ TipOfMaster(t, b) /\ run[t].op \in {"commit", "uncommit", "pull"}
         \/ TipPushed(t, b)
  BY <1>1, DoingTip
<1>3. CASE run[t].op \in {"commit", "local"}
  <2>1. CASE CommitHereOK(t)
    <3>1. run[t].todo = IntoTree(home[t]) /\ Unmoved(home[t], LeftParent(run[t].new.rev))
      BY <1>1, <2>1 DEF CommitHereOK, IntoTree
    <3>2. b = home[t]
      BY <1>1, <3>1 DEF IntoTree
    <3> QED BY <1>2, <1>3, <3>1, <3>2 DEF Unmoved
  <2>2. CASE CommitBoundOK(t)
    <3>1. \/ /\ run[t].todo = << <<"tip", Master>>, <<"tip", home[t]>>, <<"tree", home[t]>> >>
             /\ Unmoved(Master, LeftParent(run[t].new.rev))
          \/ /\ run[t].todo = IntoTree(home[t]) /\ bound[home[t]] /\ run[t].new = tip[Master]
      BY <1>1, <2>2 DEF CommitBoundOK, CommitSteps
    <3>2. CASE /\ run[t].todo = << <<"tip", Master>>, <<"tip", home[t]>>, <<"tree", home[t]>> >>
               /\ Unmoved(Master, LeftParent(run[t].new.rev))
      <4>1. b = Master
        BY <1>1, <3>2
      <4> QED BY <1>2, <1>3, <3>2, <4>1 DEF Unmoved
    <3>3. CASE run[t].todo = IntoTree(home[t]) /\ bound[home[t]] /\ run[t].new = tip[Master]
      <4>1. b = home[t]
        BY <1>1, <3>3 DEF IntoTree
      <4> QED BY <1>2, <1>3, <3>3, <4>1
    <3> QED BY <3>1, <3>2, <3>3
  <2> QED BY <1>1, <1>3, <2>1, <2>2 DEF CallOK, UncommitOK, PullOK, PushOK, UpdateOK
<1>4. CASE run[t].op \in {"pull", "push"}
  BY <1>2, <1>4 DEF Sets, Asked, Extends
<1>5. CASE run[t].op = "uncommit"
  <2>1. UncommitOK(t)
    BY <1>1, <1>5 DEF CallOK, CommitHereOK, CommitBoundOK, PullOK, PushOK, UpdateOK
  <2>2. run[t].new.rev = LeftParent(run[t].old)
    BY <2>1 DEF UncommitOK
  <2>3. tip[b].rev = run[t].old
    <3>1. CASE run[t].todo = IntoTree(home[t]) /\ tip[home[t]].rev = run[t].old
      BY <1>1, <3>1 DEF IntoTree
    <3>2. CASE run[t].todo = Tail(IntoMasterAndTree(home[t])) /\ tip[Master].rev = run[t].old
      BY <1>1, <3>2 DEF IntoMasterAndTree
    <3>3. run[t].todo # IntoMasterAndTree(home[t]) /\ run[t].todo # << <<"tree", home[t]>> >>
      BY <1>1 DEF IntoMasterAndTree
    <3> QED BY <2>1, <3>1, <3>2, <3>3 DEF UncommitOK
  <2> QED BY <1>2, <1>5, <2>2, <2>3
<1>6. CASE run[t].op = "update"
  <2>1. UpdateOK(t)
    BY <1>1, <1>6 DEF CallOK, CommitHereOK, CommitBoundOK, UncommitOK, PullOK, PushOK
  <2>2. bound[home[t]] /\ run[t].todo = IntoTree(home[t])
    BY <1>1, <2>1 DEF UpdateOK
  <2>3. b = home[t] /\ ~bound[Master]
    BY <1>1, <2>2 DEF IntoTree, BTypeOK
  <2> QED BY <1>2, <1>6, <2>2, <2>3
<1> QED BY <1>2, <1>3, <1>4, <1>5, <1>6 DEF TipPushed

(* A commit builds on the tip that it replaces, a pull or push without        *)
(* overwrite replaces an ancestor, an uncommit drops one revision, and an     *)
(* update leaves the master alone, whatever the others do in between.         *)
THEOREM TipsAlwaysAdvance == BSpec => TipsAdvance
<1>1. BranchInv /\ [BNext]_bvars => [\A b \in Branches : MovesWell(b)]_bvars
  <2> SUFFICES ASSUME BranchInv, BNext, NEW b \in Branches PROVE MovesWell(b)
    OBVIOUS
  <2>1. CASE tip'[b] = tip[b]
    BY <2>1 DEF MovesWell
  <2>2. CASE tip'[b] # tip[b]
    <3>1. PICK t \in Trees : Doing(t, <<"tip", b>>) /\ Sets(t, b) /\ tip'[b] = run[t].new
      BY <2>2, TipMoves
    <3> QED BY <3>1, TipMovesWell
  <2> QED BY <2>1, <2>2
<1> QED BY <1>1, BranchInvariant, PTL DEF BSpec, TipsAdvance

-----------------------------------------------------------------------------
(* Local work is kept *)

\* The past of all revisions of a sequence.
PastIn(par, s) == UNION {AncestorsIn(par)[p] : p \in Range(s)}
Past(s) == PastIn(parents, s)
Merged(r) == IF parents[r] = <<>> THEN <<>> ELSE Tail(parents[r])

\* Where the work of a tree's user is: in the past of the branch and of the pending
\* merges, unless the branch is empty.
AtBasis(t) == tip[home[t]].rev \in {Basis(t), Null}
Current(t) ==
  IF tip[home[t]].rev = Null THEN {} ELSE Ancestry(tip[home[t]].rev) \cup Past(Merges(t))
Keeps(t) ==
  LET call == run[t]
      new == run[t].new.rev
  IN IF call.op \in {"commit", "local"} /\ new # Null THEN Ancestry(new)
     ELSE IF call.op = "uncommit" THEN
       IF new = Null THEN {} ELSE Ancestry(new) \cup Past(Merges(t)) \cup Past(Merged(call.old))
     ELSE IF call.op = "pull" /\ call.over THEN
       IF tip[home[t]].rev = Null THEN {} ELSE Past(Merges(t))
     ELSE IF call.op = "update" THEN
       IF new = Null THEN {} ELSE Ancestry(new) \cup Ancestry(call.old) \cup Past(Merges(t))
     ELSE Current(t)

\* How far the tree and the branch of a call under way have come.
AtTree(t) == run[t].todo = << <<"tree", home[t]>> >>
Unrecorded(t) ==
  run[t].todo \in {CommitSteps(home[t]), Tail(CommitSteps(home[t])),
                   << <<"record", home[t]>>, <<"tip", home[t]>>, <<"tree", home[t]>> >>}
Phase(t) ==
  LET call == run[t]
      now == tip[home[t]].rev
  IN /\ call.op \in {"none", "push"} => AtBasis(t)
     /\ call.op \in {"commit", "local"} =>
          IF call.new.rev = Null THEN AtBasis(t) /\ Unrecorded(t)
          ELSE AtTree(t) => now = call.new.rev
     /\ call.op = "uncommit" =>
          Basis(t) = call.old /\ now = IF AtTree(t) THEN call.new.rev ELSE call.old
     /\ call.op = "pull" =>
          call.old \in {Basis(t), Null} /\ (~AtTree(t) => now = call.old /\ call.new.rev # Null)
     /\ call.op = "update" =>
          /\ call.old # Null => Basis(t) = call.old /\ call.old \notin Ancestry(call.new.rev)
          /\ IF AtTree(t) THEN now = call.new.rev ELSE call.new.rev # Null

WorkInv ==
  smooth /\ OneTreeEach =>
    /\ \A t \in Trees : home[t] # Master => Phase(t)
    /\ \A t \in Trees : run[t].op = "local" => home[t] # Master
    /\ \A r \in local : \E t \in Trees : home[t] # Master /\ r \in Keeps(t)

(* What is appended to a sequence is in it, after what was there.              *)
LEMMA RangeOfAppend ==
  ASSUME NEW R, NEW s \in Seq(R), NEW x \in R
  PROVE  Range(Append(s, x)) = Range(s) \cup {x}
<1>1. /\ Len(Append(s, x)) = Len(s) + 1 /\ Len(s) \in Nat
      /\ \A i \in 1 .. Len(s) : Append(s, x)[i] = s[i]
      /\ Append(s, x)[Len(s) + 1] = x
  OBVIOUS
<1>2. /\ Range(Append(s, x)) = {Append(s, x)[i] : i \in 1 .. Len(s) + 1}
      /\ Range(s) = {s[i] : i \in 1 .. Len(s)}
  BY <1>1 DEF Range
<1>3. 1 .. Len(s) + 1 = (1 .. Len(s)) \cup {Len(s) + 1}
  BY <1>1
<1> QED BY <1>1, <1>2, <1>3

(* The revision that a given one is reached from, and that was made last, is  *)
(* not reached from any other of them.                                        *)
LEMMA LatestIsHead ==
  ASSUME BTypeOK, NEW T, T \subseteq Known, NEW p \in T, NEW r \in Ancestry(p)
  PROVE  \E q \in Heads(T) \ {Null} : r \in Ancestry(q)
<1> DEFINE C == {s \in T : r \in Ancestry(s)}
           D == {Len(parents) - s : s \in C}
<1>1. ParentsFirst(parents) /\ Len(parents) \in Nat /\ Known = 0 .. Len(parents)
  BY KnownReferences DEF BTypeOK, Known
<1>2. D \subseteq Nat /\ D # {}
  BY <1>1
<1>3. PICK d \in D : \A e \in D : d <= e
  <2> HIDE DEF D
  <2> QED BY <1>2, LeastNat
<1>4. PICK q \in C : \A s \in C : s <= q
  <2>1. PICK q \in C : d = Len(parents) - q
    BY <1>3
  <2>2. ASSUME NEW s \in C PROVE s <= q
    <3>1. Len(parents) - q <= Len(parents) - s
      BY <1>3, <2>1
    <3>2. s \in 0 .. Len(parents) /\ q \in 0 .. Len(parents)
      BY <1>1
    <3> QED BY <1>1, <3>1, <3>2
  <2> QED BY <2>2
<1>5. q # Null
  BY <1>1, <1>4, AncestorsMembers DEF Ancestry, Null
<1>6. ASSUME NEW s \in T \ {q} PROVE q \notin Ancestry(s)
  <2> SUFFICES ASSUME q \in Ancestry(s) PROVE FALSE
    OBVIOUS
  <2>1. s \in 0 .. Len(parents) /\ r \in Ancestry(q)
    BY <1>1, <1>4
  <2>2. Ancestry(q) \subseteq Ancestry(s) /\ q \in 1 .. s
    BY <1>1, <2>1, AncestorsClosed, AncestorsOlder DEF Ancestry
  <2>3. s \in C
    BY <2>1, <2>2
  <2> QED BY <1>1, <1>4, <2>2, <2>3
<1>7. q \in Heads(T)
  BY <1>4, <1>6 DEF Heads
<1> QED BY <1>4, <1>5, <1>7

(* set_parent_trees takes the first parent, and the others so that nothing of *)
(* their past is lost.                                                        *)
LEMMA AcceptedParentsKeep ==
  ASSUME BTypeOK, NEW ids \in Seq(Known), ids # <<>>
  PROVE  /\ AcceptedParents(ids) \in Seq(Known) /\ AcceptedParents(ids) # <<>>
         /\ Head(AcceptedParents(ids)) = Head(ids)
         /\ Past(ids) \subseteq Past(AcceptedParents(ids))
<1> DEFINE A == CHOOSE g : Accepts(ids, Len(ids), g)
           H == Heads(Range(ids)) \ {Null}
           S == {n \in Nat : 1 <= n /\ n <= Len(ids) =>
                   /\ A[n] \in Seq(Known) /\ A[n] # <<>> /\ A[n][1] = ids[1]
                   /\ \A j \in 1 .. n : ids[j] \in H => ids[j] \in Range(A[n])}
<1>0. Len(ids) \in Nat /\ Len(ids) >= 1
  OBVIOUS
<1>1. AcceptedParents(ids) = A[Len(ids)]
  BY DEF AcceptedParents, Accepts, AcceptedBody
<1>2. Accepts(ids, Len(ids), A)
  BY <1>0, AcceptedExists
<1> HIDE DEF A, H
<1>3. \A i \in 0 .. Len(ids) : A[i] = AcceptedBody(ids, A, i)
  BY <1>2 DEF Accepts
<1>4. 0 \in S
  OBVIOUS
<1>5. ASSUME NEW n \in Nat, n \in S PROVE n + 1 \in S
  <2> SUFFICES ASSUME n + 1 <= Len(ids)
               PROVE  /\ A[n + 1] \in Seq(Known) /\ A[n + 1] # <<>> /\ A[n + 1][1] = ids[1]
                      /\ \A j \in 1 .. n + 1 : ids[j] \in H => ids[j] \in Range(A[n + 1])
    OBVIOUS
  <2>1. n + 1 \in 0 .. Len(ids) /\ n + 1 # 0 /\ (n + 1) - 1 = n /\ ids[n + 1] \in Known
    BY <1>0
  <2>2. A[n + 1] = AcceptedBody(ids, A, n + 1)
    BY <1>3, <2>1
  <2>3. CASE n = 0
    <3>1. A[0] = <<>>
      <4>1. 0 \in 0 .. Len(ids)
        BY <1>0
      <4> QED BY <1>3, <4>1 DEF AcceptedBody
    <3>2. A[n + 1] = Append(<<>>, ids[1])
      <4>1. A[n + 1] = Append(A[(n + 1) - 1], ids[n + 1])
        BY <2>1, <2>2, <2>3 DEF AcceptedBody
      <4>2. (n + 1) - 1 = 0 /\ n + 1 = 1
        BY <2>3
      <4>3. A[n + 1] = Append(A[0], ids[1])
        BY <4>1, <4>2, Zenon
      <4> QED BY <3>1, <4>3, Zenon
    <3>3. A[n + 1] = <<ids[1]>> /\ ids[1] \in Known
      BY <2>1, <2>3, <3>2
    <3>4. ids[1] \in Range(A[n + 1])
      BY <3>3 DEF Range
    <3>5. \A j \in 1 .. n + 1 : j = 1
      BY <2>3
    <3> QED BY <3>3, <3>4, <3>5
  <2>4. CASE n # 0
    <3>1. /\ A[n] \in Seq(Known) /\ A[n] # <<>> /\ A[n][1] = ids[1]
          /\ \A j \in 1 .. n : ids[j] \in H => ids[j] \in Range(A[n])
      BY <1>5, <2>4
    <3>2. \A j \in 1 .. n + 1 : j \in 1 .. n \/ j = n + 1
      OBVIOUS
    <3>3. CASE ids[n + 1] \in Heads(Range(ids)) \ ({Null} \cup Range(A[n]))
      <4>1. A[n + 1] = Append(A[n], ids[n + 1])
        BY <2>1, <2>2, <2>4, <3>3 DEF AcceptedBody
      <4>2. Range(A[n + 1]) = Range(A[n]) \cup {ids[n + 1]}
        BY <2>1, <3>1, <4>1, RangeOfAppend
      <4>3. A[n + 1] \in Seq(Known) /\ A[n + 1] # <<>> /\ A[n + 1][1] = ids[1]
        <5> DEFINE a == A[n]
                   x == ids[n + 1]
        <5>1. a \in Seq(Known) /\ a # <<>> /\ a[1] = ids[1] /\ x \in Known /\ A[n + 1] = Append(a, x)
          BY <2>1, <3>1, <4>1
        <5> HIDE DEF a, x
        <5>2. Append(a, x) \in Seq(Known) /\ Append(a, x) # <<>> /\ Append(a, x)[1] = a[1]
          BY <5>1
        <5> QED BY <5>1, <5>2
      <4> QED BY <3>1, <3>2, <4>2, <4>3
    <3>4. CASE ids[n + 1] \notin Heads(Range(ids)) \ ({Null} \cup Range(A[n]))
      <4>1. A[n + 1] = A[n]
        BY <2>1, <2>2, <2>4, <3>4 DEF AcceptedBody
      <4>2. ids[n + 1] \in H => ids[n + 1] \in Range(A[n])
        BY <3>4 DEF H
      <4> QED BY <3>1, <3>2, <4>1, <4>2
    <3> QED BY <3>3, <3>4
  <2> QED BY <2>3, <2>4
<1> HIDE DEF S
<1>6. \A n \in Nat : n \in S
  BY <1>4, <1>5, NatSetInduction
<1>7. /\ A[Len(ids)] \in Seq(Known) /\ A[Len(ids)] # <<>> /\ A[Len(ids)][1] = ids[1]
      /\ \A j \in 1 .. Len(ids) : ids[j] \in H => ids[j] \in Range(A[Len(ids)])
  BY <1>0, <1>6 DEF S
<1>8. ASSUME NEW r \in Past(ids) PROVE r \in Past(AcceptedParents(ids))
  <2>1. PICK p \in Range(ids) : r \in Ancestry(p)
    BY DEF Past, PastIn, Ancestry
  <2>2. Range(ids) \subseteq Known
    BY DEF Range
  <2>3. PICK q \in Heads(Range(ids)) \ {Null} : r \in Ancestry(q)
    BY <2>1, <2>2, LatestIsHead
  <2>4. PICK j \in 1 .. Len(ids) : q = ids[j]
    BY <2>3 DEF Heads, Range
  <2>5. q \in Range(AcceptedParents(ids))
    BY <1>1, <1>7, <2>3, <2>4 DEF H
  <2> QED BY <2>3, <2>5 DEF Past, PastIn, Ancestry
<1>9. Head(A[Len(ids)]) = Head(ids)
  <2>1. \A s \in Seq(Known) : s # <<>> => Head(s) = s[1]
    OBVIOUS
  <2> QED BY <1>7, <2>1
<1> QED BY <1>1, <1>7, <1>8, <1>9

(* A sequence that is not empty is its head and its tail, also for the past.  *)
LEMMA PastOfParts ==
  ASSUME NEW R, NEW s \in Seq(R), NEW u \in Seq(R)
  PROVE  /\ Past(s \o u) = Past(s) \cup Past(u) /\ Past(Reverse(s)) = Past(s)
         /\ s # <<>> => Past(s) = Ancestry(Head(s)) \cup Past(Tail(s))
         /\ Past(<<>>) = {} /\ \A x : Past(<<x>>) = Ancestry(x)
<1>1. Past(s \o u) = Past(s) \cup Past(u)
  <2>1. Range(s \o u) = Range(s) \cup Range(u)
    BY RangeConcatenation
  <2> QED BY <2>1 DEF Past, PastIn
<1>2. Past(Reverse(s)) = Past(s)
  <2>1. Reverse(s) = [i \in 1 .. Len(s) |-> s[(Len(s) - i) + 1]] /\ Len(s) \in Nat
    BY DEF Reverse
  <2>2. Range(Reverse(s)) = {s[(Len(s) - i) + 1] : i \in 1 .. Len(s)} /\ Range(s) = {s[i] : i \in 1 .. Len(s)}
    <3>1. DOMAIN Reverse(s) = 1 .. Len(s) /\ \A i \in 1 .. Len(s) : Reverse(s)[i] = s[(Len(s) - i) + 1]
      BY <2>1
    <3>2. DOMAIN s = 1 .. Len(s)
      OBVIOUS
    <3> QED BY <3>1, <3>2 DEF Range
  <2>3. \A i \in 1 .. Len(s) : (Len(s) - i) + 1 \in 1 .. Len(s) /\ (Len(s) - ((Len(s) - i) + 1)) + 1 = i
    BY <2>1
  <2>4. Range(Reverse(s)) = Range(s)
    BY <2>2, <2>3
  <2> QED BY <2>4 DEF Past, PastIn
<1>3. ASSUME s # <<>> PROVE Past(s) = Ancestry(Head(s)) \cup Past(Tail(s))
  <2>1. /\ Len(s) \in Nat /\ Len(s) >= 1 /\ Head(s) = s[1] /\ Len(Tail(s)) = Len(s) - 1
        /\ \A i \in 1 .. Len(s) - 1 : Tail(s)[i] = s[i + 1]
    BY <1>3
  <2>2. Range(s) = {s[i] : i \in 1 .. Len(s)} /\ Range(Tail(s)) = {Tail(s)[i] : i \in 1 .. Len(s) - 1}
    <3>1. DOMAIN s = 1 .. Len(s) /\ DOMAIN Tail(s) = 1 .. Len(s) - 1
      BY <2>1, <1>3
    <3> QED BY <3>1 DEF Range
  <2>3. Range(s) = {Head(s)} \cup Range(Tail(s))
    <3>1. ASSUME NEW i \in 1 .. Len(s) PROVE s[i] = Head(s) \/ s[i] \in Range(Tail(s))
      <4>1. i # 1 => i - 1 \in 1 .. Len(s) - 1 /\ (i - 1) + 1 = i
        BY <2>1
      <4>2. i # 1 => s[i] = Tail(s)[i - 1]
        BY <2>1, <4>1
      <4> QED BY <2>1, <2>2, <4>1, <4>2
    <3>2. ASSUME NEW i \in 1 .. Len(s) - 1 PROVE Tail(s)[i] \in Range(s)
      <4>1. i + 1 \in 1 .. Len(s)
        BY <2>1
      <4> QED BY <2>1, <2>2, <4>1
    <3>3. Head(s) \in Range(s)
      <4>1. 1 \in 1 .. Len(s)
        BY <2>1
      <4> QED BY <2>1, <2>2, <4>1
    <3> QED BY <2>2, <3>1, <3>2, <3>3
  <2> QED BY <2>3 DEF Past, PastIn, Ancestry
<1>4. Past(<<>>) = {} /\ \A x : Past(<<x>>) = Ancestry(x)
  <2>1. Range(<<>>) = {}
    BY DEF Range
  <2>2. \A x : Range(<<x>>) = {x}
    BY DEF Range
  <2> QED BY <2>1, <2>2 DEF Past, PastIn, Ancestry
<1> QED BY <1>1, <1>2, <1>3, <1>4

(* The types of what the invariant speaks of, and the past of a revision.      *)
LEMMA Pasts ==
  ASSUME BTypeOK, NEW t \in Trees
  PROVE  /\ Merges(t) \in Seq(Known) /\ Basis(t) \in Known
         /\ tree[t] # <<>> => Past(tree[t]) = Ancestry(Basis(t)) \cup Past(Merges(t))
         /\ tree[t] = <<>> => Past(tree[t]) = {} /\ Past(Merges(t)) = {} /\ Basis(t) = Null
         /\ Ancestry(Null) = {}
         /\ \A r \in Known \ {Null} :
              /\ r \in 1 .. Len(parents) /\ r \in Ancestry(r)
              /\ Merged(r) \in Seq(Known) /\ Past(Merged(r)) \subseteq Ancestry(r)
<1>1. /\ ParentsFirst(parents) /\ Len(parents) \in Nat /\ Known = 0 .. Len(parents)
      /\ tree[t] \in Seq(Known) /\ Null \in Known
  BY KnownReferences DEF BTypeOK, Known
<1>2. Merges(t) \in Seq(Known) /\ Basis(t) \in Known
  <2> HIDE DEF Known
  <2>1. CASE tree[t] = <<>>
    BY <1>1, <2>1 DEF Merges, Basis
  <2>2. CASE tree[t] # <<>>
    <3>1. Tail(tree[t]) \in Seq(Known) /\ Head(tree[t]) \in Known
      BY <1>1, <2>2, HeadTailProperties, Zenon
    <3> QED BY <2>2, <3>1 DEF Merges, Basis
  <2> QED BY <2>1, <2>2
<1>3. tree[t] # <<>> => Past(tree[t]) = Ancestry(Basis(t)) \cup Past(Merges(t))
  BY <1>1, PastOfParts DEF Merges, Basis
<1>4. tree[t] = <<>> => Past(tree[t]) = {} /\ Past(Merges(t)) = {} /\ Basis(t) = Null
  BY <1>1, PastOfParts DEF Merges, Basis
<1>5. Ancestry(Null) = {}
  BY <1>1, AncestorsMembers DEF Ancestry, Null
<1>6. ASSUME NEW r \in Known \ {Null}
      PROVE  /\ r \in 1 .. Len(parents) /\ r \in Ancestry(r)
             /\ Merged(r) \in Seq(Known) /\ Past(Merged(r)) \subseteq Ancestry(r)
  <2>1. r \in 1 .. Len(parents)
    BY <1>1 DEF Null
  <2>2. /\ parents[r] \in Seq(Nat) /\ \A p \in Range(parents[r]) : p \in Nat /\ p < r
        /\ \A x : x \in Ancestry(r) <=> x = r \/ \E p \in Range(parents[r]) : x \in Ancestry(p)
    <3>1. parents[r] \in Seq(Nat)
      BY <1>1, <2>1 DEF ParentsFirst
    <3> QED BY <1>1, <2>1, <3>1, AncestorsMembers DEF Ancestry
  <2>3. parents[r] \in Seq(Known)
    <3>1. \A p \in Range(parents[r]) : p \in Known
      BY <1>1, <2>1, <2>2
    <3> QED BY <2>2, <3>1 DEF Range
  <2>4. Past(parents[r]) \subseteq Ancestry(r)
    BY <2>2 DEF Past, PastIn, Ancestry
  <2>5. CASE parents[r] = <<>>
    BY <1>1, <2>1, <2>2, <2>5, PastOfParts DEF Merged
  <2>6. CASE parents[r] # <<>>
    <3>1. Past(Tail(parents[r])) \subseteq Ancestry(r)
      BY <2>3, <2>4, <2>6, PastOfParts
    <3>2. Tail(parents[r]) \in Seq(Known)
      BY <2>3, <2>6
    <3> QED BY <2>1, <2>2, <2>6, <3>1, <3>2 DEF Merged
  <2> QED BY <2>5, <2>6
<1> QED BY <1>2, <1>3, <1>4, <1>5, <1>6

-----------------------------------------------------------------------------
(* Others leave a tree, its branch and its call alone *)

Frame(t) ==
  /\ home' = home /\ GraphGrows
  /\ \A u \in Trees \ {t} : run'[u] = run[u] /\ tree'[u] = tree[u]

(* A step of one user changes the call and the tree of no other.              *)
LEMMA StepFrame ==
  ASSUME BranchInv, NEW t \in Trees, Start(t) \/ Step(t)
  PROVE  Frame(t)
<1>1. run \in [Trees -> CallType] /\ tree \in [Trees -> Seq(Known)]
  BY DEF BranchInv, BTypeOK
<1>2. home' = home
  BY DEF Start, Step, CommitBound, CommitHere, Uncommit, Pull, Push, UpdateBound, UpdateTree, Rebind, Merge,
         LockMaster, GiveUp, Record, SetTip, SetTree, Fail
<1>3. \A u \in Trees \ {t} : tree'[u] = tree[u]
  BY <1>1 DEF Start, Step, CommitBound, CommitHere, Uncommit, Pull, Push, UpdateBound, UpdateTree, Rebind, Merge,
         LockMaster, GiveUp, Record, SetTip, SetTree, Fail
<1>4. \A u \in Trees \ {t} : run'[u] = run[u]
  <2>1. \/ run' = run \/ \E call : run' = [run EXCEPT ![t] = call]
        \/ run' = [run EXCEPT ![t].todo = Tail(@),
                              ![t].new.no = IF run[t].op = "commit" THEN tip[Master].no + 1 ELSE @]
    <3>1. CASE Start(t)
      BY <3>1 DEF Start, CommitBound, CommitHere, Uncommit, Pull, Push, UpdateBound, UpdateTree, Rebind, Merge, Call
    <3>2. CASE Step(t)
      BY <3>2 DEF Step, LockMaster, GiveUp, Record, SetTip, SetTree, Fail, Stop, Done, Next1
    <3> QED BY <3>1, <3>2
  <2> QED BY <1>1, <2>1
<1>5. GraphGrows
  <2>1. CASE Record(t)
    BY <2>1 DEF Record, GraphGrows
  <2>2. CASE ~Record(t)
    BY <2>2 DEF Start, Step, CommitBound, CommitHere, Uncommit, Pull, Push, UpdateBound, UpdateTree, Rebind, Merge,
         LockMaster, GiveUp, SetTip, SetTree, Fail, GraphGrows, history
  <2> QED BY <2>1, <2>2
<1> QED BY <1>2, <1>3, <1>4, <1>5 DEF Frame

(* The past of what there is does not change.                                 *)
LEMMA PastsStable ==
  ASSUME BTypeOK, GraphGrows
  PROVE  /\ \A r \in Known : AncestorsIn(parents')[r] = Ancestry(r)
         /\ \A s \in Seq(Known) : PastIn(parents', s) = Past(s)
         /\ \A r \in Known \ {Null} : parents'[r] = parents[r]
<1>1. \A r \in Known : AncestorsIn(parents')[r] = Ancestry(r)
  <2> SUFFICES ASSUME NEW r \in Known PROVE Ancestry(r)' = Ancestry(r)
    BY DEF Ancestry
  <2> QED BY PastStable
<1>2. ASSUME NEW s \in Seq(Known) PROVE PastIn(parents', s) = Past(s)
  <2>1. \A p \in Range(s) : p \in Known
    BY DEF Range
  <2> QED BY <1>1, <2>1 DEF PastIn, Past, Ancestry
<1>3. ASSUME NEW r \in Known \ {Null} PROVE parents'[r] = parents[r]
  <2>1. r \in 1 .. Len(parents)
    BY KnownReferences DEF Known, Null
  <2> QED BY <2>1, GrownParents DEF GraphGrows
<1> QED BY <1>1, <1>2, <1>3

(* What a user keeps, stays.                                                  *)
LEMMA OthersKeep ==
  ASSUME BranchInv, NEW t \in Trees, Frame(t), NEW u \in Trees \ {t}, tip'[home[u]] = tip[home[u]], Phase(u)
  PROVE  Phase(u)' /\ Keeps(u)' = Keeps(u)
<1>1. /\ BTypeOK /\ home[u] \in Branches /\ tip[home[u]].rev \in Known
      /\ run[u].old \in Known /\ run[u].new.rev \in Known
  BY KnownReferences DEF BranchInv, BTypeOK
<1>2. /\ home'[u] = home[u] /\ run'[u] = run[u] /\ tree'[u] = tree[u]
      /\ tip'[home'[u]] = tip[home[u]] /\ GraphGrows
  BY DEF Frame
<1>3. Merges(u)' = Merges(u) /\ Basis(u)' = Basis(u)
  BY <1>2 DEF Merges, Basis
<1>4. /\ \A r \in Known : AncestorsIn(parents')[r] = Ancestry(r)
      /\ \A s \in Seq(Known) : PastIn(parents', s) = Past(s)
      /\ \A r \in Known \ {Null} : parents'[r] = parents[r]
      /\ Merges(u) \in Seq(Known)
  BY <1>1, <1>2, PastsStable, Pasts
<1>5. run[u].op = "uncommit" => run[u].old \in Known \ {Null}
  BY <1>1 DEF BranchInv, CallOK, CommitHereOK, CommitBoundOK, UncommitOK, PullOK, PushOK, UpdateOK
<1>6. run[u].op = "uncommit" => PastIn(parents', Merged(run[u].old)') = Past(Merged(run[u].old))
  <2> SUFFICES ASSUME run[u].op = "uncommit"
               PROVE  PastIn(parents', Merged(run[u].old)') = Past(Merged(run[u].old))
    OBVIOUS
  <2>1. Merged(run[u].old)' = Merged(run[u].old)
    BY <1>2, <1>4, <1>5 DEF Merged
  <2>2. Merged(run[u].old) \in Seq(Known)
    BY <1>1, <1>5, Pasts
  <2> QED BY <1>4, <2>1, <2>2
<1>7. Current(u)' = Current(u)
  BY <1>1, <1>2, <1>3, <1>4 DEF Current, Past, Ancestry
<1>8. Keeps(u)' = Keeps(u)
  BY <1>1, <1>2, <1>3, <1>4, <1>6, <1>7 DEF Keeps, Past, Ancestry
<1>9. Phase(u)'
  <2>1. (AtBasis(u)' <=> AtBasis(u)) /\ (AtTree(u)' <=> AtTree(u)) /\ (Unrecorded(u)' <=> Unrecorded(u))
    BY <1>2, <1>3 DEF AtBasis, AtTree, Unrecorded, CommitSteps
  <2> QED BY <1>1, <1>2, <1>3, <1>4, <2>1 DEF Phase, Ancestry
<1> QED BY <1>8, <1>9

-----------------------------------------------------------------------------
(* What a user's own steps do to the work in the tree *)

Own(t) == Phase(t)' /\ \A r \in Keeps(t) : r \in local' => r \in Keeps(t)'

(* A step that leaves the branch and the parents of a tree alone.             *)
LEMMA SameTree ==
  ASSUME NEW t, UNCHANGED <<home, parents, tree>>, tip'[home[t]] = tip[home[t]]
  PROVE  /\ (AtBasis(t)' <=> AtBasis(t)) /\ Current(t)' = Current(t)
         /\ Merges(t)' = Merges(t) /\ Basis(t)' = Basis(t)
         /\ \A r : Merged(r)' = Merged(r) /\ AncestorsIn(parents')[r] = Ancestry(r)
         /\ \A s : PastIn(parents', s) = Past(s)
<1>1. Merges(t)' = Merges(t) /\ Basis(t)' = Basis(t) /\ \A r : Merged(r)' = Merged(r)
  BY DEF Merges, Basis, Merged
<1>2. /\ \A r : AncestorsIn(parents')[r] = Ancestry(r)
      /\ \A s : PastIn(parents', s) = Past(s)
  BY DEF Ancestry, Past
<1>3. (AtBasis(t)' <=> AtBasis(t)) /\ Current(t)' = Current(t)
  BY <1>1, <1>2 DEF AtBasis, Current, Ancestry, Past
<1> QED BY <1>1, <1>2, <1>3

(* What is under way when a call begins.                                      *)
LEMMA Begun ==
  ASSUME BTypeOK, NEW t \in Trees, NEW op, NEW bs, NEW todo, NEW new, NEW old, NEW over,
         Call(t, op, bs, todo, new, old, over)
  PROVE  /\ run'[t].op = op /\ run'[t].todo = todo /\ run'[t].new = new
         /\ run'[t].old = old /\ run'[t].over = over
<1>1. run'[t] = [op |-> op, todo |-> todo, new |-> new, old |-> old, over |-> over]
  BY DEF Call, BTypeOK
<1> QED BY <1>1

(* A commit begins in a tree that is up to date.                              *)
LEMMA CommitOwn ==
  ASSUME BranchInv, NEW t \in Trees, Phase(t), CommitBound(t) \/ CommitHere(t)
  PROVE  Own(t)
<1>1. /\ UNCHANGED <<home, parents, tip, tree>> /\ run[t].op = "none" /\ BTypeOK
  BY DEF CommitBound, CommitHere, Idle, BranchInv
<1>2. /\ run'[t].op \in {"commit", "local"} /\ run'[t].new.rev = Null /\ Unrecorded(t)'
  <2>1. CASE CommitBound(t)
    <3>1. Call(t, "commit", {home[t]}, CommitSteps(home[t]), NullTip, Null, FALSE)
      BY <2>1 DEF CommitBound
    <3>2. run'[t] = [op |-> "commit", todo |-> CommitSteps(home[t]), new |-> NullTip,
                     old |-> Null, over |-> FALSE]
      BY <1>1, <3>1 DEF Call, BTypeOK
    <3>3. run'[t].op = "commit" /\ run'[t].new = NullTip /\ run'[t].todo = CommitSteps(home[t])
      BY <3>2
    <3> QED BY <1>1, <3>3 DEF Unrecorded, NullTip, CommitSteps
  <2>2. CASE CommitHere(t)
    <3> DEFINE op == IF bound[home[t]] THEN "local" ELSE "commit"
               todo == << <<"record", home[t]>>, <<"tip", home[t]>>, <<"tree", home[t]>> >>
               new == [no |-> tip[home[t]].no + 1, rev |-> Null]
    <3>1. Call(t, op, {home[t]}, todo, new, Null, FALSE)
      BY <2>2 DEF CommitHere
    <3>2. op \in {"commit", "local"} /\ new.rev = Null
      OBVIOUS
    <3> HIDE DEF op, new, todo
    <3>3. run'[t].op = op /\ run'[t].new = new /\ run'[t].todo = todo
      BY <1>1, <3>1, Begun
    <3> QED BY <1>1, <3>2, <3>3 DEF Unrecorded, todo
  <2> QED BY <2>1, <2>2
<1>3. AtBasis(t)' /\ Current(t)' = Current(t)
  BY <1>1, SameTree DEF Phase
<1>4. Keeps(t) = Current(t) /\ Keeps(t)' = Current(t)'
  BY <1>1, <1>2 DEF Keeps
<1>5. Phase(t)'
  BY <1>2, <1>3 DEF Phase
<1> QED BY <1>3, <1>4, <1>5 DEF Own

(* An uncommit begins: what it is about to throw away is given up.            *)
LEMMA UncommitOwn ==
  ASSUME BranchInv, NEW t \in Trees, Phase(t), Uncommit(t)
  PROVE  Own(t)
<1> DEFINE old == tip[home[t]].rev
           new == LeftParent(old)
<1>0. BTypeOK
  BY DEF BranchInv
<1>1. /\ UNCHANGED <<home, parents, tip, tree>> /\ run[t].op = "none" /\ BTypeOK
      /\ old # Null /\ local' = local \ Dropped(t) /\ home[t] \in Branches
  BY DEF Uncommit, Idle, BranchInv, BTypeOK
<1>2. /\ run'[t].op = "uncommit" /\ run'[t].new.rev = new /\ run'[t].old = old /\ ~AtTree(t)'
  <2>1. CASE Call(t, "uncommit", {home[t]}, IntoTree(home[t]), Back(home[t]), old, FALSE)
    <3>1. /\ run'[t].op = "uncommit" /\ run'[t].new = Back(home[t]) /\ run'[t].old = old
          /\ run'[t].todo = IntoTree(home[t])
      <4>1. run'[t] = [op |-> "uncommit", todo |-> IntoTree(home[t]), new |-> Back(home[t]),
                       old |-> old, over |-> FALSE]
        BY <1>0, <2>1 DEF Call, BTypeOK
      <4> QED BY <4>1
    <3> QED BY <1>1, <3>1 DEF AtTree, Back, IntoTree
  <2>2. CASE Call(t, "uncommit", {home[t]}, IntoMasterAndTree(home[t]), Back(home[t]), old, FALSE)
    <3>1. /\ run'[t].op = "uncommit" /\ run'[t].new = Back(home[t]) /\ run'[t].old = old
          /\ run'[t].todo = IntoMasterAndTree(home[t])
      <4>1. run'[t] = [op |-> "uncommit", todo |-> IntoMasterAndTree(home[t]), new |-> Back(home[t]),
                       old |-> old, over |-> FALSE]
        BY <1>0, <2>2 DEF Call, BTypeOK
      <4> QED BY <4>1
    <3> QED BY <1>1, <3>1 DEF AtTree, Back, IntoMasterAndTree
  <2> QED BY <2>1, <2>2 DEF Uncommit
<1>3. Basis(t) = old /\ Keeps(t) = Ancestry(old) \cup Past(Merges(t))
  BY <1>1 DEF Phase, AtBasis, Keeps, Current
<1>4. Phase(t)'
  BY <1>1, <1>2, <1>3, SameTree DEF Phase
<1>5. old \in 1 .. Len(parents) /\ old \in Known \ {Null}
  BY <1>1, KnownReferences, Pasts
<1>6. \A r : r \in Ancestry(old) => \/ r = old
                                    \/ \E p \in Range(parents[old]) : r \in Ancestry(p)
  BY <1>1, <1>5, AncestorsMembers DEF BTypeOK, Ancestry
<1>7. CASE new = Null
  <2>1. Dropped(t) = {old} \cup UNION {Ancestry(r) : r \in Range(tree[t]) \cup Range(parents[old])}
    BY <1>7 DEF Dropped
  <2>2. Past(Merges(t)) \subseteq Past(tree[t])
    BY <1>1, Pasts
  <2>3. Past(tree[t]) = UNION {Ancestry(r) : r \in Range(tree[t])}
    BY DEF Past, PastIn, Ancestry
  <2>4. Keeps(t) \subseteq Dropped(t)
    BY <1>3, <1>6, <2>1, <2>2, <2>3
  <2> QED BY <1>1, <1>4, <2>4 DEF Own
<1>8. CASE new # Null
  <2>1. Keeps(t)' = Ancestry(new) \cup Past(Merges(t)) \cup Past(Merged(old))
    BY <1>1, <1>2, <1>8, SameTree DEF Keeps, Ancestry, Past
  <2>2. parents[old] # <<>> /\ new = Head(parents[old]) /\ Merged(old) = Tail(parents[old])
    BY <1>8 DEF LeftParent, Merged
  <2>3. parents[old] \in Seq(Nat)
    BY <1>1, <1>5 DEF BTypeOK, ParentsFirst
  <2>4. Past(parents[old]) = Ancestry(new) \cup Past(Merged(old))
    BY <2>2, <2>3, PastOfParts
  <2>5. \A r : r \in Ancestry(old) => r = old \/ r \in Past(parents[old])
    BY <1>6 DEF Past, PastIn, Ancestry
  <2>6. old \notin local'
    BY <1>1 DEF Dropped
  <2> QED BY <1>3, <1>4, <2>1, <2>4, <2>5, <2>6 DEF Own
<1> QED BY <1>7, <1>8

(* A pull begins: what it is told to overwrite is given up.                   *)
LEMMA PullOwn ==
  ASSUME BranchInv, NEW t \in Trees, Phase(t), NEW s \in Branches, NEW over \in BOOLEAN, NEW here \in BOOLEAN,
         Pull(t, s, over, here)
  PROVE  Own(t)
<1> DEFINE b == home[t]
           todo == IF bound[b] /\ ~here /\ s # Master THEN IntoMasterAndTree(b) ELSE IntoTree(b)
<1>1. /\ UNCHANGED <<home, parents, tip, tree>> /\ run[t].op = "none" /\ BTypeOK
      /\ tip[s].rev # Null /\ Discard(b, over)
      /\ Call(t, "pull", {b}, todo, tip[s], tip[b].rev, over)
  BY DEF Pull, Idle, BranchInv
<1>2. todo # << <<"tree", b>> >>
  BY DEF IntoTree, IntoMasterAndTree
<1> HIDE DEF todo
<1>3. /\ run'[t].op = "pull" /\ run'[t].new = tip[s] /\ run'[t].old = tip[b].rev
      /\ run'[t].over = over /\ run'[t].todo = todo
  BY <1>1, Begun
<1>4. AtBasis(t) /\ Keeps(t) = Current(t)
  BY <1>1 DEF Phase, Keeps
<1>5. Phase(t)'
  <2>1. ~AtTree(t)'
    BY <1>1, <1>2, <1>3 DEF AtTree
  <2> QED BY <1>1, <1>3, <1>4, <2>1, SameTree DEF Phase, AtBasis
<1>6. CASE over
  <2>1. Keeps(t)' = IF tip[b].rev = Null THEN {} ELSE Past(Merges(t))
    BY <1>1, <1>3, <1>6, SameTree DEF Keeps, Past
  <2>2. local' = local \ Ancestry(tip[b].rev)
    BY <1>1, <1>6 DEF Discard
  <2> QED BY <1>4, <1>5, <2>1, <2>2 DEF Own, Current
<1>7. CASE ~over
  <2>1. Keeps(t)' = Current(t)'
    BY <1>3, <1>7 DEF Keeps
  <2> QED BY <1>1, <1>4, <1>5, <2>1, SameTree DEF Own
<1> QED BY <1>6, <1>7

(* An update begins: the old tip is part of the new one, or to be kept.       *)
LEMMA UpdateOwn ==
  ASSUME BranchInv, NEW t \in Trees, Phase(t), UpdateBound(t) \/ UpdateTree(t)
  PROVE  Own(t)
<1> DEFINE b == home[t]
<1>0. BTypeOK
  BY DEF BranchInv
<1>1. /\ UNCHANGED <<home, parents, tip, tree>> /\ run[t].op = "none" /\ BTypeOK
      /\ b \in Branches /\ Master \in Branches
  BY BoundBranchAssumption DEF UpdateBound, UpdateTree, Idle, BranchInv, BTypeOK, BoundBranchAssumption
<1>2. AtBasis(t) /\ Keeps(t) = Current(t) /\ Ancestry(Null) = {}
  BY <1>1, Pasts DEF Phase, Keeps
<1>3. ASSUME NEW bs, Call(t, "update", bs, << <<"tree", b>> >>, tip[b], Null, FALSE) PROVE Own(t)
  <2>1. /\ run'[t].op = "update" /\ run'[t].new = tip[b] /\ run'[t].old = Null
        /\ run'[t].todo = << <<"tree", b>> >>
    <3>1. run'[t] = [op |-> "update", todo |-> << <<"tree", b>> >>, new |-> tip[b], old |-> Null, over |-> FALSE]
      BY <1>0, <1>3 DEF Call, BTypeOK
    <3> QED BY <3>1
  <2>2. Phase(t)'
    BY <1>1, <2>1 DEF Phase, AtTree
  <2>3. Keeps(t)' = Current(t)
    BY <1>1, <1>2, <2>1, SameTree DEF Keeps, Current, Ancestry, Past
  <2> QED BY <1>2, <2>2, <2>3 DEF Own
<1>4. ASSUME tip[Master].rev # Null, Call(t, "update", {b}, IntoTree(b), tip[Master], Pivoted(b), TRUE)
      PROVE  Own(t)
  <2> DEFINE old == Pivoted(b)
             new == tip[Master].rev
  <2>1. /\ run'[t].op = "update" /\ run'[t].new = tip[Master] /\ run'[t].old = old
        /\ run'[t].todo = IntoTree(b)
    <3> HIDE DEF old
    <3>1. Call(t, "update", {b}, IntoTree(b), tip[Master], old, TRUE)
      BY <1>4 DEF old
    <3>2. run'[t] = [op |-> "update", todo |-> IntoTree(b), new |-> tip[Master], old |-> old, over |-> TRUE]
      BY <1>0, <3>1 DEF Call, BTypeOK
    <3> QED BY <3>2
  <2>2. /\ old \in {Null, tip[b].rev} /\ (old = Null => tip[b].rev \in Ancestry(new) \cup {Null})
        /\ old \notin Ancestry(new)
    <3>1. Null \notin Ancestry(new)
      <4>1. new \in 0 .. Len(parents) /\ ParentsFirst(parents)
        BY <1>1, KnownReferences DEF Known, BTypeOK
      <4>2. Ancestry(new) \subseteq 1 .. new
        BY <4>1, AncestorsOlder DEF Ancestry
      <4> QED BY <4>2 DEF Null
    <3> QED BY <3>1 DEF Pivoted
  <2>3. old # Null => Basis(t) = old
    BY <1>2, <2>2 DEF AtBasis
  <2>4. ~AtTree(t)'
    BY <1>1, <2>1 DEF AtTree, IntoTree
  <2> HIDE DEF old
  <2>5. Phase(t)'
    BY <1>1, <1>4, <2>1, <2>2, <2>3, <2>4, SameTree DEF Phase, Ancestry
  <2>6. Keeps(t)' = Ancestry(new) \cup Ancestry(old) \cup Past(Merges(t))
    BY <1>1, <1>4, <2>1, SameTree DEF Keeps, Ancestry, Past
  <2>7. tip[b].rev # Null => Ancestry(tip[b].rev) \subseteq Ancestry(new) \cup Ancestry(old)
    <3>1. tip[b].rev \in Ancestry(new) => Ancestry(tip[b].rev) \subseteq Ancestry(new)
      <4>1. new \in 0 .. Len(parents) /\ ParentsFirst(parents)
        BY <1>1, KnownReferences DEF Known, BTypeOK
      <4> QED BY <4>1, AncestorsClosed DEF Ancestry
    <3> QED BY <2>2, <3>1
  <2> QED BY <1>2, <2>5, <2>6, <2>7 DEF Own, Current
<1> QED BY <1>3, <1>4 DEF UpdateBound, UpdateTree

(* Merge, and the starts that leave the user's own branch and tree alone.     *)
LEMMA OtherOwn ==
  ASSUME BranchInv, NEW t \in Trees, Phase(t),
         \/ \E b \in Branches, over \in BOOLEAN : Push(t, b, over)
         \/ Rebind(t)
         \/ \E s \in Branches : Merge(t, s)
  PROVE  Own(t)
<1>1. BTypeOK /\ run[t].op = "none" /\ AtBasis(t) /\ Keeps(t) = Current(t)
  BY DEF BranchInv, Push, Rebind, Merge, Idle, Phase, Keeps
<1>2. ASSUME NEW b \in Branches, NEW over \in BOOLEAN, Push(t, b, over) PROVE Own(t)
  <2> DEFINE todo == IF bound[b] THEN IntoMasterToo(b) ELSE Into(b)
  <2>1. UNCHANGED <<home, parents, tip, tree>> /\ Call(t, "push", {b}, todo, tip[home[t]], Null, over)
    BY <1>2 DEF Push
  <2> HIDE DEF todo
  <2>2. run'[t].op = "push"
    BY <1>1, <2>1, Begun
  <2> QED BY <1>1, <2>1, <2>2, SameTree DEF Own, Phase, Keeps
<1>3. CASE Rebind(t)
  <2>1. UNCHANGED <<home, parents, tip, tree, run>>
    BY <1>3 DEF Rebind
  <2> QED BY <1>1, <2>1, SameTree DEF Own, Phase, Keeps
<1>4. ASSUME NEW s \in Branches, Merge(t, s) PROVE Own(t)
  <2> DEFINE ids == Append(tree[t], tip[s].rev)
  <2>1. /\ UNCHANGED <<home, parents, tip, run>> /\ tree'[t] = AcceptedParents(ids)
        /\ Basis(t) # Null
    BY <1>1, <1>4 DEF Merge, BTypeOK
  <2>2. tree[t] \in Seq(Known) /\ tree[t] # <<>> /\ tip[s].rev \in Known
    BY <1>1, <2>1, KnownReferences DEF Basis
  <2>3. ids \in Seq(Known) /\ ids # <<>> /\ Head(ids) = Head(tree[t])
    <3> DEFINE r == tip[s].rev
    <3> HIDE DEF r
    <3> QED BY <2>2 DEF r
  <2>4. Range(ids) = Range(tree[t]) \cup {tip[s].rev}
    BY <2>2, RangeOfAppend
  <2> HIDE DEF ids
  <2>5. /\ tree'[t] \in Seq(Known) /\ tree'[t] # <<>> /\ Head(tree'[t]) = Basis(t)
        /\ Past(ids) \subseteq Past(tree'[t])
    BY <1>1, <2>1, <2>2, <2>3, AcceptedParentsKeep DEF Basis
  <2>6. Basis(t)' = Basis(t) /\ Past(tree'[t]) = Ancestry(Basis(t)) \cup Past(Merges(t)')
    BY <2>5, PastOfParts DEF Basis, Merges
  <2>7. Past(Merges(t)) \subseteq Past(ids)
    <3>1. Past(Merges(t)) \subseteq Past(tree[t])
      BY <1>1, Pasts
    <3> QED BY <2>4, <3>1 DEF Past, PastIn
  <2>8. PastIn(parents', Merges(t)') = Past(Merges(t)') /\ \A r : AncestorsIn(parents')[r] = Ancestry(r)
    BY <2>1 DEF Past, Ancestry
  <2>9. Current(t)' = IF tip[home[t]].rev = Null THEN {} ELSE Ancestry(Basis(t)) \cup Past(Merges(t)')
    BY <1>1, <2>1, <2>8 DEF Current, AtBasis, Past, Ancestry
  <2>10. Current(t) \subseteq Current(t)'
    BY <1>1, <2>5, <2>6, <2>7, <2>9 DEF Current, AtBasis
  <2>11. Phase(t)' /\ Keeps(t)' = Current(t)'
    BY <1>1, <2>1, <2>6 DEF Phase, AtBasis, Keeps
  <2> QED BY <1>1, <2>10, <2>11 DEF Own
<1> QED BY <1>2, <1>3, <1>4

(* A commit that has nothing recorded sets no tip and no tree yet.            *)
LEMMA UnrecordedDoes ==
  ASSUME NEW t, Unrecorded(t)
  PROVE  ~AtTree(t) /\ \A b : ~Doing(t, <<"tip", b>>)
<1>1. Head(run[t].todo) \in {<<"lock", Master>>, <<"record", home[t]>>}
  BY DEF Unrecorded, CommitSteps
<1>2. AtTree(t) => Head(run[t].todo) = <<"tree", home[t]>>
  BY DEF AtTree
<1> QED BY <1>1, <1>2 DEF Doing

(* What is left of a call that is about to lock the master.                   *)
LEMMA DoingLock ==
  ASSUME NEW t \in Trees, CallOK(t), Doing(t, <<"lock", Master>>)
  PROVE  \/ run[t].op = "commit" /\ run[t].todo = CommitSteps(home[t]) /\ run[t].new.rev = Null
         \/ run[t].op \in {"uncommit", "pull"} /\ run[t].todo = IntoMasterAndTree(home[t])
         \/ run[t].op = "push"
<1>1. run[t].todo # <<>> /\ Head(run[t].todo) = <<"lock", Master>>
  BY DEF Doing
<1>2. ~CommitHereOK(t) /\ ~UpdateOK(t)
  BY <1>1 DEF CommitHereOK, UpdateOK, IntoTree
<1>3. CASE CommitBoundOK(t)
  BY <1>1, <1>3 DEF CommitBoundOK, IntoTree
<1>4. CASE UncommitOK(t)
  BY <1>1, <1>4 DEF UncommitOK, IntoTree, IntoMasterAndTree
<1>5. CASE PullOK(t)
  BY <1>1, <1>5 DEF PullOK, IntoTree, IntoMasterAndTree
<1>6. CASE PushOK(t)
  BY <1>6 DEF PushOK
<1> QED BY <1>1, <1>2, <1>3, <1>4, <1>5, <1>6 DEF CallOK

(* The past of what an uncommit throws away, which is not its left parent's.  *)
LEMMA UncommitPast ==
  ASSUME BTypeOK, NEW t \in Trees, CallOK(t), run[t].op = "uncommit"
  PROVE  /\ run[t].old \in Known \ {Null} /\ Past(Merged(run[t].old)) \subseteq Ancestry(run[t].old)
         /\ Ancestry(run[t].new.rev) \subseteq Ancestry(run[t].old)
<1>1. run[t].old # Null /\ run[t].new.rev = LeftParent(run[t].old) /\ run[t].old \in Known
  BY KnownReferences DEF CallOK, CommitHereOK, CommitBoundOK, UncommitOK, PullOK, PushOK, UpdateOK
<1> QED BY <1>1, Pasts, LeftParentIsPast

(* A call ends before it has changed the tree: nothing is lost.               *)
LEMMA StopOwn ==
  ASSUME BranchInv, NEW t \in Trees, Phase(t), ~AtTree(t), run[t].op # "update",
         run[t].op \in {"commit", "local"} => run[t].new.rev = Null,
         run'[t] = NoCall, UNCHANGED <<home, parents, tree>>, tip'[home[t]] = tip[home[t]]
  PROVE  Own(t)
<1>1. BTypeOK /\ CallOK(t) /\ run[t].op \in Ops
  BY DEF BranchInv, BTypeOK, CallType
<1>2. AtBasis(t)
  BY <1>1 DEF Phase, AtBasis, Ops
<1>3. Keeps(t) \subseteq Current(t)
  <2>1. CASE run[t].op \in {"none", "push", "commit", "local"}
    BY <2>1 DEF Keeps
  <2>2. CASE run[t].op = "uncommit"
    <3>1. /\ tip[home[t]].rev = run[t].old /\ run[t].old # Null
          /\ Past(Merged(run[t].old)) \subseteq Ancestry(run[t].old)
          /\ Ancestry(run[t].new.rev) \subseteq Ancestry(run[t].old)
      BY <1>1, <2>2, UncommitPast DEF Phase
    <3> QED BY <2>2, <3>1 DEF Keeps, Current
  <2>3. CASE run[t].op = "pull"
    BY <2>3 DEF Keeps, Current
  <2> QED BY <1>1, <2>1, <2>2, <2>3 DEF Ops
<1>4. run'[t].op = "none"
  BY DEF NoCall
<1>5. Phase(t)' /\ Keeps(t)' = Current(t)
  BY <1>2, <1>4, SameTree DEF Phase, Keeps
<1> QED BY <1>3, <1>5 DEF Own

(* A call goes on, and the tree and the branch are what they were.            *)
LEMMA SameWork ==
  ASSUME NEW t, UNCHANGED <<home, parents, tree>>, tip'[home[t]] = tip[home[t]],
         run'[t].op = run[t].op, run'[t].new.rev = run[t].new.rev, run'[t].old = run[t].old,
         run'[t].over = run[t].over
  PROVE  Keeps(t)' = Keeps(t)
<1>1. /\ Current(t)' = Current(t) /\ Merges(t)' = Merges(t)
      /\ \A r : Merged(r)' = Merged(r) /\ AncestorsIn(parents')[r] = Ancestry(r)
      /\ \A s : PastIn(parents', s) = Past(s)
  BY SameTree
<1>2. Past(Merges(t))' = Past(Merges(t)) /\ Past(Merged(run[t].old))' = Past(Merged(run[t].old))
  BY <1>1 DEF Past
<1>3. Ancestry(run[t].new.rev)' = Ancestry(run[t].new.rev) /\ Ancestry(run[t].old)' = Ancestry(run[t].old)
  BY <1>1 DEF Ancestry
<1> QED BY <1>1, <1>2, <1>3 DEF Keeps

(* The master is locked, or it does not agree, or it stays locked.            *)
LEMMA LockMasterOwn ==
  ASSUME BranchInv, NEW t \in Trees, Phase(t), LockMaster(t) \/ GiveUp(t)
  PROVE  Own(t)
<1>1. /\ UNCHANGED <<home, parents, tip, tree>> /\ Doing(t, <<"lock", Master>>)
      /\ BTypeOK /\ CallOK(t) /\ run[t] \in CallType
  BY DEF LockMaster, GiveUp, BranchInv, BTypeOK
<1>2. \/ run[t].op = "commit" /\ run[t].todo = CommitSteps(home[t]) /\ run[t].new.rev = Null
      \/ run[t].op \in {"uncommit", "pull"} /\ run[t].todo = IntoMasterAndTree(home[t])
      \/ run[t].op = "push"
  BY <1>1, DoingLock
<1>3. ~AtTree(t)
  BY <1>1 DEF AtTree, Doing
<1>4. CASE Stop(t)
  <2>1. run'[t] = NoCall
    BY <1>1, <1>4 DEF Stop, BTypeOK
  <2>2. run[t].op # "update" /\ (run[t].op \in {"commit", "local"} => run[t].new.rev = Null)
    BY <1>2
  <2> QED BY <1>1, <1>3, <2>1, <2>2, StopOwn
<1>5. CASE run' = [run EXCEPT ![t].todo = Tail(@),
                              ![t].new.no = IF run[t].op = "commit" THEN tip[Master].no + 1 ELSE @]
  <2>1. /\ run'[t].op = run[t].op /\ run'[t].new.rev = run[t].new.rev /\ run'[t].old = run[t].old
        /\ run'[t].over = run[t].over /\ run'[t].todo = Tail(run[t].todo)
    BY <1>1, <1>5 DEF BTypeOK, CallType
  <2>2. Keeps(t)' = Keeps(t)
    BY <1>1, <2>1, SameWork
  <2>3. (AtBasis(t)' <=> AtBasis(t)) /\ Basis(t)' = Basis(t)
    BY <1>1, SameTree
  <2>4. run[t].op = "commit" => Unrecorded(t)'
    BY <1>1, <1>2, <2>1 DEF Unrecorded, CommitSteps
  <2>5. run[t].op \in {"uncommit", "pull"} => ~AtTree(t)'
    <3>1. \A b : Tail(IntoMasterAndTree(b)) = << <<"tip", Master>>, <<"tip", b>>, <<"tree", b>> >>
      BY DEF IntoMasterAndTree
    <3>2. \A b : << <<"tip", Master>>, <<"tip", b>>, <<"tree", b>> >> # << <<"tree", b>> >>
      OBVIOUS
    <3>3. AtTree(t)' <=> run'[t].todo = << <<"tree", home[t]>> >>
      BY <1>1 DEF AtTree
    <3>4. run[t].op \in {"uncommit", "pull"} => run'[t].todo = Tail(IntoMasterAndTree(home[t]))
      BY <1>2, <2>1
    <3> QED BY <3>1, <3>2, <3>3, <3>4
  <2>6. Phase(t)'
    <3>1. tip'[home'[t]] = tip[home[t]] /\ run[t].op # "update" /\ run[t].op # "local"
      BY <1>1, <1>2
    <3>2. CASE run[t].op = "commit"
      BY <1>2, <2>1, <2>3, <2>4, <3>2 DEF Phase
    <3>3. CASE run[t].op = "uncommit"
      BY <1>3, <2>1, <2>3, <2>5, <3>1, <3>3 DEF Phase
    <3>4. CASE run[t].op = "pull"
      BY <1>3, <2>1, <2>3, <2>5, <3>1, <3>4 DEF Phase
    <3>5. CASE run[t].op = "push"
      BY <2>1, <2>3, <3>5 DEF Phase
    <3> QED BY <1>2, <3>2, <3>3, <3>4, <3>5
  <2> QED BY <2>2, <2>6 DEF Own
<1> QED BY <1>4, <1>5 DEF LockMaster, GiveUp

(* A revision is recorded: it has what the user keeps in its past.            *)
LEMMA RecordOwn ==
  ASSUME BranchInv, NEW t \in Trees, Phase(t), Record(t)
  PROVE  /\ Own(t)
         /\ \A r \in local' \ local : run[t].op = "local" /\ r \in Keeps(t)'
<1> DEFINE b == home[t]
           new == Len(parents) + 1
           call == [run[t] EXCEPT !.new.rev = new]
<1>1. /\ UNCHANGED <<home, tip, tree>> /\ Doing(t, <<"record", b>>)
      /\ BTypeOK /\ CallOK(t) /\ b \in Branches /\ Len(parents) \in Nat
  BY KnownReferences DEF Record, BranchInv, BTypeOK
<1>2. /\ run[t].op \in {"commit", "local"}
      /\ \/ run[t].todo = << <<"record", b>>, <<"tip", b>>, <<"tree", b>> >>
         \/ run[t].todo = << <<"record", b>>, <<"tip", Master>>, <<"tip", b>>, <<"tree", b>> >>
  BY <1>1, DoingRecord
<1>3. run[t].new.rev = Null
  <2>1. Head(run[t].todo) = <<"record", b>>
    BY <1>2
  <2>2. CASE CommitHereOK(t)
    BY <2>1, <2>2 DEF CommitHereOK, IntoTree
  <2>3. CASE CommitBoundOK(t)
    BY <2>1, <2>3 DEF CommitBoundOK, CommitSteps, IntoTree
  <2> QED BY <1>1, <1>2, <2>2, <2>3 DEF CallOK, UncommitOK, PullOK, PushOK, UpdateOK
<1>4. CASE Len(parents) = MaxTips
  <2>1. UNCHANGED <<parents, local>> /\ run'[t] = NoCall
    BY <1>1, <1>4 DEF Record, Stop, BTypeOK
  <2>2. ~AtTree(t)
    BY <1>1 DEF Doing, AtTree
  <2> QED BY <1>1, <1>2, <1>3, <2>1, <2>2, StopOwn
<1>5. CASE Len(parents) # MaxTips
  <2>1. /\ parents' = Append(parents, tree[t])
        /\ local' = IF run[t].op = "local" THEN local \cup {new} ELSE local
        /\ Next1(t, call)
    BY <1>5 DEF Record
  <2>2. /\ run'[t].op = run[t].op /\ run'[t].new.rev = new /\ run'[t].todo = Tail(run[t].todo)
    <3>1. Len(run[t].todo) # 1
      BY <1>2
    <3>2. run[t] \in CallType /\ run \in [Trees -> CallType]
      BY <1>1 DEF BTypeOK
    <3>3. call.todo = run[t].todo /\ call.op = run[t].op /\ call.new.rev = new
      BY <3>2 DEF CallType
    <3>4. run' = [run EXCEPT ![t] = [call EXCEPT !.todo = Tail(@)]]
      BY <2>1, <3>1, <3>3 DEF Next1
    <3>5. run'[t] = [call EXCEPT !.todo = Tail(@)]
      BY <3>2, <3>4
    <3> QED BY <3>2, <3>3, <3>5 DEF CallType
  <2>3. ~AtTree(t)'
    <3>1. run'[t].todo[1] \in {<<"tip", b>>, <<"tip", Master>>}
      <4>1. CASE run[t].todo = << <<"record", b>>, <<"tip", b>>, <<"tree", b>> >>
        <5>1. run'[t].todo = << <<"tip", b>>, <<"tree", b>> >>
          BY <2>2, <4>1
        <5> QED BY <5>1
      <4>2. CASE run[t].todo = << <<"record", b>>, <<"tip", Master>>, <<"tip", b>>, <<"tree", b>> >>
        <5>1. run'[t].todo = << <<"tip", Master>>, <<"tip", b>>, <<"tree", b>> >>
          BY <2>2, <4>2
        <5> QED BY <5>1
      <4> QED BY <1>2, <4>1, <4>2
    <3> QED BY <1>1, <3>1 DEF AtTree
  <2>4. new # Null
    BY <1>1 DEF Null
  <2>5. Phase(t)'
    BY <1>2, <2>2, <2>3, <2>4 DEF Phase
  <2>6. Keeps(t)' = AncestorsIn(parents')[new]
    BY <1>2, <2>2, <2>4 DEF Keeps, Ancestry
  <2>7. AncestorsIn(parents')[new] = {new} \cup Past(tree[t])
    <3>1. ParentsFirst(parents') /\ Len(parents') = new /\ parents'[new] = tree[t]
      BY <1>1, <2>1, GrownParents
    <3>2. \A x : x \in AncestorsIn(parents')[new] <=>
                   x = new \/ \E p \in Range(tree[t]) : x \in AncestorsIn(parents')[p]
      <4>1. new \in 1 .. Len(parents')
        BY <1>1, <3>1
      <4> HIDE DEF new
      <4> QED BY <3>1, <4>1, AncestorsMembers
    <3>3. \A p \in Range(tree[t]) : AncestorsIn(parents')[p] = Ancestry(p)
      <4>1. BTypeOK /\ \A p \in Range(tree[t]) : p \in Known
        BY <1>1, KnownReferences
      <4>2. GraphGrows
        <5>1. shared' \subseteq shared \cup {Len(parents) + 1}
          BY <1>5 DEF Record
        <5> QED BY <2>1, <5>1 DEF GraphGrows
      <4> QED BY <4>1, <4>2, PastsStable
    <3> QED BY <3>2, <3>3 DEF Past, PastIn, Ancestry
  <2>8. Keeps(t) \subseteq Past(tree[t])
    <3>1. AtBasis(t) /\ Keeps(t) = Current(t)
      BY <1>2, <1>3 DEF Phase, Keeps
    <3>2. tip[home[t]].rev # Null => tree[t] # <<>>
      BY <3>1 DEF AtBasis, Basis
    <3>3. tree[t] # <<>> => Past(tree[t]) = Ancestry(Basis(t)) \cup Past(Merges(t))
      BY <1>1, Pasts
    <3> QED BY <3>1, <3>2, <3>3 DEF Current, AtBasis
  <2>9. Own(t)
    BY <2>5, <2>6, <2>7, <2>8 DEF Own
  <2>10. \A r \in local' \ local : run[t].op = "local" /\ r = new
    BY <2>1
  <2> QED BY <2>6, <2>7, <2>9, <2>10
<1> QED BY <1>4, <1>5

(* The branch of the tree gets the new tip.                                   *)
LEMMA SetOwnTip ==
  ASSUME BranchInv, NEW t \in Trees, Phase(t), run[t].op \in {"commit", "local", "uncommit", "pull", "update"},
         run[t].todo = IntoTree(home[t]), ~Diverged(t, home[t]),
         IF Sets(t, home[t]) THEN tip'[home[t]] = run[t].new ELSE tip'[home[t]] = tip[home[t]],
         run'[t] = [run[t] EXCEPT !.todo = Tail(run[t].todo)], UNCHANGED <<home, parents, tree>>
  PROVE  Own(t)
<1> DEFINE b == home[t]
           new == run[t].new.rev
           now == tip[b].rev
<1>1. BTypeOK /\ CallOK(t) /\ b \in Branches /\ new \in Known /\ now \in Known
  BY KnownReferences DEF BranchInv, BTypeOK
<1>2. /\ run'[t].op = run[t].op /\ run'[t].new = run[t].new /\ run'[t].old = run[t].old
      /\ run'[t].over = run[t].over /\ run'[t].todo = Tail(run[t].todo)
  <2>1. run[t] \in CallType
    BY <1>1 DEF BTypeOK
  <2> QED BY <2>1 DEF CallType
<1>3. ~AtTree(t) /\ AtTree(t)' /\ Doing(t, <<"tip", b>>)
  BY <1>2 DEF AtTree, IntoTree, Doing
<1>4. run[t].op # "pull" => new # Null \/ run[t].op = "uncommit"
  <2>1. run[t].op \in {"commit", "local"} => new # Null
    BY <1>3, UnrecordedDoes DEF Phase
  <2> QED BY <1>3, <2>1 DEF Phase
<1>5. run[t].op # "pull" => tip'[b] = run[t].new
  BY <1>4 DEF Sets, Asked
<1>6. /\ Merges(t)' = Merges(t) /\ Basis(t)' = Basis(t)
      /\ \A r : Merged(r)' = Merged(r) /\ AncestorsIn(parents')[r] = Ancestry(r)
      /\ \A s : PastIn(parents', s) = Past(s)
  BY DEF Merges, Basis, Merged, Ancestry, Past
<1>7. Phase(t)'
  <2>1. run[t].op \in {"commit", "local"} => new # Null
    BY <1>4
  <2>2. CASE run[t].op \in {"commit", "local"}
    BY <1>2, <1>3, <1>5, <2>1, <2>2 DEF Phase
  <2>3. CASE run[t].op = "uncommit"
    BY <1>2, <1>3, <1>5, <1>6, <2>3 DEF Phase
  <2>4. CASE run[t].op = "pull"
    BY <1>2, <1>3, <1>6, <2>4 DEF Phase
  <2>5. CASE run[t].op = "update"
    BY <1>2, <1>3, <1>5, <1>6, <2>5 DEF Phase, Ancestry
  <2> QED BY <2>2, <2>3, <2>4, <2>5
<1>8. CASE run[t].op # "pull"
  <2>1. Past(Merges(t))' = Past(Merges(t)) /\ Past(Merged(run[t].old))' = Past(Merged(run[t].old))
    BY <1>2, <1>6 DEF Past
  <2>2. Ancestry(run[t].new.rev)' = Ancestry(run[t].new.rev) /\ Ancestry(run[t].old)' = Ancestry(run[t].old)
    BY <1>2, <1>6 DEF Ancestry
  <2>3. Keeps(t)' = Keeps(t)
    BY <1>2, <1>4, <1>8, <2>1, <2>2 DEF Keeps
  <2> QED BY <1>7, <2>3 DEF Own
<1>9. CASE run[t].op = "pull"
  <2>1. new # Null
    BY <1>3, <1>9 DEF Phase
  <2>2. CASE run[t].over
    <3>1. Keeps(t) \subseteq Past(Merges(t)) /\ tip'[b] = run[t].new
      BY <1>9, <2>1, <2>2 DEF Keeps, Sets, Asked
    <3>2. Keeps(t)' = Past(Merges(t))
      BY <1>2, <1>6, <1>9, <2>1, <2>2, <3>1 DEF Keeps, Past
    <3> QED BY <1>7, <3>1, <3>2 DEF Own
  <2>3. CASE ~run[t].over
    <3>1. Keeps(t) = Current(t) /\ Keeps(t)' = Current(t)'
      BY <1>2, <1>9, <2>3 DEF Keeps
    <3>2. CASE Sets(t, b)
      <4>1. tip'[b] = run[t].new /\ (now # Null => now \in Ancestry(new))
        BY <1>9, <2>3, <3>2 DEF Sets, Asked, Extends
      <4>2. now # Null => Ancestry(now) \subseteq Ancestry(new)
        BY <1>1, <4>1, AncestorsClosed DEF BTypeOK, Known, Ancestry
      <4>3. Current(t)' = Ancestry(new) \cup Past(Merges(t))
        BY <1>6, <2>1, <4>1 DEF Current, Past, Ancestry
      <4> QED BY <1>7, <3>1, <4>2, <4>3 DEF Own, Current
    <3>3. CASE ~Sets(t, b)
      <4>1. Current(t)' = Current(t)
        BY <3>3, SameTree
      <4> QED BY <1>7, <3>1, <4>1 DEF Own
    <3> QED BY <3>2, <3>3
  <2> QED BY <2>2, <2>3
<1> QED BY <1>8, <1>9

(* A tip is set, the user's own or another one, or the branches diverged.     *)
LEMMA SetTipOwn ==
  ASSUME BranchInv, NEW t \in Trees, home[t] # Master, Phase(t), SetTip(t)
  PROVE  Own(t)
<1> DEFINE b == home[t]
<1>1. PICK c \in Branches :
        /\ Doing(t, <<"tip", c>>)
        /\ \/ Sets(t, c) /\ Replace(c, run[t].new) /\ Done(t)
           \/ Diverged(t, c) /\ Fetch(c, run[t].new.rev) /\ Stop(t) /\ UNCHANGED tip
           \/ ~Sets(t, c) /\ ~Diverged(t, c) /\ Done(t) /\ UNCHANGED <<tip, store>>
  BY DEF SetTip
<1>2. /\ UNCHANGED <<home, parents, tree>> /\ BTypeOK /\ CallOK(t) /\ b \in Branches
  BY DEF SetTip, BranchInv, BTypeOK
<1>3. \/ TipOfTree(t, c) /\ run[t].op \in {"commit", "local", "uncommit", "pull", "update"}
      \/ TipOfMaster(t, c) /\ run[t].op \in {"commit", "uncommit", "pull"}
      \/ TipPushed(t, c)
  BY <1>1, <1>2, DoingTip
<1>4. ~AtTree(t) /\ ~Unrecorded(t)
  BY <1>1, UnrecordedDoes DEF AtTree, Doing
<1>5. run[t].op \in {"commit", "local"} => run[t].new.rev # Null
  BY <1>4 DEF Phase
<1>6. CASE Diverged(t, c) /\ Stop(t) /\ UNCHANGED tip
  <2>1. run[t].op \in {"pull", "push"}
    BY <1>6 DEF Diverged, Asked
  <2>2. run'[t] = NoCall
    BY <1>2, <1>6 DEF Stop, BTypeOK
  <2> QED BY <1>2, <1>4, <1>6, <2>1, <2>2, StopOwn
<1>7. CASE Done(t) /\ ~Diverged(t, c) /\ tip' = IF Sets(t, c) THEN [tip EXCEPT ![c] = run[t].new] ELSE tip
  <2>1. CASE TipOfTree(t, c) /\ run[t].op \in {"commit", "local", "uncommit", "pull", "update"}
    <3>1. c = b /\ run[t].todo = IntoTree(b) /\ Len(run[t].todo) # 1
      BY <2>1 DEF TipOfTree, IntoTree
    <3>2. run'[t] = [run[t] EXCEPT !.todo = Tail(run[t].todo)]
      BY <1>2, <1>7, <3>1 DEF Done, Next1, BTypeOK
    <3>3. IF Sets(t, b) THEN tip'[b] = run[t].new ELSE tip'[b] = tip[b]
      BY <1>2, <1>7, <3>1 DEF BTypeOK
    <3> QED BY <1>2, <1>7, <2>1, <3>1, <3>2, <3>3, SetOwnTip
  <2>2. CASE TipOfMaster(t, c) /\ run[t].op \in {"commit", "uncommit", "pull"}
    <3>1. /\ c # b /\ run[t].todo = << <<"tip", c>>, <<"tip", b>>, <<"tree", b>> >>
          /\ Len(run[t].todo) # 1
      BY <2>2 DEF TipOfMaster
    <3>2. tip'[b] = tip[b]
      BY <1>2, <1>7, <3>1 DEF BTypeOK
    <3>3. run'[t] = [run[t] EXCEPT !.todo = Tail(run[t].todo)]
      BY <1>2, <1>7, <3>1 DEF Done, Next1, BTypeOK
    <3>4. /\ run'[t].op = run[t].op /\ run'[t].new = run[t].new /\ run'[t].old = run[t].old
          /\ run'[t].over = run[t].over /\ run'[t].todo = << <<"tip", b>>, <<"tree", b>> >>
      <4>1. run[t] \in CallType
        BY <1>2 DEF BTypeOK
      <4>2. Tail(run[t].todo) = << <<"tip", b>>, <<"tree", b>> >>
        BY <3>1
      <4> QED BY <3>3, <4>1, <4>2 DEF CallType
    <3>5. ~AtTree(t)' /\ Basis(t)' = Basis(t)
      BY <1>2, <3>4 DEF AtTree, Basis
    <3>6. Phase(t)'
      BY <1>2, <1>4, <1>5, <2>2, <3>2, <3>4, <3>5 DEF Phase
    <3> QED BY <1>2, <3>2, <3>4, <3>6, SameWork DEF Own
  <2>3. CASE TipPushed(t, c)
    <3>1. run[t].op = "push" /\ c # b
      BY <1>2, <2>3 DEF TipPushed, Range, BTypeOK
    <3>2. tip'[b] = tip[b]
      BY <1>2, <1>7, <3>1 DEF BTypeOK
    <3>3. CASE Len(run[t].todo) = 1
      <4>1. run'[t] = NoCall
        BY <1>2, <1>7, <3>3 DEF Done, Next1, BTypeOK
      <4> QED BY <1>2, <1>4, <3>1, <3>2, <4>1, StopOwn
    <3>4. CASE Len(run[t].todo) # 1
      <4>1. run'[t] = [run[t] EXCEPT !.todo = Tail(run[t].todo)]
        BY <1>2, <1>7, <3>4 DEF Done, Next1, BTypeOK
      <4>2. run'[t].op = "push"
        BY <1>2, <3>1, <4>1 DEF BTypeOK, CallType
      <4>3. AtBasis(t)' /\ Current(t)' = Current(t)
        BY <1>2, <3>1, <3>2, SameTree DEF Phase
      <4>4. Keeps(t) = Current(t) /\ Keeps(t)' = Current(t)'
        BY <3>1, <4>2 DEF Keeps
      <4> QED BY <4>2, <4>3, <4>4 DEF Own, Phase
    <3> QED BY <3>3, <3>4
  <2> QED BY <1>3, <2>1, <2>2, <2>3
<1>8. Diverged(t, c) => ~Sets(t, c)
  BY DEF Diverged, Sets
<1> QED BY <1>1, <1>6, <1>7, <1>8 DEF Replace

(* A tree takes the tip of its branch as its basis, and what its user keeps   *)
(* beside that as pending merges.                                             *)
LEMMA TreeTaken ==
  ASSUME BTypeOK, NEW t \in Trees, NEW ids \in Seq(Known), ids # <<>>, Head(ids) = tip[home[t]].rev,
         run'[t] = NoCall, tree'[t] = ids, UNCHANGED <<home, parents, tip>>
  PROVE  /\ Phase(t)' /\ (tip[home[t]].rev # Null => Keeps(t)' = Past(ids))
<1>1. Basis(t)' = tip[home[t]].rev /\ Merges(t)' = Tail(ids) /\ run'[t].op = "none"
  BY DEF Basis, Merges, NoCall
<1>2. Phase(t)'
  BY <1>1 DEF Phase, AtBasis
<1>3. ASSUME tip[home[t]].rev # Null PROVE Keeps(t)' = Past(ids)
  <2>1. Past(ids) = Ancestry(tip[home[t]].rev) \cup Past(Tail(ids))
    BY PastOfParts
  <2>2. Keeps(t)' = Ancestry(tip[home[t]].rev) \cup Past(Tail(ids))
    BY <1>1, <1>3 DEF Keeps, Current, Past, Ancestry
  <2> QED BY <2>1, <2>2
<1> QED BY <1>2, <1>3

(* A tree is left alone by the last step of a call.                           *)
LEMMA TreeLeft ==
  ASSUME NEW t \in Trees, AtBasis(t), run'[t] = NoCall, UNCHANGED <<home, parents, tip>>,
         tree'[t] = tree[t]
  PROVE  Phase(t)' /\ Keeps(t)' = Current(t)
<1>1. Merges(t)' = Merges(t) /\ Basis(t)' = Basis(t) /\ run'[t].op = "none"
  BY DEF Merges, Basis, NoCall
<1> QED BY <1>1 DEF Phase, AtBasis, Keeps, Current, Ancestry, Past

(* A revision before others, in a list of parents and in their past.          *)
LEMMA PastOfFirst ==
  ASSUME NEW R, NEW r \in R, NEW s \in Seq(R)
  PROVE  /\ <<r>> \o s \in Seq(R) /\ <<r>> \o s # <<>> /\ Head(<<r>> \o s) = r
         /\ Past(<<r>> \o s) = Ancestry(r) \cup Past(s)
<1>1. <<r>> \in Seq(R)
  OBVIOUS
<1>2. <<r>> \o s \in Seq(R) /\ <<r>> \o s # <<>> /\ Head(<<r>> \o s) = r
  BY <1>1
<1>3. Past(<<r>> \o s) = Past(<<r>>) \cup Past(s)
  <2> DEFINE first == <<r>>
  <2>1. first \in Seq(R)
    BY <1>1
  <2> HIDE DEF first
  <2>2. Past(first \o s) = Past(first) \cup Past(s)
    BY <2>1, PastOfParts
  <2> QED BY <2>2 DEF first
<1>4. Past(<<r>>) = Ancestry(r)
  BY PastOfParts
<1> QED BY <1>2, <1>3, <1>4

(* The last step of a commit, an uncommit, a pull or an update.               *)
LEMMA SetTreeOwn ==
  ASSUME BranchInv, NEW t \in Trees, Phase(t), SetTree(t)
  PROVE  Own(t)
<1> DEFINE now == tip[home[t]].rev
           new == run[t].new.rev
           old == run[t].old
           merges == Merges(t)
<1>1. /\ UNCHANGED <<home, parents, tip>> /\ Doing(t, <<"tree", home[t]>>)
      /\ BTypeOK /\ CallOK(t) /\ Done(t)
  BY DEF SetTree, BranchInv
<1>2. PICK ids \in NewParents(t) : tree'[t] = ids
  BY <1>1 DEF SetTree, BTypeOK
<1>3. /\ run[t].op \in {"commit", "local", "uncommit", "pull", "update"} /\ AtTree(t) /\ ~Unrecorded(t)
      /\ run[t].op = "uncommit" => old # Null
  BY <1>1, DoingTree, UnrecordedDoes DEF AtTree
<1>4. run'[t] = NoCall
  <2>1. Len(run[t].todo) = 1
    BY <1>3 DEF AtTree
  <2> QED BY <1>1, <2>1 DEF Done, Next1, BTypeOK
<1>5. /\ now \in Known /\ new \in Known /\ old \in Known /\ merges \in Seq(Known)
      /\ Basis(t) \in Known /\ Ancestry(Null) = {}
      /\ \A r \in Known \ {Null} : r \in Ancestry(r)
  <2>1. home[t] \in Branches
    BY <1>1 DEF BTypeOK
  <2> QED BY <1>1, <2>1, KnownReferences, Pasts
<1>6. ASSUME NEW s \in Seq(Known), s # <<>>, Head(s) = now, now # Null => Keeps(t) \subseteq Past(s),
             now = Null => Keeps(t) = {}, ids = AcceptedParents(s)
      PROVE  Own(t)
  <2>1. ids \in Seq(Known) /\ ids # <<>> /\ Head(ids) = now /\ Past(s) \subseteq Past(ids)
    BY <1>1, <1>6, AcceptedParentsKeep
  <2>2. Phase(t)' /\ (now # Null => Keeps(t)' = Past(ids))
    BY <1>1, <1>2, <1>4, <2>1, TreeTaken
  <2> QED BY <1>6, <2>1, <2>2 DEF Own
<1>7. CASE run[t].op \in {"commit", "local"}
  <2>1. now = new /\ new # Null
    BY <1>3, <1>7 DEF Phase
  <2>2. ids = <<now>>
    BY <1>2, <1>7, <2>1 DEF NewParents, CommittedParents
  <2>3. ids \in Seq(Known) /\ ids # <<>> /\ Head(ids) = now
    BY <1>5, <2>2
  <2>4. Phase(t)' /\ Keeps(t)' = Past(ids)
    BY <1>1, <1>2, <1>4, <2>1, <2>3, TreeTaken
  <2>5. Past(ids) = Ancestry(now) /\ Keeps(t) = Ancestry(now)
    BY <1>5, <1>7, <2>1, <2>2, PastOfParts DEF Keeps
  <2> QED BY <2>4, <2>5 DEF Own
<1>8. CASE run[t].op = "uncommit"
  <2> DEFINE others == IF parents[old] = <<>> THEN <<>> ELSE Reverse(Tail(parents[old]))
             rest == Reverse(merges \o others)
  <2>1. now = new /\ old \in Known \ {Null}
    BY <1>3, <1>5, <1>8 DEF Phase
  <2>2. Merged(old) \in Seq(Known)
    BY <1>1, <2>1, Pasts
  <2>3. others \in Seq(Known) /\ Past(others) = Past(Merged(old))
    <3>1. CASE parents[old] = <<>>
      BY <3>1 DEF Merged
    <3>2. CASE parents[old] # <<>>
      <4>1. Merged(old) = Tail(parents[old])
        BY <3>2 DEF Merged
      <4>2. others = Reverse(Merged(old))
        BY <3>2, <4>1
      <4>3. Reverse(Merged(old)) \in Seq(Known)
        BY <1>5, <2>2, SeqClosed
      <4> QED BY <2>2, <4>2, <4>3, PastOfParts
    <3> QED BY <3>1, <3>2
  <2> HIDE DEF others
  <2>4. merges \o others \in Seq(Known) /\ Past(merges \o others) = Past(merges) \cup Past(Merged(old))
    <3>1. merges \o others \in Seq(Known)
      BY <1>5, <2>3, ConcatProperties, Zenon
    <3> QED BY <1>5, <2>3, <3>1, PastOfParts
  <2>5. rest \in Seq(Known) /\ Past(rest) = Past(merges) \cup Past(Merged(old))
    <3> DEFINE all == merges \o others
    <3>1. all \in Seq(Known) /\ Past(all) = Past(merges) \cup Past(Merged(old))
      BY <2>4
    <3> HIDE DEF all
    <3>2. Reverse(all) \in Seq(Known) /\ Past(Reverse(all)) = Past(all)
      BY <1>5, <3>1, SeqClosed, PastOfParts
    <3> QED BY <3>1, <3>2 DEF all
  <2>6. ids = AcceptedParents((IF new = Null THEN <<>> ELSE <<new>>) \o rest)
    BY <1>2, <1>8 DEF NewParents, UncommittedParents, others
  <2> HIDE DEF rest
  <2>7. CASE new = Null
    <3>1. Keeps(t) = {} /\ run'[t].op = "none"
      BY <1>4, <1>8, <2>7 DEF Keeps, NoCall
    <3>2. Phase(t)'
      BY <1>1, <2>1, <2>7, <3>1 DEF Phase, AtBasis
    <3> QED BY <3>1, <3>2 DEF Own
  <2>8. CASE new # Null
    <3>1. Keeps(t) = Ancestry(new) \cup Past(merges) \cup Past(Merged(old))
      BY <1>8, <2>8 DEF Keeps
    <3>2. ids = AcceptedParents(<<now>> \o rest)
      BY <2>1, <2>6, <2>8
    <3>3. /\ <<now>> \o rest \in Seq(Known) /\ <<now>> \o rest # <<>> /\ Head(<<now>> \o rest) = now
          /\ Past(<<now>> \o rest) = Ancestry(now) \cup Past(rest)
      BY <1>5, <2>5, PastOfFirst
    <3> QED BY <1>6, <2>1, <2>5, <2>8, <3>1, <3>2, <3>3
  <2> QED BY <2>7, <2>8
<1>9. CASE run[t].op = "pull"
  <2>1. old \in {Basis(t), Null} /\ ids \in PulledParents(t)
    BY <1>2, <1>9 DEF Phase, NewParents
  <2>2. Keeps(t) \subseteq Current(t)
    BY <1>9 DEF Keeps, Current
  <2>3. CASE now \in {old, Null}
    <3>1. AtBasis(t) /\ tree'[t] = tree[t]
      BY <1>2, <2>1, <2>3 DEF AtBasis, PulledParents
    <3> QED BY <1>1, <1>4, <2>2, <3>1, TreeLeft DEF Own
  <2>4. CASE now \notin {old, Null}
    <3>1. ids = AcceptedParents(<<now>> \o merges)
      BY <2>1, <2>4 DEF PulledParents
    <3>2. /\ <<now>> \o merges \in Seq(Known) /\ <<now>> \o merges # <<>> /\ Head(<<now>> \o merges) = now
          /\ Past(<<now>> \o merges) = Ancestry(now) \cup Past(merges)
      BY <1>5, PastOfFirst
    <3> QED BY <1>6, <2>2, <2>4, <3>1, <3>2 DEF Current
  <2> QED BY <2>3, <2>4
<1>10. CASE run[t].op = "update"
  <2>1. /\ old # Null => Basis(t) = old /\ old \notin Ancestry(new)
        /\ now = new /\ ids \in UpdatedParents(t)
    BY <1>2, <1>3, <1>10 DEF Phase, NewParents
  <2>2. Keeps(t) = IF new = Null THEN {} ELSE Ancestry(new) \cup Ancestry(old) \cup Past(merges)
    BY <1>10 DEF Keeps
  <2>3. ids = IF new \in {Basis(t), Null} THEN tree[t]
              ELSE AcceptedParents(AcceptedParents(<<new>> \o merges) \o KeepOld(t))
    BY <2>1 DEF UpdatedParents
  <2>4. CASE new \in {Basis(t), Null}
    <3>1. AtBasis(t) /\ tree'[t] = tree[t]
      BY <1>2, <2>1, <2>3, <2>4 DEF AtBasis
    <3>2. new # Null => old = Null
      BY <1>5, <2>1, <2>4
    <3>3. Keeps(t) \subseteq Current(t)
      BY <1>5, <2>1, <2>2, <3>2 DEF Current
    <3> QED BY <1>1, <1>4, <3>1, <3>3, TreeLeft DEF Own
  <2>5. CASE new \notin {Basis(t), Null}
    <3> DEFINE first == AcceptedParents(<<new>> \o merges)
               s == first \o KeepOld(t)
    <3>1. /\ <<new>> \o merges \in Seq(Known) /\ <<new>> \o merges # <<>> /\ Head(<<new>> \o merges) = new
          /\ Past(<<new>> \o merges) = Ancestry(new) \cup Past(merges)
      BY <1>5, PastOfFirst
    <3>2. /\ first \in Seq(Known) /\ first # <<>> /\ Head(first) = new
          /\ Ancestry(new) \cup Past(merges) \subseteq Past(first)
      BY <1>1, <3>1, AcceptedParentsKeep
    <3>3. ids = AcceptedParents(s)
      BY <2>3, <2>5
    <3>4. KeepOld(t) \in Seq(Known) /\ Past(KeepOld(t)) = Ancestry(old)
      <4>1. Past(<<>>) = {} /\ Past(<<old>>) = Ancestry(old)
        BY <1>5, PastOfParts
      <4>2. (KeepOld(t) = <<>> /\ old = Null) \/ KeepOld(t) = <<old>>
        BY DEF KeepOld
      <4>3. <<>> \in Seq(Known) /\ <<old>> \in Seq(Known)
        <5> DEFINE r == old
        <5>1. r \in Known
          BY <1>5
        <5> HIDE DEF r
        <5>2. <<>> \in Seq(Known) /\ <<r>> \in Seq(Known)
          BY <5>1
        <5> QED BY <5>2 DEF r
      <4> QED BY <1>5, <4>1, <4>2, <4>3, Zenon
    <3> HIDE DEF first
    <3>5. s \in Seq(Known) /\ s # <<>> /\ Head(s) = new
      <4> DEFINE u == KeepOld(t)
      <4>1. u \in Seq(Known)
        BY <3>4
      <4> HIDE DEF u
      <4>2. first \o u \in Seq(Known) /\ first \o u # <<>> /\ Head(first \o u) = Head(first)
        BY <3>2, <4>1
      <4> QED BY <3>2, <4>2 DEF u
    <3>6. Past(s) = Past(first) \cup Ancestry(old)
      BY <3>2, <3>4, PastOfParts
    <3>7. now # Null /\ Keeps(t) \subseteq Past(s)
      BY <2>1, <2>2, <2>5, <3>2, <3>6
    <3> HIDE DEF s
    <3> QED BY <1>6, <2>1, <3>3, <3>5, <3>7
  <2> QED BY <2>4, <2>5
<1> QED BY <1>3, <1>7, <1>8, <1>9, <1>10

-----------------------------------------------------------------------------
(* Local work is kept by every step *)

(* Nobody moves the tip of a branch where somebody else has a tree, but the   *)
(* master's.                                                                  *)
LEMMA OthersTips ==
  ASSUME BranchInv, OneTreeEach, NEW t \in Trees, Start(t) \/ Step(t),
         NEW u \in Trees \ {t}, home[u] # Master
  PROVE  tip'[home[u]] = tip[home[u]]
<1>1. BTypeOK /\ CallOK(t) /\ home[u] \in Branches /\ home[u] # home[t] /\ home[u] \in Range(home)
  BY DEF BranchInv, BTypeOK, OneTreeEach, Range
<1>2. CASE SetTip(t)
  <2>1. PICK c \in Branches :
          Doing(t, <<"tip", c>>) /\ (tip' = tip \/ tip' = [tip EXCEPT ![c] = run[t].new])
    BY <1>2 DEF SetTip, Replace
  <2>2. c = home[t] \/ c = Master \/ c \notin Range(home)
    BY <1>1, <2>1, DoingTip DEF TipOfTree, TipOfMaster, TipPushed
  <2> QED BY <1>1, <2>1, <2>2 DEF BTypeOK
<1>3. CASE ~SetTip(t)
  BY <1>3 DEF Start, Step, CommitBound, CommitHere, Uncommit, Pull, Push, UpdateBound, UpdateTree, Rebind, Merge,
         LockMaster, GiveUp, Record, SetTree, Fail
<1> QED BY <1>2, <1>3

(* Local work begins in a bound branch, and is made by Record alone.          *)
LEMMA LocalBegins ==
  ASSUME BranchInv, NEW t \in Trees, Start(t) \/ Step(t)
  PROVE  /\ run'[t].op = "local" => run[t].op = "local" \/ home[t] # Master
         /\ local' \subseteq local \/ Record(t)
         /\ smooth' => smooth /\ ~Fail(t)
<1>1. BTypeOK /\ run[t] \in CallType /\ ~bound[Master]
  BY DEF BranchInv, BTypeOK
<1>2. local' \subseteq local \/ Record(t)
  BY DEF Start, Step, CommitBound, CommitHere, Uncommit, Pull, Push, UpdateBound, UpdateTree, Rebind, Merge,
         LockMaster, GiveUp, SetTip, SetTree, Fail, Discard, history
<1>3. smooth' => smooth /\ ~Fail(t)
  BY DEF Start, Step, CommitBound, CommitHere, Uncommit, Pull, Push, UpdateBound, UpdateTree, Rebind, Merge,
         LockMaster, GiveUp, Record, SetTip, SetTree, Fail, history
<1>4. SUFFICES ASSUME run'[t].op = "local", home[t] = Master PROVE run[t].op = "local"
  BY <1>2, <1>3
<1>5. \A call : Next1(t, call) =>
        \/ run'[t] = NoCall
        \/ run'[t] = [call EXCEPT !.todo = Tail(call.todo)]
  BY <1>1 DEF Next1, BTypeOK
<1>6. run'[t] # NoCall /\ ~Stop(t)
  BY <1>1, <1>4 DEF NoCall, Stop, BTypeOK
<1>7. CASE LockMaster(t) \/ GiveUp(t)
  <2>1. run' = [run EXCEPT ![t].todo = Tail(@),
                           ![t].new.no = IF run[t].op = "commit" THEN tip[Master].no + 1 ELSE @]
    BY <1>6, <1>7 DEF LockMaster, GiveUp
  <2>2. run'[t].op = run[t].op
    BY <1>1, <2>1 DEF BTypeOK, CallType
  <2> QED BY <1>4, <2>2
<1>8. CASE SetTip(t) \/ SetTree(t)
  <2>1. Next1(t, run[t])
    BY <1>6, <1>8 DEF SetTip, SetTree, Done
  <2>2. run'[t] = [run[t] EXCEPT !.todo = Tail(run[t].todo)]
    BY <1>5, <1>6, <2>1
  <2> QED BY <1>1, <1>4, <2>2 DEF CallType
<1>9. CASE Record(t)
  <2> DEFINE call == [run[t] EXCEPT !.new.rev = Len(parents) + 1]
  <2>1. Next1(t, call)
    BY <1>6, <1>9 DEF Record
  <2>2. run'[t] = [call EXCEPT !.todo = Tail(call.todo)]
    BY <1>5, <1>6, <2>1
  <2> QED BY <1>1, <1>4, <2>2 DEF CallType
<1>10. ~Fail(t)
  BY <1>1, <1>6 DEF Fail, BTypeOK
<1>11. ~CommitBound(t) /\ ~CommitHere(t)
  <2>1. ~CommitBound(t)
    BY <1>1, <1>4 DEF CommitBound
  <2>2. ASSUME CommitHere(t) PROVE FALSE
    <3> DEFINE todo == << <<"record", home[t]>>, <<"tip", home[t]>>, <<"tree", home[t]>> >>
               new == [no |-> tip[home[t]].no + 1, rev |-> Null]
               op == IF bound[home[t]] THEN "local" ELSE "commit"
    <3>1. Call(t, op, {home[t]}, todo, new, Null, FALSE) /\ op = "commit"
      BY <1>1, <1>4, <2>2 DEF CommitHere
    <3> HIDE DEF todo, new, op
    <3>2. run'[t] = [op |-> op, todo |-> todo, new |-> new, old |-> Null, over |-> FALSE]
      BY <1>1, <3>1 DEF Call, BTypeOK
    <3> QED BY <1>4, <3>1, <3>2
  <2> QED BY <2>1, <2>2
<1>12. ASSUME NEW op \in Ops \ {"local"}, NEW bs, NEW todo, NEW new, NEW old, NEW over,
              Call(t, op, bs, todo, new, old, over)
       PROVE  FALSE
  <2>1. run'[t] = [op |-> op, todo |-> todo, new |-> new, old |-> old, over |-> over]
    BY <1>1, <1>12 DEF Call, BTypeOK
  <2> QED BY <1>4, <2>1
<1>13. ~Uncommit(t) /\ ~UpdateBound(t) /\ ~UpdateTree(t)
  BY <1>12, Zenon DEF Uncommit, UpdateBound, UpdateTree, Ops
<1>14. /\ \A s \in Branches, over, here \in BOOLEAN : ~Pull(t, s, over, here)
       /\ \A b \in Branches, over \in BOOLEAN : ~Push(t, b, over)
  BY <1>12, Zenon DEF Pull, Push, Ops
<1>15. CASE Rebind(t) \/ \E s \in Branches : Merge(t, s)
  BY <1>4, <1>15 DEF Rebind, Merge
<1> QED BY <1>7, <1>8, <1>9, <1>10, <1>11, <1>13, <1>14, <1>15 DEF Start, Step

(* A step of one user keeps everybody's work.                                 *)
LEMMA StepWork ==
  ASSUME BranchInv, WorkInv, NEW t \in Trees, Start(t) \/ Step(t)
  PROVE  WorkInv'
<1> SUFFICES ASSUME smooth', OneTreeEach'
             PROVE  /\ \A u \in Trees : home'[u] # Master => Phase(u)'
                    /\ \A u \in Trees : run'[u].op = "local" => home'[u] # Master
                    /\ \A r \in local' : \E u \in Trees : home'[u] # Master /\ r \in Keeps(u)'
  BY DEF WorkInv
<1>1. Frame(t)
  BY StepFrame
<1>2. home' = home /\ OneTreeEach /\ smooth /\ ~Fail(t)
  BY <1>1, LocalBegins DEF Frame, OneTreeEach
<1>3. /\ \A u \in Trees : home[u] # Master => Phase(u)
      /\ \A u \in Trees : run[u].op = "local" => home[u] # Master
      /\ \A r \in local : \E u \in Trees : home[u] # Master /\ r \in Keeps(u)
  BY <1>2 DEF WorkInv
<1>4. ASSUME NEW u \in Trees \ {t}, home[u] # Master PROVE Phase(u)' /\ Keeps(u)' = Keeps(u)
  BY <1>1, <1>2, <1>3, <1>4, OthersTips, OthersKeep
<1>5. ASSUME home[t] # Master PROVE Own(t)
  <2>1. Phase(t)
    BY <1>3, <1>5
  <2>2. CASE Start(t)
    BY <2>1, <2>2, CommitOwn, UncommitOwn, PullOwn, UpdateOwn, OtherOwn DEF Start
  <2>3. CASE Step(t)
    BY <1>2, <1>5, <2>1, <2>3, LockMasterOwn, RecordOwn, SetTipOwn, SetTreeOwn DEF Step
  <2> QED BY <2>2, <2>3
<1>6. \A u \in Trees : home'[u] # Master => Phase(u)'
  BY <1>2, <1>4, <1>5 DEF Own
<1>7. \A u \in Trees : run'[u].op = "local" => home'[u] # Master
  <2>1. \A u \in Trees \ {t} : run'[u] = run[u]
    BY <1>1 DEF Frame
  <2> QED BY <1>2, <1>3, <2>1, LocalBegins
<1>8. ASSUME NEW r \in local' PROVE \E u \in Trees : home'[u] # Master /\ r \in Keeps(u)'
  <2>1. CASE r \in local
    <3>1. PICK u \in Trees : home[u] # Master /\ r \in Keeps(u)
      BY <1>3, <2>1
    <3>2. r \in Keeps(u)'
      BY <1>4, <1>5, <1>8, <3>1 DEF Own
    <3> QED BY <1>2, <3>1, <3>2
  <2>2. CASE r \notin local
    <3>1. Record(t)
      BY <1>8, <2>2, LocalBegins
    <3>2. run[t].op = "local" /\ home[t] # Master
      <4>1. run[t].op = "local"
        BY <1>8, <2>2, <3>1 DEF Record
      <4> QED BY <1>3, <4>1
    <3>3. r \in Keeps(t)'
      BY <1>3, <1>8, <2>2, <3>1, <3>2, RecordOwn
    <3> QED BY <1>2, <3>2, <3>3
  <2> QED BY <2>1, <2>2
<1> QED BY <1>6, <1>7, <1>8

(* A lock is broken, or nothing happens.                                      *)
LEMMA IdleWork ==
  ASSUME WorkInv, UNCHANGED <<home, parents, tip, tree, run, local, smooth>>
  PROVE  WorkInv'
<1>1. \A t : /\ (AtBasis(t)' <=> AtBasis(t)) /\ Basis(t)' = Basis(t)
             /\ \A r : AncestorsIn(parents')[r] = Ancestry(r)
  BY SameTree
<1>2. \A t : Keeps(t)' = Keeps(t)
  BY SameWork
<1>3. \A t : (AtTree(t)' <=> AtTree(t)) /\ (Unrecorded(t)' <=> Unrecorded(t))
  BY DEF AtTree, Unrecorded, CommitSteps
<1>4. \A t : Phase(t)' <=> Phase(t)
  BY <1>1, <1>3 DEF Phase, Ancestry
<1> QED BY <1>2, <1>4 DEF WorkInv, OneTreeEach

(* What a user keeps is part of some branch or tree, or of what a call has    *)
(* under way.                                                                 *)
LEMMA KeptWork ==
  ASSUME BranchInv, WorkInv
  PROVE  LocalWorkKeptApart
<1> SUFFICES ASSUME smooth, OneTreeEach, NEW r \in local PROVE Kept(r)
  BY DEF LocalWorkKeptApart, LocalWorkKept
<1>1. PICK t \in Trees : r \in Keeps(t)
  BY DEF WorkInv
<1>2. BTypeOK /\ CallOK(t) /\ home[t] \in Branches
  BY DEF BranchInv, BTypeOK
<1>3. r \in Past(Merges(t)) => \E p \in Range(tree[t]) : r \in Ancestry(p)
  <2>1. Past(Merges(t)) \subseteq Past(tree[t])
    BY <1>2, Pasts
  <2> QED BY <2>1 DEF Past, PastIn, Ancestry
<1>4. run[t].op = "uncommit" => Past(Merged(run[t].old)) \subseteq Ancestry(run[t].old)
  BY <1>2, UncommitPast
<1>5. \/ r \in Ancestry(tip[home[t]].rev) \cup Past(Merges(t))
      \/ r \in Ancestry(run[t].new.rev) \cup Ancestry(run[t].old)
      \/ run[t].op = "uncommit" /\ r \in Past(Merged(run[t].old))
  BY <1>1 DEF Keeps, Current
<1> QED BY <1>2, <1>3, <1>4, <1>5 DEF Kept

(* As long as no call fails half way and no branch has two trees, no update,  *)
(* pull, merge or commit of anybody loses a revision made by commit --local   *)
(* (workingtree.py update: the old tip becomes a pending merge).              *)
THEOREM LocalWorkStays == BSpec => []LocalWorkKeptApart
<1>1. BInit => WorkInv
  <2> SUFFICES ASSUME BInit PROVE WorkInv
    OBVIOUS
  <2>1. /\ local = {} /\ run = [t \in Trees |-> NoCall] /\ home \in [Trees -> Branches]
        /\ tip = [b \in Branches |-> NullTip]
    BY BoundBranchAssumption DEF BInit, BoundBranchAssumption
  <2>2. \A t \in Trees : run[t].op = "none" /\ AtBasis(t)
    BY <2>1 DEF NoCall, NullTip, AtBasis
  <2> QED BY <2>1, <2>2 DEF WorkInv, Phase
<1>2. BranchInv /\ WorkInv /\ [BNext]_bvars => WorkInv'
  BY StepWork, IdleWork DEF BNext, BreakLock, AllEnded, bvars, history
<1>3. BranchInv /\ WorkInv => LocalWorkKeptApart
  BY KeptWork
<1> QED BY <1>1, <1>2, <1>3, BranchInvariant, PTL DEF BSpec

-----------------------------------------------------------------------------
(* Configuration files *)

\* Between reading the file again and writing it, a process has in memory what the file
\* has, but for its own changes: of a branch because it has the branch locked, of the
\* user's files unless somebody else has written them.
Exclusive(u) == guarded /\ saving[u] = "applied" => confLock = u
Reread(u) ==
  saving[u] = "applied" /\ (guarded \/ ~overtaken[u]) =>
    \A o \in Options \ changed[u] : options[u][o] = conf[o]
ConfInv == ConfTypeOK /\ \A u \in Users : Exclusive(u) /\ Reread(u)

(* What BzrBranch.lock_write, load, set and save leave of the right types.     *)
LEMMA ConfTypesStep ==
  ASSUME ConfTypeOK, ConfNext
  PROVE  ConfTypeOK'
<1> USE DEF ConfTypeOK, Content
<1> PICK u \in Users : ConfStep(u)
  BY DEF ConfNext
<1>1. CASE Load(u)
  BY <1>1 DEF Load
<1>2. CASE LockBranch(u)
  BY <1>2 DEF LockBranch
<1>3. CASE ApplyChanges(u)
  <2>1. Reapplied(u) \in Content
    BY DEF Reapplied
  <2> QED BY <1>3, <2>1 DEF ApplyChanges
<1>4. CASE LockFile(u)
  BY <1>4 DEF LockFile
<1>5. CASE LockContended(u)
  BY <1>5 DEF LockContended
<1>6. CASE Save(u)
  BY <1>6 DEF Save
<1>7. CASE UnlockBranch(u)
  BY <1>7 DEF UnlockBranch
<1>8. CASE Restart(u)
  BY <1>8 DEF Restart
<1>9. CASE \E o \in Options, v \in Values \cup {Unset} : Change(u, o, v)
  <2> PICK o \in Options, v \in Values \cup {Unset} : Change(u, o, v)
    BY <1>9
  <2>1. [Loaded(u) EXCEPT ![o] = v] \in Content
    BY DEF Loaded
  <2> QED BY <2>1 DEF Change
<1> QED
  BY <1>1, <1>2, <1>3, <1>4, <1>5, <1>6, <1>7, <1>8, <1>9 DEF ConfStep

(* No step takes the branch lock from a process that is saving, and none makes *)
(* what it has read stale without marking it overtaken.                        *)
LEMMA ConfInvStep ==
  ASSUME ConfInv, ConfNext
  PROVE  ConfInv'
<1>1. ConfTypeOK'
  BY ConfTypesStep DEF ConfInv
<1>2. ASSUME NEW w \in Users
      PROVE  Exclusive(w)' /\ Reread(w)'
  <2> USE ConfigAssumption DEF ConfInv, ConfTypeOK, Exclusive, Reread
  <2> PICK u \in Users : ConfStep(u)
    BY DEF ConfNext
  <2>1. CASE Load(u)
    BY <2>1 DEF Load
  <2>2. CASE LockBranch(u)
    BY <2>2 DEF LockBranch
  <2>3. CASE ApplyChanges(u)
    <3>1. CASE w = u
      BY <2>3, <3>1 DEF ApplyChanges, MayChange, Reapplied, Content
    <3>2. CASE w # u
      BY <2>3, <3>2 DEF ApplyChanges
    <3> QED BY <3>1, <3>2
  <2>4. CASE LockFile(u)
    BY <2>4 DEF LockFile
  <2>5. CASE LockContended(u)
    BY <2>5 DEF LockContended
  <2>6. CASE Save(u)
    BY <2>6 DEF Save
  <2>7. CASE UnlockBranch(u)
    BY <2>7 DEF UnlockBranch
  <2>8. CASE Restart(u)
    BY <2>8 DEF Restart
  <2>9. CASE \E o \in Options, v \in Values \cup {Unset} : Change(u, o, v)
    BY <2>9 DEF Change, MayChange
  <2> QED
    BY <2>1, <2>2, <2>3, <2>4, <2>5, <2>6, <2>7, <2>8, <2>9 DEF ConfStep
<1> QED
  BY <1>1, <1>2 DEF ConfInv

(* Every state of a configuration file and of the stores on it is well formed. *)
THEOREM ConfTypes == ConfSpec => []ConfTypeOK
<1>1. ConfInit => ConfTypeOK
  BY DEF ConfInit, ConfTypeOK, Content
<1>2. ConfTypeOK /\ [ConfNext]_confvars => ConfTypeOK'
  <2>1. CASE UNCHANGED confvars
    BY <2>1 DEF confvars, ConfTypeOK
  <2> QED BY <2>1, ConfTypesStep
<1> QED
  BY <1>1, <1>2, PTL DEF ConfSpec

(* The file has only ever what one of the processes had in memory.             *)
LEMMA OnlySaveWrites ==
  ASSUME ConfInv, ConfNext, NEW o \in Options, conf'[o] # conf[o]
  PROVE  \E u \in Users : /\ saving[u] = "applied" /\ saving'[u] = "no"
                          /\ o \in changed[u] \/ (~guarded /\ overtaken[u])
<1> PICK u \in Users : Save(u)
  BY DEF ConfNext, ConfStep, Load, LockBranch, ApplyChanges, LockFile, LockContended,
         UnlockBranch, Restart, Change
<1>1. saving[u] = "applied" /\ saving'[u] = "no" /\ conf' = options[u]
  BY DEF Save, ConfInv, ConfTypeOK
<1>2. o \in changed[u] \/ (~guarded /\ overtaken[u])
  BY <1>1 DEF ConfInv, Reread, ConfTypeOK
<1> QED BY <1>1, <1>2

(* save_changes and save of config.py: the options that a process has not      *)
(* touched keep the values that others have given them, however long ago the   *)
(* process loaded the file; with a branch's file always, with a file of the    *)
(* user's unless another process saves between the reload and the lock.        *)
THEOREM OthersAreKept == ConfSpec => OthersOptionsKept
<1>1. ConfInit => ConfInv
  BY DEF ConfInit, ConfInv, ConfTypeOK, Content, Exclusive, Reread
<1>2. ConfInv /\ [ConfNext]_confvars => ConfInv'
  <2>1. CASE UNCHANGED confvars
    BY <2>1 DEF confvars, ConfInv, ConfTypeOK, Exclusive, Reread
  <2> QED BY <2>1, ConfInvStep
<1>3. ConfInv /\ [ConfNext]_confvars =>
        [\A o \in Options : conf'[o] # conf[o] =>
           \E u \in Users : /\ saving[u] = "applied" /\ saving'[u] = "no"
                            /\ o \in changed[u] \/ (~guarded /\ overtaken[u])]_confvars
  BY OnlySaveWrites
<1> QED
  BY <1>1, <1>2, <1>3, PTL DEF ConfSpec, OthersOptionsKept

-----------------------------------------------------------------------------
(* SmartClient: the calls of a client                                         *)

Token == Clients \X Nat \X Nat
AskedCall == [verb : Verbs, outcome : {"open", "done", "failed"}, times : Nat]
Request == [by : Clients, call : Nat, try : Nat, verb : Verbs,
            token : Token \cup {NoToken}, version : Nat]
Answers == {Silence, "ok", "error", "version"}
Writing == {"send", "resend", "retry"}
Reading == {"read", "reread"}

SmartTypeOK ==
  /\ newest \in Nat /\ version \in [Clients -> Nat] /\ speaks \in [Clients -> Nat]
  /\ asked \in [Clients -> Seq(AskedCall)]
  /\ at \in [Clients -> {"idle"} \cup Writing \cup Reading]
  /\ sent \in [Clients -> Nat] /\ answer \in [Clients -> Answers]
  /\ token \in [Clients -> Token \cup {NoToken}]
  /\ passed \in [Clients -> Token \cup {NoToken}]
  /\ lockedBy \in Token \cup {NoToken} /\ wire \subseteq Request /\ resets \in Nat

\* Requests on the wire belong to calls that were made.
Made(r) ==
  /\ r.call \in 1 .. Len(asked[r.by])
  /\ r.verb = asked[r.by][r.call].verb
Calls ==
  /\ SmartTypeOK
  /\ \A c \in Clients : at[c] # "idle" => asked[c] # <<>>
  /\ \A r \in wire : Made(r)

\* What a step may do to the calls: end or carry out one of them, or add one.
SameCalls ==
  /\ asked' \in [Clients -> Seq(AskedCall)]
  /\ \A c \in Clients :
       /\ Len(asked'[c]) = Len(asked[c]) /\ (asked'[c] = <<>> <=> asked[c] = <<>>)
       /\ \A n \in 1 .. Len(asked[c]) : asked'[c][n].verb = asked[c][n].verb
OneMore(c, verb) ==
  /\ asked' \in [Clients -> Seq(AskedCall)]
  /\ \A d \in Clients \ {c} : asked'[d] = asked[d]
  /\ Len(asked'[c]) = Len(asked[c]) + 1 /\ asked'[c] # <<>>
  /\ \A n \in 1 .. Len(asked[c]) : asked'[c][n] = asked[c][n]
  /\ asked'[c][Len(asked[c]) + 1] = [verb |-> verb, outcome |-> "open", times |-> 0]

(* Begin appends a call. *)
LEMMA BeginCalls ==
  ASSUME Calls, NEW c \in Clients, NEW verb \in Verbs, Begin(c, verb)
  PROVE  OneMore(c, verb)
<1> DEFINE new == [verb |-> verb, outcome |-> "open", times |-> 0]
<1>1. new \in AskedCall
  BY DEF AskedCall
<1>2. asked' = [asked EXCEPT ![c] = Append(@, new)]
  BY DEF Begin
<1>3. asked[c] \in Seq(AskedCall)
  BY DEF Calls, SmartTypeOK
<1> HIDE DEF new
<1>4. Append(asked[c], new) \in Seq(AskedCall)
  BY <1>1, <1>3
<1>5. asked' \in [Clients -> Seq(AskedCall)] /\ asked'[c] = Append(asked[c], new)
  BY <1>2, <1>4 DEF Calls, SmartTypeOK
<1>6. \A d \in Clients \ {c} : asked'[d] = asked[d]
  BY <1>2 DEF Calls, SmartTypeOK
<1>7. /\ Len(asked'[c]) = Len(asked[c]) + 1 /\ asked'[c] # <<>>
      /\ \A n \in 1 .. Len(asked[c]) : asked'[c][n] = asked[c][n]
      /\ asked'[c][Len(asked[c]) + 1] = new
  BY <1>1, <1>3, <1>5, AppendProperties
<1> QED BY <1>5, <1>6, <1>7 DEF OneMore, new

(* Ends and CarryOut change one field of one call. *)
LEMMA EndsCalls ==
  ASSUME Calls, NEW c \in Clients, at[c] # "idle", NEW result \in {"done", "failed"},
         Ends(c, result)
  PROVE  /\ SameCalls
         /\ at' \in [Clients -> {"idle"} \cup Writing \cup Reading]
         /\ answer' \in [Clients -> Answers]
         /\ \A d \in Clients, n \in Nat : n \in 1 .. Len(asked[d]) =>
              /\ asked'[d][n].times = asked[d][n].times
              /\ asked'[d][n].outcome =
                   IF d = c /\ n = Len(asked[c]) THEN result ELSE asked[d][n].outcome
<1> DEFINE last == Len(asked[c])
           call == [asked[c][last] EXCEPT !.outcome = result]
<1>1. asked[c] \in Seq(AskedCall) /\ asked[c] # <<>>
  BY DEF Calls, SmartTypeOK
<1>2. last \in 1 .. Len(asked[c]) /\ asked[c][last] \in AskedCall
  BY <1>1
<1>3. /\ call \in AskedCall /\ call.verb = asked[c][last].verb
      /\ call.times = asked[c][last].times /\ call.outcome = result
  BY <1>2 DEF AskedCall
<1>4. asked' = [asked EXCEPT ![c] = [asked[c] EXCEPT ![last] = call]]
  BY DEF Ends
<1> HIDE DEF call
<1>5. /\ [asked[c] EXCEPT ![last] = call] \in Seq(AskedCall)
      /\ Len([asked[c] EXCEPT ![last] = call]) = Len(asked[c])
      /\ [asked[c] EXCEPT ![last] = call] # <<>>
      /\ \A n \in 1 .. Len(asked[c]) :
           [asked[c] EXCEPT ![last] = call][n] = IF n = last THEN call ELSE asked[c][n]
  BY <1>1, <1>2, <1>3, ExceptSeq
<1>6. /\ asked' \in [Clients -> Seq(AskedCall)]
      /\ asked'[c] = [asked[c] EXCEPT ![last] = call]
      /\ \A d \in Clients \ {c} : asked'[d] = asked[d]
  BY <1>4, <1>5 DEF Calls, SmartTypeOK
<1>7. /\ at' \in [Clients -> {"idle"} \cup Writing \cup Reading]
      /\ answer' \in [Clients -> Answers]
  BY DEF Ends, Calls, SmartTypeOK, Answers
<1> HIDE DEF last
<1>8. SameCalls
  BY <1>1, <1>3, <1>5, <1>6 DEF SameCalls
<1> QED BY <1>1, <1>3, <1>5, <1>6, <1>7, <1>8 DEF last

(* do_with_branch of the server's requests: a call has been carried out once   *)
(* more, and nothing else about any call changes.                              *)
LEMMA MarkCalls ==
  ASSUME Calls, NEW c \in Clients, NEW k \in 1 .. Len(asked[c]),
         asked' = [asked EXCEPT ![c][k].times = @ + 1]
  PROVE  /\ SameCalls
         /\ \A d \in Clients, n \in Nat : n \in 1 .. Len(asked[d]) =>
              /\ asked'[d][n].times =
                   IF d = c /\ n = k THEN asked[d][n].times + 1 ELSE asked[d][n].times
              /\ asked'[d][n].outcome = asked[d][n].outcome
<1> DEFINE call == [asked[c][k] EXCEPT !.times = @ + 1]
<1>1. asked[c] \in Seq(AskedCall)
  BY DEF Calls, SmartTypeOK
<1>2. asked[c][k] \in AskedCall
  BY <1>1
<1>3. /\ call \in AskedCall /\ call.verb = asked[c][k].verb
      /\ call.times = asked[c][k].times + 1 /\ call.outcome = asked[c][k].outcome
  BY <1>2 DEF AskedCall
<1>4. asked' = [asked EXCEPT ![c] = [asked[c] EXCEPT ![k] = call]]
  OBVIOUS
<1> HIDE DEF call
<1>5. /\ [asked[c] EXCEPT ![k] = call] \in Seq(AskedCall)
      /\ Len([asked[c] EXCEPT ![k] = call]) = Len(asked[c])
      /\ [asked[c] EXCEPT ![k] = call] # <<>> /\ asked[c] # <<>>
      /\ \A n \in 1 .. Len(asked[c]) :
           [asked[c] EXCEPT ![k] = call][n] = IF n = k THEN call ELSE asked[c][n]
  BY <1>1, <1>2, <1>3, ExceptSeq
<1>6. /\ asked' \in [Clients -> Seq(AskedCall)]
      /\ asked'[c] = [asked[c] EXCEPT ![k] = call]
      /\ \A d \in Clients \ {c} : asked'[d] = asked[d]
  <2> DEFINE updated == [asked[c] EXCEPT ![k] = call]
  <2>1. updated \in Seq(AskedCall)
    BY <1>5
  <2>2. asked' = [asked EXCEPT ![c] = updated]
    BY <1>4
  <2> HIDE DEF updated
  <2>3. /\ asked' \in [Clients -> Seq(AskedCall)] /\ asked'[c] = updated
        /\ \A d \in Clients \ {c} : asked'[d] = asked[d]
    BY <2>1, <2>2 DEF Calls, SmartTypeOK
  <2> QED BY <2>3 DEF updated
<1> QED BY <1>1, <1>3, <1>5, <1>6 DEF SameCalls

(* A request that is rejected, lost or refused leaves all calls as they are.    *)
LEMMA Unmarked ==
  ASSUME Calls, UNCHANGED asked
  PROVE  SameCalls
BY DEF Calls, SmartTypeOK, SameCalls

-----------------------------------------------------------------------------
(* Types *)

(* The request that a client writes, and the place of a call that has begun.   *)
LEMMA CurrentCall ==
  ASSUME Calls, NEW c \in Clients, at[c] # "idle"
  PROVE  Len(asked[c]) \in 1 .. Len(asked[c]) /\ Verb(c) \in Verbs
<1>1. asked[c] \in Seq(AskedCall) /\ asked[c] # <<>>
  BY DEF Calls, SmartTypeOK
<1>2. Len(asked[c]) \in 1 .. Len(asked[c]) /\ asked[c][Len(asked[c])] \in AskedCall
  BY <1>1
<1> QED BY <1>2 DEF Verb, AskedCall

(* Types, and where a request comes from, are kept by every step.              *)
LEMMA CallsStep ==
  ASSUME Calls, SmartNext
  PROVE  Calls'
<1>1. ASSUME NEW c \in Clients, NEW verb \in Verbs, Begin(c, verb)
      PROVE  Calls'
  <2>1. OneMore(c, verb)
    BY <1>1, BeginCalls
  <2>2. SmartTypeOK'
    BY <1>1, <2>1 DEF Calls, SmartTypeOK, OneMore, Begin, Writing, Token
  <2>3. \A d \in Clients : at'[d] # "idle" => asked'[d] # <<>>
    BY <1>1, <2>1 DEF Calls, SmartTypeOK, OneMore, Begin
  <2>4. \A r \in wire' : Made(r)'
    BY <1>1, <2>1 DEF Calls, SmartTypeOK, OneMore, Begin, Made, Request
  <2> QED BY <2>2, <2>3, <2>4 DEF Calls
<1>2. ASSUME NEW c \in Clients, Write(c)
      PROVE  Calls'
  <2>1. at[c] # "idle" /\ asked' = asked /\ sent' \in [Clients -> Nat]
    BY <1>2 DEF Write, Calls, SmartTypeOK, Writing
  <2>2. Len(asked[c]) \in 1 .. Len(asked[c]) /\ Verb(c) \in Verbs
    BY <2>1, CurrentCall
  <2>3. PICK r \in Request :
          wire' = wire \cup {r} /\ r.by = c /\ r.call = Len(asked[c]) /\ r.verb = Verb(c)
    <3> DEFINE new == [by |-> c, call |-> Len(asked[c]), try |-> sent'[c],
                       verb |-> Verb(c), token |-> passed[c], version |-> speaks[c]]
    <3>1. new \in Request
      BY <2>1, <2>2 DEF Calls, SmartTypeOK, Request
    <3>2. wire' = wire \cup {new}
      BY <1>2 DEF Write
    <3> QED BY <3>1, <3>2
  <2>4. SmartTypeOK'
    BY <1>2, <2>1, <2>3 DEF Write, Calls, SmartTypeOK, Writing, Reading, Answers
  <2>5. \A d \in Clients : at'[d] # "idle" => asked'[d] # <<>>
    BY <1>2, <2>1 DEF Write, Calls, SmartTypeOK
  <2>6. \A q \in wire' : Made(q)'
    BY <2>1, <2>2, <2>3 DEF Calls, Made, Verb
  <2> QED BY <2>4, <2>5, <2>6 DEF Calls
<1>3. ASSUME SameCalls, wire' \subseteq wire, SmartTypeOK',
             \A d \in Clients : at'[d] # "idle" => at[d] # "idle"
      PROVE  Calls'
  <2>1. \A r \in wire' : Made(r)'
    BY <1>3 DEF Calls, SmartTypeOK, SameCalls, Made, Request
  <2> QED BY <1>3, <2>1 DEF Calls, SameCalls, SmartTypeOK
<1>4. ASSUME NEW c \in Clients, WriteFails(c)
      PROVE  Calls'
  <2>1. SameCalls
    BY <1>4, EndsCalls, Unmarked DEF WriteFails, Writing
  <2>2. /\ at' \in [Clients -> {"idle"} \cup Writing \cup Reading]
        /\ answer' \in [Clients -> Answers]
    BY <1>4, EndsCalls DEF WriteFails, Writing, Calls, SmartTypeOK
  <2>3. SmartTypeOK'
    BY SMTT(40), <1>4, <2>1, <2>2 DEF SameCalls, Calls, SmartTypeOK, WriteFails
  <2>4. \A d \in Clients : at'[d] # "idle" => at[d] # "idle"
    BY <1>4 DEF WriteFails, Ends, Calls, SmartTypeOK
  <2> QED BY <1>3, <1>4, <2>1, <2>3, <2>4 DEF WriteFails
<1>5. ASSUME NEW c \in Clients, ReadFails(c)
      PROVE  Calls'
  <2>1. SameCalls
    BY <1>5, EndsCalls, Unmarked DEF ReadFails, Reading
  <2>2. /\ at' \in [Clients -> {"idle"} \cup Writing \cup Reading]
        /\ answer' \in [Clients -> Answers]
    BY <1>5, EndsCalls DEF ReadFails, Reading, Writing, Calls, SmartTypeOK
  <2>3. SmartTypeOK'
    BY <1>5, <2>1, <2>2 DEF SameCalls, Calls, SmartTypeOK, ReadFails
  <2>4. \A d \in Clients : at'[d] # "idle" => at[d] # "idle"
    BY <1>5 DEF ReadFails, Ends, Calls, SmartTypeOK
  <2> QED BY <1>3, <1>5, <2>1, <2>3, <2>4 DEF ReadFails
<1>6. ASSUME NEW c \in Clients, Read(c)
      PROVE  Calls'
  <2> DEFINE new == <<c, Len(asked[c]), sent[c]>>
  <2>1. SameCalls
    BY <1>6, EndsCalls, Unmarked DEF Read, Reading
  <2>2. /\ at' \in [Clients -> {"idle"} \cup Writing \cup Reading]
        /\ answer' \in [Clients -> Answers]
    BY <1>6, EndsCalls DEF Read, Reading, Writing, Calls, SmartTypeOK
  <2>3. new \in Token
    BY DEF Calls, SmartTypeOK, Token
  <2>4. token' = token \/ token' = [token EXCEPT ![c] = new] \/ token' = [token EXCEPT ![c] = @]
    BY <1>6 DEF Read
  <2>5. token' \in [Clients -> Token \cup {NoToken}]
    <3> HIDE DEF new
    <3> QED BY <2>3, <2>4 DEF Calls, SmartTypeOK
  <2>6. version' \in [Clients -> Nat] /\ speaks' \in [Clients -> Nat]
    <3>1. /\ version' = version \/ version' = [version EXCEPT ![c] = speaks[c]]
          /\ speaks' = speaks \/ speaks' = [speaks EXCEPT ![c] = 2]
      BY <1>6 DEF Read
    <3>2. speaks \in [Clients -> Nat] /\ version \in [Clients -> Nat] /\ 2 \in Nat
      BY DEF Calls, SmartTypeOK
    <3> QED BY <3>1, <3>2
  <2>7. SmartTypeOK'
    BY <1>6, <2>1, <2>2, <2>5, <2>6 DEF SameCalls, Calls, SmartTypeOK, Read
  <2>8. \A d \in Clients : at'[d] # "idle" => at[d] # "idle"
    BY <1>6 DEF Read, Ends, Reading, Calls, SmartTypeOK
  <2> QED BY <1>3, <1>6, <2>1, <2>7, <2>8 DEF Read
<1>7. ASSUME NEW r \in wire, CarryOut(r)
      PROVE  Calls'
  <2>1. r \in Request
    BY DEF Calls, SmartTypeOK
  <2>2. SameCalls
    BY <1>7, <2>1, MarkCalls, Unmarked DEF CarryOut, Calls, Made, Request
  <2>3. answer' \in [Clients -> Answers]
    BY <1>7, <2>1 DEF Calls, SmartTypeOK, CarryOut, Answered, Verdict, Answers
  <2>4. lockedBy' \in Token \cup {NoToken}
    BY <1>7, <2>1 DEF Calls, SmartTypeOK, CarryOut, Request, Token
  <2>5. SmartTypeOK'
    BY <1>7, <2>2, <2>3, <2>4 DEF SameCalls, Calls, SmartTypeOK, CarryOut
  <2> QED BY <1>3, <1>7, <2>2, <2>5 DEF CarryOut
<1>8. ASSUME NEW r \in wire, Reject(r) \/ Lose(r)
      PROVE  Calls'
  <2>1. SameCalls
    BY <1>8, Unmarked DEF Reject, Lose, clientvars
  <2>2. SmartTypeOK'
    BY <1>8 DEF Calls, SmartTypeOK, Reject, Lose, clientvars, Answered, Answers, Request
  <2> QED BY <1>3, <1>8, <2>1, <2>2 DEF Reject, Lose, clientvars
<1>9. ASSUME BreakOrphan
      PROVE  Calls'
  BY <1>9 DEF BreakOrphan, clientvars, Calls, SmartTypeOK, Made
<1> QED
  BY <1>1, <1>2, <1>4, <1>5, <1>6, <1>7, <1>8, <1>9 DEF SmartNext

-----------------------------------------------------------------------------
(* Locks.  A lock's token names the call that took it; a client unlocks in a   *)
(* later call, when it has forgotten the token, and so has nobody else it.     *)

HoldsToken(c) ==
  token[c] # NoToken =>
    lockedBy = token[c] /\ token[c][1] = c /\ token[c][2] <= Len(asked[c])
Unlocks(c) ==
  at[c] # "idle" /\ Verb(c) = "unlock" =>
    /\ token[c] = NoToken /\ passed[c] # NoToken
    /\ passed[c][1] = c /\ passed[c][2] < Len(asked[c])
Locks(c) == at[c] # "idle" /\ Verb(c) = "lock" => token[c] = NoToken
\* The answer that the lock is taken has arrived, or is being read.
Granted(c) ==
  at[c] \in Reading /\ Verb(c) = "lock" /\ answer[c] = "ok" =>
    lockedBy = <<c, Len(asked[c]), sent[c]>>
Forgotten(r) ==
  r.verb = "unlock" =>
    /\ r.token # NoToken /\ r.token[1] = r.by /\ r.token[2] < r.call
    /\ \A c \in Clients : token[c] # r.token
TokensOK ==
  /\ \A c \in Clients : HoldsToken(c) /\ Unlocks(c) /\ Locks(c) /\ Granted(c)
  /\ \A r \in wire : Forgotten(r)

\* What a step leaves alone that neither takes a lock nor gives one back.
Aside(c) ==
  /\ token'[c] = token[c] /\ Len(asked'[c]) >= Len(asked[c])
  /\ at'[c] # "idle" => /\ at[c] # "idle" /\ Len(asked'[c]) = Len(asked[c])
                        /\ Verb(c)' = Verb(c) /\ passed'[c] = passed[c]
  /\ at'[c] \in Reading /\ answer'[c] = "ok" =>
       at[c] \in Reading /\ answer[c] = "ok" /\ sent'[c] = sent[c]

(* Such steps keep the invariant.                                              *)
LEMMA AsideKeeps ==
  ASSUME Calls, TokensOK, lockedBy' = lockedBy, NEW c \in Clients, Aside(c)
  PROVE  HoldsToken(c)' /\ Unlocks(c)' /\ Locks(c)' /\ Granted(c)'
<1> USE DEF TokensOK, Aside
<1>1. HoldsToken(c)'
  <2> asked[c] \in Seq(AskedCall) /\ token[c] \in Token \cup {NoToken}
    BY DEF Calls, SmartTypeOK
  <2> QED BY DEF HoldsToken, Token
<1>2. Unlocks(c)' /\ Locks(c)'
  BY DEF Unlocks, Locks
<1>3. Granted(c)'
  BY DEF Granted, Reading
<1> QED BY <1>1, <1>2, <1>3

(* A call that is not on its way to an end keeps its verb.                     *)
LEMMA SameVerb ==
  ASSUME Calls, SameCalls, NEW c \in Clients, at[c] # "idle"
  PROVE  Verb(c)' = Verb(c) /\ Len(asked'[c]) = Len(asked[c])
BY CurrentCall DEF SameCalls, Verb

(* Tokens are made by lock calls and differ from what is no token.             *)
LEMMA TokensDiffer ==
  ASSUME NEW t \in Token
  PROVE  t # NoToken
BY SmartAssumption DEF Token

(* No step takes a lock from a client that knows its token.                    *)
LEMMA TokensStep ==
  ASSUME Calls, TokensOK, SmartNext, Calls'
  PROVE  TokensOK'
<1>1. ASSUME NEW c \in Clients, NEW verb \in Verbs, Begin(c, verb)
      PROVE  TokensOK'
  <2>1. OneMore(c, verb)
    BY <1>1, BeginCalls
  <2>2. \A d \in Clients \ {c} : Aside(d)
    BY <1>1, <2>1 DEF Begin, OneMore, Aside, Verb, Calls, SmartTypeOK
  <2>3. \A d \in Clients \ {c} : HoldsToken(d)' /\ Unlocks(d)' /\ Locks(d)' /\ Granted(d)'
    BY <1>1, <2>2, AsideKeeps DEF Begin
  <2>4. /\ Verb(c)' = verb /\ Len(asked'[c]) = Len(asked[c]) + 1 /\ Len(asked[c]) \in Nat
        /\ passed'[c] = token[c] /\ lockedBy' = lockedBy /\ at'[c] = "send"
        /\ token'[c] = IF verb = "unlock" THEN NoToken ELSE token[c]
    BY <1>1, <2>1 DEF Begin, OneMore, Verb, Calls, SmartTypeOK
  <2>5. verb = "unlock" => token[c] # NoToken
    BY <1>1 DEF Begin
  <2>6. verb = "lock" => token[c] = NoToken
    BY <1>1 DEF Begin
  <2>7. token[c] # NoToken => token[c] \in Token /\ token[c][2] \in Nat
    BY DEF Calls, SmartTypeOK, Token
  <2>8. HoldsToken(c)'
    BY <2>4, <2>7 DEF HoldsToken, TokensOK
  <2>9. Unlocks(c)'
    BY <2>4, <2>5, <2>7 DEF Unlocks, HoldsToken, TokensOK
  <2>10. Locks(c)' /\ Granted(c)'
    BY <2>4, <2>6 DEF Locks, Granted, Reading
  <2>11. \A r \in wire' : Forgotten(r)'
    <3> SUFFICES ASSUME NEW r \in wire, r.verb = "unlock"
                 PROVE  /\ r.token # NoToken /\ r.token[1] = r.by /\ r.token[2] < r.call
                        /\ \A d \in Clients : token'[d] # r.token
      BY <1>1 DEF Begin, Forgotten
    <3>1. token' = [token EXCEPT ![c] = IF verb = "unlock" THEN NoToken ELSE @]
      BY <1>1 DEF Begin
    <3>2. \A d \in Clients : token'[d] \in {token[d], NoToken}
      BY <3>1 DEF Calls, SmartTypeOK
    <3> QED BY <3>2 DEF TokensOK, Forgotten
  <2> QED BY <2>3, <2>8, <2>9, <2>10, <2>11 DEF TokensOK
<1>2. ASSUME NEW c \in Clients, Write(c)
      PROVE  TokensOK'
  <2>1. asked' = asked /\ lockedBy' = lockedBy /\ token' = token /\ passed' = passed
    BY <1>2 DEF Write
  <2>2. at[c] # "idle" /\ answer'[c] = Silence
    BY <1>2 DEF Write, Calls, SmartTypeOK
  <2>3. \A d \in Clients : Aside(d)
    BY <1>2, <2>1, <2>2 DEF Write, Aside, Verb, Calls, SmartTypeOK, Silence
  <2>4. PICK try \in Nat :
          wire' = wire \cup {[by |-> c, call |-> Len(asked[c]), try |-> try, verb |-> Verb(c),
                              token |-> passed[c], version |-> speaks[c]]}
    BY <1>2 DEF Write, Calls, SmartTypeOK
  <2>5. Verb(c) = "unlock" =>
          /\ passed[c] # NoToken /\ passed[c][1] = c /\ passed[c][2] < Len(asked[c])
          /\ \A d \in Clients : token[d] # passed[c]
    BY <2>2 DEF TokensOK, Unlocks, HoldsToken
  <2>6. \A r \in wire' : Forgotten(r)'
    BY <2>1, <2>4, <2>5 DEF TokensOK, Forgotten
  <2> QED BY <2>1, <2>3, <2>6, AsideKeeps DEF TokensOK
<1>3. ASSUME lockedBy' = lockedBy, wire' \subseteq wire, token' = token,
             \A c \in Clients : Aside(c)
      PROVE  TokensOK'
  BY <1>3, AsideKeeps DEF TokensOK, Forgotten
<1>4. ASSUME NEW c \in Clients, WriteFails(c) \/ ReadFails(c)
      PROVE  TokensOK'
  <2>1. SameCalls
    BY <1>4, EndsCalls, Unmarked DEF WriteFails, ReadFails, Writing, Reading
  <2>2. \A d \in Clients : at[d] # "idle" => Verb(d)' = Verb(d)
    BY <2>1, SameVerb
  <2>3. \A d \in Clients : Len(asked'[d]) = Len(asked[d]) /\ Len(asked[d]) \in Nat
    BY <2>1 DEF SameCalls, Calls, SmartTypeOK
  <2>4. \A d \in Clients : at'[d] # "idle" => at[d] # "idle"
    BY <1>4 DEF WriteFails, ReadFails, Ends, Calls, SmartTypeOK
  <2>5. \A d \in Clients : at'[d] \in Reading => at[d] \in Reading /\ answer'[d] = answer[d]
    BY SMTT(40), <1>4 DEF WriteFails, ReadFails, Ends, Calls, SmartTypeOK, Reading
  <2>6. token' = token /\ passed' = passed /\ sent' = sent /\ wire' = wire /\ lockedBy' = lockedBy
    BY <1>4 DEF WriteFails, ReadFails
  <2> QED BY <1>3, <2>2, <2>3, <2>4, <2>5, <2>6 DEF Aside
<1>5. ASSUME NEW c \in Clients, Read(c)
      PROVE  TokensOK'
  <2> DEFINE new == <<c, Len(asked[c]), sent[c]>>
  <2>1. SameCalls
    BY <1>5, EndsCalls, Unmarked DEF Read, Reading
  <2>2. \A d \in Clients : at[d] # "idle" => Verb(d)' = Verb(d)
    BY <2>1, SameVerb
  <2>3. \A d \in Clients : Len(asked'[d]) = Len(asked[d]) /\ Len(asked[d]) \in Nat
    BY <2>1 DEF SameCalls, Calls, SmartTypeOK
  <2>4. \A d \in Clients : at'[d] # "idle" => at[d] # "idle"
    BY <1>5 DEF Read, Ends, Calls, SmartTypeOK, Reading
  <2>5. \A d \in Clients : at'[d] \in Reading => at[d] \in Reading /\ answer'[d] = answer[d]
    BY <1>5 DEF Read, Ends, Calls, SmartTypeOK, Reading
  <2>6. passed' = passed /\ sent' = sent /\ wire' = wire /\ lockedBy' = lockedBy
    BY <1>5 DEF Read
  <2>7. CASE token' = token
    BY <1>3, <2>2, <2>3, <2>4, <2>5, <2>6, <2>7 DEF Aside
  <2>8. CASE token' # token
    <3>1. /\ token' = [token EXCEPT ![c] = new] /\ at'[c] = "idle"
          /\ at[c] \in Reading /\ Verb(c) = "lock" /\ answer[c] = "ok"
      BY <1>5, <2>8 DEF Read, Ends, Calls, SmartTypeOK, Reading, Answers, Silence
    <3>2. lockedBy = new /\ new \in Token /\ new # NoToken
      BY <3>1, TokensDiffer DEF TokensOK, Granted, Calls, SmartTypeOK, Token
    <3>3. \A d \in Clients : token'[d] = IF d = c THEN new ELSE token[d]
      BY <3>1 DEF Calls, SmartTypeOK
    <3>4. HoldsToken(c)' /\ Unlocks(c)' /\ Locks(c)' /\ Granted(c)'
      BY <2>3, <2>6, <3>1, <3>2, <3>3 DEF HoldsToken, Unlocks, Locks, Granted, Reading
    <3>5. \A d \in Clients \ {c} : Aside(d)
      BY <2>2, <2>3, <2>4, <2>5, <2>6, <3>3 DEF Aside
    <3>6. \A r \in wire' : Forgotten(r)'
      <4> SUFFICES ASSUME NEW r \in wire, r.verb = "unlock"
                   PROVE  r.token # new
        BY <2>6, <3>3 DEF TokensOK, Forgotten
      <4>1. r.token[1] = r.by /\ r.token[2] < r.call
        BY DEF TokensOK, Forgotten
      <4>2. r.call \in 1 .. Len(asked[r.by])
        BY DEF Calls, Made
      <4> QED BY <4>1, <4>2, <2>3
    <3> QED BY <2>6, <3>4, <3>5, <3>6, AsideKeeps DEF TokensOK
  <2> QED BY <2>7, <2>8
<1>6. ASSUME NEW r \in wire, CarryOut(r)
      PROVE  TokensOK'
  <2>1. r \in Request /\ Made(r)
    BY DEF Calls, SmartTypeOK
  <2>2. SameCalls
    BY <1>6, <2>1, MarkCalls, Unmarked DEF CarryOut, Made, Request
  <2>3. \A d \in Clients : at[d] # "idle" => Verb(d)' = Verb(d)
    BY <2>2, SameVerb
  <2>4. \A d \in Clients : Len(asked'[d]) = Len(asked[d]) /\ Len(asked[d]) \in Nat
    BY <2>2 DEF SameCalls, Calls, SmartTypeOK
  <2>5. token' = token /\ passed' = passed /\ sent' = sent /\ at' = at /\ wire' \subseteq wire
    BY <1>6 DEF CarryOut
  <2>6. \A q \in wire' : Forgotten(q)'
    BY <2>5 DEF TokensOK, Forgotten
  <2>7. \A d \in Clients :
          answer'[d] = answer[d] \/ (d = r.by /\ Awaited(r) /\ answer'[d] = Verdict(r))
    BY <1>6, <2>1 DEF CarryOut, Answered, Calls, SmartTypeOK, Request
  <2>8. Awaited(r) => Verb(r.by) = r.verb /\ r.call = Len(asked[r.by]) /\ r.try = sent[r.by]
    BY <2>1 DEF Awaited, Made, Verb
  <2>9. CASE r.verb \notin {"lock", "unlock"} \/ Verdict(r) = "error"
    <3>1. lockedBy' = lockedBy
      BY <1>6, <2>9 DEF CarryOut
    <3>2. \A d \in Clients : HoldsToken(d)' /\ Unlocks(d)' /\ Locks(d)'
      BY <2>3, <2>4, <2>5, <3>1 DEF TokensOK, HoldsToken, Unlocks, Locks
    <3>3. ASSUME NEW d \in Clients
          PROVE  Granted(d)'
      BY <2>3, <2>4, <2>5, <2>7, <2>8, <2>9, <3>1 DEF TokensOK, Granted, Reading
    <3> QED BY <2>6, <3>2, <3>3 DEF TokensOK
  <2>10. CASE r.verb = "lock" /\ Verdict(r) # "error"
    <3>1. lockedBy = NoToken /\ lockedBy' = <<r.by, r.call, r.try>>
      BY <1>6, <2>10 DEF CarryOut, Verdict
    <3>2. \A d \in Clients : token[d] = NoToken
      BY <3>1 DEF TokensOK, HoldsToken
    <3>3. \A d \in Clients : HoldsToken(d)' /\ Unlocks(d)' /\ Locks(d)'
      BY <2>3, <2>4, <2>5, <3>2 DEF TokensOK, HoldsToken, Unlocks, Locks
    <3>4. ASSUME NEW d \in Clients, at'[d] \in Reading, Verb(d)' = "lock", answer'[d] = "ok"
          PROVE  lockedBy' = <<d, Len(asked'[d]), sent'[d]>>
      <4>1. CASE answer'[d] = answer[d] /\ ~(d = r.by /\ Awaited(r))
        <5>1. lockedBy = <<d, Len(asked[d]), sent[d]>>
          BY <2>3, <2>5, <3>4, <4>1 DEF TokensOK, Granted, Reading
        <5>2. <<d, Len(asked[d]), sent[d]>> \in Token
          BY DEF Calls, SmartTypeOK, Token
        <5> QED BY <3>1, <5>1, <5>2, TokensDiffer
      <4>2. CASE d = r.by /\ Awaited(r)
        BY <2>4, <2>5, <2>8, <3>1, <4>2
      <4> QED BY <2>7, <4>1, <4>2
    <3> QED BY <2>6, <3>3, <3>4 DEF TokensOK, Granted
  <2>11. CASE r.verb = "unlock" /\ Verdict(r) # "error"
    <3>1. lockedBy = r.token /\ lockedBy' = NoToken
      BY <1>6, <2>11 DEF CarryOut, Verdict
    <3>2. \A d \in Clients : token[d] = NoToken
      BY <2>11, <3>1 DEF TokensOK, HoldsToken, Forgotten
    <3>3. \A d \in Clients : HoldsToken(d)' /\ Unlocks(d)' /\ Locks(d)'
      BY <2>3, <2>4, <2>5, <3>2 DEF TokensOK, HoldsToken, Unlocks, Locks
    <3>4. ASSUME NEW d \in Clients, at'[d] \in Reading, Verb(d)' = "lock", answer'[d] = "ok"
          PROVE  FALSE
      <4>1. Verb(d) = "lock" /\ at[d] \in Reading
        BY <2>3, <2>5, <3>4 DEF Reading
      <4>2. answer[d] = "ok"
        BY <2>7, <2>8, <2>11, <3>4, <4>1
      <4>3. r.token = <<d, Len(asked[d]), sent[d]>>
        BY <3>1, <4>1, <4>2 DEF TokensOK, Granted
      <4>4. r.token[1] = r.by /\ r.token[2] < r.call
        BY <2>11 DEF TokensOK, Forgotten
      <4>5. r.by = d /\ Len(asked[d]) < r.call
        BY <4>3, <4>4
      <4> QED BY <2>1, <2>4, <4>5 DEF Made, Request
    <3> QED BY <2>6, <3>3, <3>4 DEF TokensOK, Granted
  <2> QED BY <2>9, <2>10, <2>11
<1>7. ASSUME NEW r \in wire, Reject(r) \/ Lose(r)
      PROVE  TokensOK'
  <2>1. /\ asked' = asked /\ token' = token /\ passed' = passed /\ sent' = sent /\ at' = at
        /\ wire' \subseteq wire /\ lockedBy' = lockedBy
    BY <1>7 DEF Reject, Lose, clientvars
  <2>2. \A d \in Clients : answer'[d] = "ok" => answer[d] = "ok"
    BY <1>7 DEF Reject, Lose, Answered, Calls, SmartTypeOK, Request
  <2>3. \A d \in Clients : Aside(d)
    BY <2>1, <2>2 DEF Aside, Verb, Calls, SmartTypeOK
  <2> QED BY <1>3, <2>1, <2>3
<1>8. ASSUME BreakOrphan
      PROVE  TokensOK'
  <2>1. /\ asked' = asked /\ token' = token /\ passed' = passed /\ sent' = sent /\ at' = at
        /\ wire' = wire /\ answer' = answer
    BY <1>8 DEF BreakOrphan, clientvars
  <2>2. \A c \in Clients : token[c] = NoToken
    BY <1>8 DEF BreakOrphan, TokensOK, HoldsToken
  <2>3. \A c \in Clients : at[c] # "idle" => Verb(c) # "lock"
    BY <1>8 DEF BreakOrphan
  <2> QED BY <2>1, <2>2, <2>3 DEF TokensOK, HoldsToken, Unlocks, Locks, Granted, Forgotten, Verb, Reading
<1> QED
  BY <1>1, <1>2, <1>4, <1>5, <1>6, <1>7, <1>8 DEF SmartNext

(* A client that has just connected knows no version, has no lock and no calls. *)
LEMMA InitOK ==
  ASSUME SmartInit
  PROVE  Calls /\ TokensOK
<1>1. SmartTypeOK
  <2>1. newest \in Nat
    BY SmartAssumption DEF SmartInit
  <2>2. asked \in [Clients -> Seq(AskedCall)]
    <3>1. <<>> \in Seq(AskedCall)
      OBVIOUS
    <3> QED BY <3>1 DEF SmartInit
  <2> QED BY <2>1, <2>2 DEF SmartInit, SmartTypeOK, Answers
<1>2. Calls
  BY <1>1 DEF SmartInit, Calls
<1>3. TokensOK
  BY DEF SmartInit, TokensOK, HoldsToken, Unlocks, Locks, Granted, Reading
<1> QED BY <1>2, <1>3

(* Stuttering changes nothing.                                                 *)
LEMMA StutterOK ==
  ASSUME Calls, TokensOK, UNCHANGED smartvars
  PROVE  Calls' /\ TokensOK'
BY DEF smartvars, Calls, SmartTypeOK, Made, TokensOK, HoldsToken, Unlocks, Locks, Granted, Forgotten,
       Verb

(* Every state of clients, server and connections is well formed: in particular *)
(* a request on the wire always belongs to a call that was made.                *)
THEOREM SmartTypes == SmartSpec => []SmartTypeOK
<1>1. Calls /\ [SmartNext]_smartvars => Calls'
  <2>1. CASE UNCHANGED smartvars
    BY <2>1 DEF smartvars, Calls, SmartTypeOK, Made
  <2> QED BY <2>1, CallsStep
<1>2. Calls => SmartTypeOK
  BY DEF Calls
<1> QED
  BY <1>1, <1>2, InitOK, PTL DEF SmartSpec

(* lock_write and unlock of RemoteBranch, and the lock requests of the server:  *)
(* whatever is sent twice, carried out late or lost, the lock that a client     *)
(* believes to have is its own, for any number of clients and of resets.        *)
THEOREM LocksAreKept == SmartSpec => []LockIsKept
<1>1. Calls /\ TokensOK /\ [SmartNext]_smartvars => (Calls /\ TokensOK)'
  BY CallsStep, TokensStep, StutterOK
<1>2. TokensOK => LockIsKept
  BY DEF TokensOK, HoldsToken, LockIsKept
<1> QED
  BY <1>1, <1>2, InitOK, PTL DEF SmartSpec

-----------------------------------------------------------------------------
(* Repetition.  A request that must not be carried out twice is written again  *)
(* only when its predecessor is known not to have been carried out: the write  *)
(* failed, or the server rejected its version.                                 *)

Unsafe(verb) == Info[verb] \in {"mutate", "stream", "semivfs"}
\* Such a request waits alone, and its call has not been carried out.
Alone(r) ==
  Unsafe(r.verb) =>
    /\ asked[r.by][r.call].times = 0
    /\ \A q \in wire : q.by = r.by /\ q.call = r.call => q = r
\* No request of the last call of c can still be, or has been, carried out.
Nothing(c) ==
  /\ asked[c][Len(asked[c])].times = 0
  /\ \A r \in wire : ~(r.by = c /\ r.call = Len(asked[c]))
Again(c) ==
  /\ at[c] \in {"send", "resend"} /\ Unsafe(Verb(c)) => Nothing(c)
  /\ at[c] \in Reading /\ answer[c] = "version" /\ Unsafe(Verb(c)) => Nothing(c)
  /\ at[c] \in {"retry", "reread"} => ~Unsafe(Verb(c))
Told(c) ==
  at[c] \in Reading /\ answer[c] = "ok" => asked[c][Len(asked[c])].times >= 1
Once(c, n) ==
  /\ Unsafe(asked[c][n].verb) => asked[c][n].times <= 1
  /\ asked[c][n].outcome = "done" => asked[c][n].times >= 1
OnceOK ==
  /\ \A c \in Clients : Again(c) /\ Told(c)
  /\ \A c \in Clients : \A n \in 1 .. Len(asked[c]) : Once(c, n)
  /\ \A r \in wire : Alone(r)

\* What a step leaves alone that neither begins, writes nor carries out anything.
SameTimes ==
  \A c \in Clients, n \in Nat : n \in 1 .. Len(asked[c]) =>
    asked'[c][n].times = asked[c][n].times
Quiet(c) ==
  /\ at'[c] \in {"send", "resend"} =>
       at[c] \in {"send", "resend"} \/ (at[c] \in Reading /\ answer[c] = "version")
  /\ at'[c] \in {"retry", "reread"} =>
       at[c] \in {"retry", "reread"} \/ (at[c] \in Reading /\ SafeToSendTwice(Verb(c)))
  /\ at'[c] \in Reading => at[c] \in Reading /\ answer'[c] = answer[c]

(* _is_safe_to_send_twice lets no unsafe request through.                      *)
LEMMA SafeIsNotUnsafe ==
  ASSUME NEW verb, SafeToSendTwice(verb)
  PROVE  ~Unsafe(verb)
BY DEF SafeToSendTwice, Unsafe

(* Requests that wait stay alone when others leave the wire.                   *)
LEMMA AloneKept ==
  ASSUME Calls, OnceOK, SameCalls, SameTimes, wire' \subseteq wire
  PROVE  \A r \in wire' : Alone(r)'
<1> SUFFICES ASSUME NEW r \in wire, r \in wire', Unsafe(r.verb)
             PROVE  /\ asked'[r.by][r.call].times = 0
                    /\ \A q \in wire' : q.by = r.by /\ q.call = r.call => q = r
  BY DEF Alone, Unsafe
<1>1. r \in Request /\ Made(r) /\ Alone(r)
  BY DEF Calls, SmartTypeOK, OnceOK
<1> QED BY <1>1 DEF SameTimes, Alone, Made, Request

(* A call of which nothing was or can be carried out stays so.                 *)
LEMMA NothingKept ==
  ASSUME Calls, SameCalls, SameTimes, wire' \subseteq wire,
         NEW c \in Clients, at[c] # "idle", Nothing(c)
  PROVE  Nothing(c)'
<1>1. /\ Len(asked[c]) \in 1 .. Len(asked[c]) /\ Len(asked'[c]) = Len(asked[c])
      /\ Len(asked[c]) \in Nat
  BY CurrentCall, SameVerb DEF Calls, SmartTypeOK
<1> QED BY <1>1 DEF Nothing, SameTimes

(* Clients whose calls only go on or end keep the invariant.                   *)
LEMMA QuietKeeps ==
  ASSUME Calls, OnceOK, SameCalls, SameTimes, wire' \subseteq wire, NEW c \in Clients, Quiet(c),
         at'[c] \in {"idle"} \cup Writing \cup Reading
  PROVE  Again(c)' /\ Told(c)'
<1>1. Again(c) /\ Told(c)
  BY DEF OnceOK
<1>2. CASE at[c] = "idle"
  BY <1>2 DEF Quiet, Again, Told, Reading, Writing
<1>3. CASE at[c] # "idle"
  <2>1. Verb(c)' = Verb(c) /\ (Nothing(c) => Nothing(c)')
    BY <1>3, SameVerb, NothingKept
  <2>2. Len(asked[c]) \in 1 .. Len(asked[c]) /\ Len(asked'[c]) = Len(asked[c])
    BY <1>3, CurrentCall, SameVerb
  <2>3. asked'[c][Len(asked'[c])].times = asked[c][Len(asked[c])].times
    BY <2>2 DEF SameTimes
  <2>4. at'[c] \in {"send", "resend"} /\ Unsafe(Verb(c)') => Nothing(c)'
    BY <1>1, <2>1 DEF Quiet, Again
  <2>5. at'[c] \in Reading /\ answer'[c] = "version" /\ Unsafe(Verb(c)') => Nothing(c)'
    BY <1>1, <2>1 DEF Quiet, Again
  <2>6. at'[c] \in {"retry", "reread"} => ~Unsafe(Verb(c)')
    BY <1>1, <2>1, SafeIsNotUnsafe DEF Quiet, Again
  <2>7. Told(c)'
    BY <1>1, <2>3 DEF Quiet, Told
  <2> QED BY <2>4, <2>5, <2>6, <2>7 DEF Again, Unsafe
<1> QED BY <1>2, <1>3

(* No step has a request that must not be repeated carried out again.          *)
LEMMA OnceStep ==
  ASSUME Calls, OnceOK, SmartNext, Calls'
  PROVE  OnceOK'
<1> \A c \in Clients : at'[c] \in {"idle"} \cup Writing \cup Reading
  BY DEF Calls, SmartTypeOK
<1>1. ASSUME NEW c \in Clients, NEW verb \in Verbs, Begin(c, verb)
      PROVE  OnceOK'
  <2>1. OneMore(c, verb) /\ wire' = wire /\ at' = [at EXCEPT ![c] = "send"] /\ answer' = answer
    BY <1>1, BeginCalls DEF Begin
  <2>2. Len(asked[c]) \in Nat
    BY DEF Calls, SmartTypeOK
  <2>3. \A r \in wire : Made(r) /\ Alone(r) /\ r \in Request
    BY DEF Calls, SmartTypeOK, OnceOK
  <2>4. \A r \in wire' : Alone(r)'
    <3>1. \A d \in Clients : \A n \in 1 .. Len(asked[d]) : asked'[d][n] = asked[d][n]
      BY <2>1 DEF OneMore
    <3>2. \A r \in wire : asked'[r.by][r.call] = asked[r.by][r.call]
      BY <2>3, <3>1 DEF Made, Request
    <3> QED BY <2>1, <2>3, <3>2 DEF Alone, Unsafe
  <2>5. ASSUME NEW d \in Clients \ {c}
        PROVE  Again(d)' /\ Told(d)'
    <3>1. at'[d] = at[d] /\ answer'[d] = answer[d] /\ asked'[d] = asked[d] /\ Verb(d)' = Verb(d)
      BY <2>1 DEF OneMore, Calls, SmartTypeOK, Verb
    <3>2. Nothing(d) => Nothing(d)'
      BY <2>1, <3>1 DEF Nothing
    <3> QED BY <3>1, <3>2 DEF OnceOK, Again, Told, Unsafe
  <2>6. Nothing(c)'
    BY <2>1, <2>2, <2>3 DEF OneMore, Nothing, Made
  <2>7. Again(c)' /\ Told(c)'
    BY <2>1, <2>6 DEF Calls, SmartTypeOK, Again, Told, Reading
  <2>8. ASSUME NEW d \in Clients, NEW n \in 1 .. Len(asked'[d])
        PROVE  Once(d, n)'
    <3>1. CASE d = c /\ n = Len(asked[c]) + 1
      BY <2>1, <3>1 DEF OneMore, Once
    <3>2. CASE ~(d = c /\ n = Len(asked[c]) + 1)
      <4>1. n \in 1 .. Len(asked[d]) /\ asked'[d][n] = asked[d][n]
        BY <2>1, <2>2, <2>8, <3>2 DEF OneMore
      <4> QED BY <4>1 DEF OnceOK, Once, Unsafe
    <3> QED BY <3>1, <3>2
  <2> QED BY <2>4, <2>5, <2>7, <2>8 DEF OnceOK
<1>2. ASSUME SameCalls, SameTimes, wire' \subseteq wire, \A c \in Clients : Quiet(c),
             \A c \in Clients, n \in Nat : n \in 1 .. Len(asked[c]) /\ asked'[c][n].outcome = "done" =>
                 asked[c][n].outcome = "done" \/ asked[c][n].times >= 1
      PROVE  OnceOK'
  <2>1. \A c \in Clients : Again(c)' /\ Told(c)'
    BY <1>2, QuietKeeps
  <2>2. \A r \in wire' : Alone(r)'
    BY <1>2, AloneKept
  <2>3. ASSUME NEW c \in Clients, NEW n \in 1 .. Len(asked'[c])
        PROVE  Once(c, n)'
    <3>1. n \in Nat /\ n \in 1 .. Len(asked[c])
      BY <1>2, <2>3 DEF SameCalls
    <3> QED BY <1>2, <3>1 DEF SameCalls, SameTimes, OnceOK, Once, Unsafe
  <2> QED BY <2>1, <2>2, <2>3 DEF OnceOK
<1>3. ASSUME NEW c \in Clients, WriteFails(c) \/ ReadFails(c) \/ Read(c)
      PROVE  OnceOK'
  <2>1. at[c] # "idle" /\ wire' = wire
    BY <1>3 DEF WriteFails, ReadFails, Read, Reading, Writing
  <2>2. asked' = asked \/ Ends(c, "failed") \/ (Ends(c, "done") /\ Read(c) /\ answer[c] = "ok")
    BY <1>3 DEF WriteFails, ReadFails, Read, Calls, SmartTypeOK, Answers
  <2>3. Ends(c, "done") /\ Read(c) /\ answer[c] = "ok" => asked[c][Len(asked[c])].times >= 1
    BY DEF Read, Reading, OnceOK, Told
  <2>4. SameCalls /\ SameTimes
    BY <2>1, <2>2, EndsCalls, Unmarked DEF SameTimes
  <2>5. \A d \in Clients : Quiet(d)
    BY SMTT(40), <1>3 DEF WriteFails, ReadFails, Read, Ends, Quiet, Reading, Calls, SmartTypeOK
  <2>6. ASSUME NEW d \in Clients, NEW n \in Nat, n \in 1 .. Len(asked[d]),
               asked'[d][n].outcome = "done"
        PROVE  asked[d][n].outcome = "done" \/ asked[d][n].times >= 1
    BY <2>1, <2>2, <2>3, <2>6, EndsCalls
  <2> QED BY <1>2, <2>1, <2>4, <2>5, <2>6
<1>4. ASSUME NEW r \in wire, Lose(r)
      PROVE  OnceOK'
  <2>1. asked' = asked /\ at' = at /\ answer' = answer /\ wire' \subseteq wire
    BY <1>4 DEF Lose, clientvars
  <2> QED BY <1>2, <2>1, Unmarked DEF SameTimes, Quiet
<1>5. ASSUME BreakOrphan
      PROVE  OnceOK'
  <2>1. asked' = asked /\ at' = at /\ answer' = answer /\ wire' = wire
    BY <1>5 DEF BreakOrphan, clientvars
  <2> QED BY <1>2, <2>1, Unmarked DEF SameTimes, Quiet
<1>6. ASSUME NEW r \in wire, Reject(r)
      PROVE  OnceOK'
  <2>1. /\ asked' = asked /\ at' = at /\ wire' = wire \ {r}
        /\ \A d \in Clients : \/ answer'[d] = answer[d]
                              \/ d = r.by /\ Awaited(r) /\ answer'[d] = "version"
    BY <1>6 DEF Reject, Answered, clientvars, Calls, SmartTypeOK
  <2>2. r \in Request /\ Made(r) /\ Alone(r)
    BY DEF Calls, SmartTypeOK, OnceOK
  <2>3. SameCalls /\ SameTimes
    BY <2>1, Unmarked DEF SameTimes
  <2>4. \A q \in wire' : Alone(q)'
    BY <2>1, <2>3, AloneKept
  <2>5. \A d \in Clients, n \in Nat : n \in 1 .. Len(asked'[d]) => Once(d, n)'
    BY <2>1 DEF OnceOK, Once, Unsafe
  <2>6. ASSUME NEW d \in Clients
        PROVE  Again(d)' /\ Told(d)'
    <3>1. CASE answer'[d] = answer[d]
      BY <2>1, <2>3, <3>1, QuietKeeps DEF Quiet
    <3>2. CASE d = r.by /\ Awaited(r) /\ answer'[d] = "version"
      <4>1. r.call = Len(asked[d]) /\ Verb(d) = r.verb /\ Again(d) /\ at[d] \in Reading
        BY <2>2, <3>2 DEF Awaited, Made, Verb, OnceOK, Reading
      <4>2. Unsafe(Verb(d)) => Nothing(d)'
        BY <2>1, <2>2, <3>2, <4>1 DEF Alone, Nothing
      <4>3. Verb(d)' = Verb(d)
        BY <2>1 DEF Verb
      <4> QED BY <2>1, <3>2, <4>1, <4>2, <4>3 DEF Again, Told, Reading, Unsafe
    <3> QED BY <2>1, <3>1, <3>2
  <2> QED BY <2>4, <2>5, <2>6 DEF OnceOK
<1>7. ASSUME NEW c \in Clients, Write(c)
      PROVE  OnceOK'
  <2>1. /\ asked' = asked /\ at[c] \in Writing /\ answer' = [answer EXCEPT ![c] = Silence]
        /\ at' = [at EXCEPT ![c] = IF at[c] = "retry" THEN "reread" ELSE "read"]
    BY <1>7 DEF Write, Writing, Calls, SmartTypeOK
  <2>2. PICK q \in Request :
          wire' = wire \cup {q} /\ q.by = c /\ q.call = Len(asked[c]) /\ q.verb = Verb(c)
    <3> DEFINE new == [by |-> c, call |-> Len(asked[c]), try |-> sent'[c],
                       verb |-> Verb(c), token |-> passed[c], version |-> speaks[c]]
    <3>1. wire' = wire \cup {new}
      BY <1>7 DEF Write
    <3>2. new \in Request
      BY <3>1 DEF Calls, SmartTypeOK
    <3> QED BY <3>1, <3>2
  <2>3. Unsafe(Verb(c)) => Nothing(c)
    BY <2>1 DEF OnceOK, Again, Writing
  <2>4. ASSUME NEW r \in wire', Unsafe(r.verb)
        PROVE  /\ asked[r.by][r.call].times = 0
               /\ \A p \in wire' : p.by = r.by /\ p.call = r.call => p = r
    <3>1. CASE r = q
      BY <2>2, <2>3, <2>4, <3>1 DEF Nothing
    <3>2. CASE r # q
      <4>1. r \in wire /\ Alone(r) /\ Made(r)
        BY <2>2, <3>2 DEF OnceOK, Calls
      <4>2. ~(r.by = c /\ r.call = Len(asked[c]))
        BY <2>3, <2>4, <4>1 DEF Made, Verb, Nothing
      <4> QED BY <2>2, <2>4, <4>1, <4>2 DEF Alone
    <3> QED BY <3>1, <3>2
  <2>5. \A r \in wire' : Alone(r)'
    BY <2>1, <2>4 DEF Alone, Unsafe
  <2>6. \A d \in Clients, n \in Nat : n \in 1 .. Len(asked'[d]) => Once(d, n)'
    BY <2>1 DEF OnceOK, Once, Unsafe
  <2>7. Again(c)' /\ Told(c)'
    <3>1. answer'[c] = Silence /\ at'[c] = IF at[c] = "retry" THEN "reread" ELSE "read"
      BY <2>1 DEF Calls, SmartTypeOK
    <3>2. Again(c) /\ Verb(c)' = Verb(c)
      BY <2>1 DEF OnceOK, Verb
    <3> QED BY <3>1, <3>2 DEF Again, Told, Silence, Reading, Unsafe
  <2>8. ASSUME NEW d \in Clients \ {c}
        PROVE  Again(d)' /\ Told(d)'
    <3>1. at'[d] = at[d] /\ answer'[d] = answer[d] /\ Verb(d)' = Verb(d)
      BY <2>1 DEF Calls, SmartTypeOK, Verb
    <3>2. Nothing(d) => Nothing(d)'
      BY <2>1, <2>2 DEF Nothing
    <3> QED BY <2>1, <3>1, <3>2 DEF OnceOK, Again, Told, Unsafe
  <2> QED BY <2>5, <2>6, <2>7, <2>8 DEF OnceOK
<1>8. ASSUME NEW r \in wire, CarryOut(r)
      PROVE  OnceOK'
  <2>1. r \in Request /\ Made(r) /\ Alone(r)
    BY DEF Calls, SmartTypeOK, OnceOK
  <2>2. /\ wire' = wire \ {r} /\ at' = at
        /\ \A d \in Clients : \/ answer'[d] = answer[d]
                              \/ d = r.by /\ Awaited(r) /\ answer'[d] = Verdict(r)
    BY <1>8 DEF CarryOut, Answered, Calls, SmartTypeOK
  <2>3. CASE Verdict(r) = "error"
    <3>1. asked' = asked
      BY <1>8, <2>3 DEF CarryOut
    <3>2. \A d \in Clients : Again(d)' /\ Told(d)'
      BY <2>2, <2>3, <3>1 DEF OnceOK, Again, Told, Nothing, Verb, Unsafe
    <3>3. \A q \in wire' : Alone(q)'
      BY <2>2, <3>1 DEF OnceOK, Alone, Unsafe
    <3>4. \A d \in Clients, n \in Nat : n \in 1 .. Len(asked'[d]) => Once(d, n)'
      BY <3>1 DEF OnceOK, Once, Unsafe
    <3> QED BY <3>2, <3>3, <3>4 DEF OnceOK
  <2>4. CASE Verdict(r) # "error"
    <3>1. asked' = [asked EXCEPT ![r.by][r.call].times = @ + 1] /\ Verdict(r) = "ok"
      BY <1>8, <2>4 DEF CarryOut, Verdict
    <3>2. r.by \in Clients /\ r.call \in 1 .. Len(asked[r.by]) /\ r.verb = asked[r.by][r.call].verb
      BY <2>1 DEF Made, Request
    <3>3. /\ SameCalls
          /\ \A d \in Clients, n \in Nat : n \in 1 .. Len(asked[d]) =>
               /\ asked'[d][n].times = IF d = r.by /\ n = r.call THEN asked[d][n].times + 1
                                       ELSE asked[d][n].times
               /\ asked'[d][n].outcome = asked[d][n].outcome
      BY <3>1, <3>2, MarkCalls
    <3>4. \A d \in Clients, n \in Nat : n \in 1 .. Len(asked[d]) =>
            asked[d][n].times \in Nat /\ Once(d, n) /\ asked'[d][n].verb = asked[d][n].verb
      <4>1. \A d \in Clients : asked[d] \in Seq(AskedCall)
        BY DEF Calls, SmartTypeOK
      <4>2. \A d \in Clients, n \in Nat : n \in 1 .. Len(asked[d]) => asked[d][n] \in AskedCall
        BY <4>1
      <4> QED BY <3>3, <4>2 DEF AskedCall, SameCalls, OnceOK
    <3>5. ASSUME NEW d \in Clients, NEW n \in 1 .. Len(asked'[d])
          PROVE  Once(d, n)'
      <4>1. n \in Nat /\ n \in 1 .. Len(asked[d])
        BY <3>3, <3>5 DEF SameCalls
      <4>2. CASE d = r.by /\ n = r.call
        <5>1. asked'[d][n].times = asked[d][n].times + 1 /\ asked[d][n].times \in Nat
          BY <3>3, <3>4, <4>1, <4>2
        <5>2. Unsafe(asked[d][n].verb) => asked[d][n].times = 0
          BY <2>1, <3>2, <4>2 DEF Alone
        <5>3. asked'[d][n].verb = asked[d][n].verb
          BY <3>4, <4>1
        <5> QED BY <5>1, <5>2, <5>3 DEF Once, Unsafe
      <4>3. CASE ~(d = r.by /\ n = r.call)
        <5>1. /\ asked'[d][n].times = asked[d][n].times
              /\ asked'[d][n].outcome = asked[d][n].outcome
              /\ asked'[d][n].verb = asked[d][n].verb /\ Once(d, n)
          BY <3>3, <3>4, <4>1, <4>3
        <5> QED BY <5>1 DEF Once, Unsafe
      <4> QED BY <4>2, <4>3
    <3>6. ASSUME NEW q \in wire', Unsafe(q.verb)
          PROVE  /\ asked'[q.by][q.call].times = 0
                 /\ \A p \in wire' : p.by = q.by /\ p.call = q.call => p = q
      <4>1. q \in wire /\ q # r /\ Alone(q) /\ Made(q) /\ q \in Request
        BY <2>2, <3>6 DEF OnceOK, Calls, SmartTypeOK
      <4>2. ~(q.by = r.by /\ q.call = r.call)
        BY <3>6, <4>1 DEF Alone
      <4> QED BY <2>2, <3>3, <3>6, <4>1, <4>2 DEF Alone, Made, Request
    <3>7. ASSUME NEW d \in Clients, at[d] # "idle"
          PROVE  /\ Verb(d)' = Verb(d)
                 /\ Nothing(d) => Nothing(d)'
                 /\ asked'[d][Len(asked'[d])].times >= asked[d][Len(asked[d])].times
      <4>1. /\ Verb(d)' = Verb(d) /\ Len(asked'[d]) = Len(asked[d])
            /\ Len(asked[d]) \in 1 .. Len(asked[d]) /\ Len(asked[d]) \in Nat
        BY SMTT(40), <3>3, <3>7, SameVerb, CurrentCall DEF Calls, SmartTypeOK
      <4>2. asked'[d][Len(asked'[d])].times =
              IF d = r.by /\ Len(asked[d]) = r.call THEN asked[d][Len(asked[d])].times + 1
              ELSE asked[d][Len(asked[d])].times
        BY <3>3, <4>1
      <4>3. Nothing(d) => Nothing(d)'
        BY <2>2, <4>1, <4>2 DEF Nothing
      <4> QED BY <3>4, <4>1, <4>2, <4>3
    <3>8. ASSUME NEW d \in Clients
          PROVE  Again(d)' /\ Told(d)'
      <4>1. CASE at[d] = "idle"
        BY <2>2, <4>1 DEF Again, Told, Reading
      <4>2. CASE at[d] # "idle" /\ answer'[d] = answer[d]
        <5>1. Again(d)'
          BY <2>2, <3>7, <4>2 DEF OnceOK, Again, Unsafe
        <5>2. Told(d)'
          <6>1. asked'[d][Len(asked'[d])].times \in Nat /\ asked[d][Len(asked[d])].times \in Nat
            BY <3>3, <3>4, <4>2, CurrentCall, SameVerb
          <6>2. asked'[d][Len(asked'[d])].times >= asked[d][Len(asked[d])].times
            BY <3>7, <4>2
          <6>3. at'[d] = at[d] /\ answer'[d] = answer[d] /\ Told(d)
            BY <2>2, <4>2 DEF OnceOK
          <6> QED BY <6>1, <6>2, <6>3 DEF Told
        <5> QED BY <5>1, <5>2
      <4>3. CASE at[d] # "idle" /\ d = r.by /\ Awaited(r) /\ answer'[d] = "ok"
        <5>1. r.call = Len(asked[d]) /\ Len(asked'[d]) = Len(asked[d]) /\ at[d] \in Reading
          BY <3>3, <4>3 DEF SameCalls, Awaited, Reading
        <5>2. asked'[d][Len(asked'[d])].times >= 1
          BY <3>2, <3>3, <3>4, <4>3, <5>1
        <5>3. Again(d)'
          BY <2>2, <3>7, <4>3, <5>1 DEF OnceOK, Again, Unsafe, Reading
        <5> QED BY <5>2, <5>3 DEF Told
      <4> QED BY <2>2, <3>1, <4>1, <4>2, <4>3
    <3>9. \A q \in wire' : Alone(q)'
      BY <3>6 DEF Alone, Unsafe
    <3> QED BY <3>5, <3>8, <3>9 DEF OnceOK
  <2> QED BY <2>3, <2>4
<1> QED
  BY <1>1, <1>3, <1>4, <1>5, <1>6, <1>7, <1>8 DEF SmartNext

(* _SmartClientRequest._call: whatever connections are reset, a request that    *)
(* adds something or fails the second time is carried out at most once, and a   *)
(* call that reports success has been, for any verbs, clients and resets.       *)
THEOREM RequestsRepeatedSafely == SmartSpec => []RepeatedSafely
<1>1. SmartInit => OnceOK
  BY DEF SmartInit, OnceOK, Again, Told, Reading, Nothing, Silence
<1>2. Calls /\ OnceOK /\ [SmartNext]_smartvars => (Calls /\ OnceOK)'
  <2>1. CASE UNCHANGED smartvars
    BY <2>1 DEF smartvars, Calls, SmartTypeOK, Made, OnceOK, Again, Told, Once, Alone, Nothing,
       Verb, Unsafe
  <2> QED BY <2>1, CallsStep, OnceStep
<1>3. Calls /\ OnceOK => RepeatedSafely
  <2>1. Calls => \A c \in Clients : DOMAIN asked[c] = 1 .. Len(asked[c])
    BY DEF Calls, SmartTypeOK
  <2> QED BY <2>1 DEF OnceOK, Once, Unsafe, RepeatedSafely
<1> QED
  BY <1>1, <1>2, <1>3, InitOK, PTL DEF SmartSpec
=============================================================================
