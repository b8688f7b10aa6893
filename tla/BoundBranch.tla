---------------------------- MODULE BoundBranch ----------------------------
(***************************************************************************)
(* Branches bound to a master and the working trees that commit to them:   *)
(* bzrlib/commit.py, uncommit.py, BzrBranch and GenericInterBranch of      *)
(* bzrlib/branch.py and WorkingTree.update and pull of                     *)
(* bzrlib/workingtree.py.  A call locks its branch, then the master; it    *)
(* checks, and then makes its changes one after the other: revisions into  *)
(* a repository, the tip of the master, the tip of the branch, the parents *)
(* of the tree.  It may fail or be killed before any of them.              *)
(***************************************************************************)
EXTENDS Integers, Sequences, FiniteSets, SequencesExt

CONSTANTS
  Branches,   \* the branches, each with a repository of its own
  Master,     \* the one that others may be bound to; it is not bound itself
  Trees,      \* working trees, one user at each
  Layouts,    \* the ways in which trees may belong to branches
  MaxTips,    \* bound: revisions ever committed
  MaxCalls,   \* bound: calls ever made
  Failing,    \* the trees whose calls may fail or be killed half way
  Free, Stale \* a lock nobody has, and one that a dead process left

ASSUME BoundBranchAssumption ==
  /\ Master \in Branches /\ Layouts \subseteq [Trees -> Branches]
  /\ MaxTips \in Nat /\ MaxCalls \in Nat /\ Failing \subseteq Trees
  /\ Free \notin Trees /\ Stale \notin Trees /\ Free # Stale

VARIABLES
  home,     \* the branch of each tree; never changes
  parents,  \* the parents of each revision, a sequence; revision 0 is null:
  store,    \* the revisions in each branch's repository
  tip,      \* last_revision_info of each branch: [no, rev]
  bound,    \* whether the branch is bound to Master
  tree,     \* get_parent_ids of each working tree
  lock,     \* who has the write lock of each branch
  run,      \* what the user of each tree has under way
  calls,    \* the number of calls made so far
  local,    \* history: revisions made by commit --local that nobody threw away
  shared,   \* history: revisions committed while bound
  smooth    \* history: no call has failed half way so far

history == <<local, shared, smooth>>
bvars == <<home, parents, store, tip, bound, tree, lock, run, calls, local, shared, smooth>>

Revisions == 0 .. MaxTips
Null == 0
NullTip == [no |-> 0, rev |-> Null]

\* What is under way: the operation, its steps that are left, the branches it has
\* locked, the tip it sets, and the old tip of the branch or the parents of the tree.
NoCall == [op |-> "none", todo |-> <<>>, new |-> NullTip, old |-> Null, over |-> FALSE]

-----------------------------------------------------------------------------
(* The revision graph *)

\* A revision and all its ancestors, of the revisions there are.
AncestorsIn(par) ==
  LET Anc[r \in 0 .. Len(par)] ==
        IF r = Null THEN {} ELSE {r} \cup UNION {Anc[p] : p \in Range(par[r])}
  IN Anc
Ancestry(r) == AncestorsIn(parents)[r]
LeftParent(r) == IF parents[r] = <<>> THEN Null ELSE Head(parents[r])

\* Graph.heads of a set of revisions.
Heads(revs) == {r \in revs : \A s \in revs \ {r} : r \notin Ancestry(s)}

\* The first parent is always accepted, another one when it is a head and not there yet.
AcceptedParents(ids) ==
  LET Accepted[i \in 0 .. Len(ids)] ==
        IF i = 0 THEN <<>>
        ELSE IF i = 1 \/ ids[i] \in Heads(Range(ids)) \ ({Null} \cup Range(Accepted[i - 1]))
             THEN Append(Accepted[i - 1], ids[i])
             ELSE Accepted[i - 1]
  IN Accepted[Len(ids)]

Basis(t) == IF tree[t] = <<>> THEN Null ELSE Head(tree[t])
Merges(t) == IF tree[t] = <<>> THEN <<>> ELSE Tail(tree[t])

-----------------------------------------------------------------------------
BInit ==
  /\ home \in Layouts
  /\ parents = <<>> /\ store = [b \in Branches |-> {}]
  /\ tip = [b \in Branches |-> NullTip]
  /\ bound \in {f \in [Branches -> BOOLEAN] : ~f[Master]}
  /\ tree = [t \in Trees |-> <<>>]
  /\ lock = [b \in Branches |-> Free]
  /\ run = [t \in Trees |-> NoCall] /\ calls = 0
  /\ local = {} /\ shared = {} /\ smooth = TRUE

Idle(t) == run[t].op = "none"
MayLock(t, bs) == \A b \in bs : lock[b] \in {Free, t}
Unlocked(t) == [b \in Branches |-> IF lock[b] = t THEN Free ELSE lock[b]]

NextCall == calls < MaxCalls /\ calls' = calls + 1

\* A call locks some branches and has steps to do.
Call(t, op, bs, todo, new, old, over) ==
  /\ MayLock(t, bs) /\ NextCall
  /\ lock' = [b \in Branches |-> IF b \in bs THEN t ELSE lock[b]]
  /\ run' = [run EXCEPT ![t] = [op |-> op, todo |-> todo, new |-> new,
                                old |-> old, over |-> over]]

\* It goes on to its next step, or unlocks after the last one.
Next1(t, call) ==
  IF Len(call.todo) = 1
  THEN /\ run' = [run EXCEPT ![t] = NoCall] /\ lock' = Unlocked(t)
  ELSE /\ run' = [run EXCEPT ![t] = [call EXCEPT !.todo = Tail(@)]]
       /\ UNCHANGED lock
Done(t) == Next1(t, run[t])

\* An error ends it.
Stop(t) == run' = [run EXCEPT ![t] = NoCall] /\ lock' = Unlocked(t)

Doing(t, step) == run[t].todo # <<>> /\ Head(run[t].todo) = step

\* What changes a branch alone, or its master before it, with or without a tree.
Into(b) == << <<"tip", b>> >>
IntoMasterToo(b) == << <<"lock", Master>>, <<"tip", Master>>, <<"tip", b>> >>
IntoTree(b) == << <<"tip", b>>, <<"tree", b>> >>
IntoMasterAndTree(b) == << <<"lock", Master>>, <<"tip", Master>>, <<"tip", b>>, <<"tree", b>> >>

-----------------------------------------------------------------------------
(* Commit *)

\* A commit to a bound branch makes all its changes to the master first.
MutCommitSteps(b) ==
  << <<"lock", Master>>, <<"record", b>>, <<"tip", b>>, <<"tip", Master>>, <<"tree", b>> >>
CommitSteps(b) ==
  << <<"lock", Master>>, <<"record", b>>, <<"tip", Master>>, <<"tip", b>>, <<"tree", b>> >>

\* _check_out_of_date_tree: a branch without revisions takes any tree.
MutUpToDate(t, b) == TRUE
UpToDate(t, b) == tip[b].rev \in {Basis(t), Null}

\* The master is compared before it is locked (BoundBranchOutOfDate), the tree after.
CommitBound(t) ==
  /\ Idle(t) /\ Len(parents) < MaxTips
  /\ bound[home[t]] /\ tip[Master] = tip[home[t]]
  /\ Call(t, "commit", {home[t]}, CommitSteps(home[t]), NullTip, Null, FALSE)
  /\ UNCHANGED <<home, parents, store, tip, bound, tree, history>>

\* A branch of its own, or a bound one with --local.
CommitHere(t) ==
  /\ Idle(t) /\ Len(parents) < MaxTips
  /\ UpToDate(t, home[t])
  /\ Call(t, IF bound[home[t]] THEN "local" ELSE "commit", {home[t]},
          << <<"record", home[t]>>, <<"tip", home[t]>>, <<"tree", home[t]>> >>,
          [no |-> tip[home[t]].no + 1, rev |-> Null], Null, FALSE)
  /\ UNCHANGED <<home, parents, store, tip, bound, tree, history>>

\* The revision goes into the branch's repository, or the write group is aborted.
Record(t) ==
  /\ Doing(t, <<"record", home[t]>>)
  /\ IF Len(parents) = MaxTips
     THEN Stop(t) /\ UNCHANGED <<parents, store, local, shared>>
     ELSE LET new == Len(parents) + 1 IN
          /\ parents' = Append(parents, tree[t])
          /\ store' = [store EXCEPT ![home[t]] = @ \cup {new}]
          /\ local' = IF run[t].op = "local" THEN local \cup {new} ELSE local
          /\ shared' = IF Len(run[t].todo) = 4 THEN shared \cup {new} ELSE shared
          /\ Next1(t, [run[t] EXCEPT !.new.rev = new])
  /\ UNCHANGED <<home, calls, tip, bound, tree, smooth>>

-----------------------------------------------------------------------------
(* Uncommit: the tip goes back to its left parent, on the master first *)

Back(b) == [no |-> tip[b].no - 1, rev |-> LeftParent(tip[b].rev)]

\* An uncommit that empties the branch leaves a pending merge as the basis of the
\* tree, where the next pull or update drops it.
Dropped(t) ==
  {tip[home[t]].rev} \cup
  IF LeftParent(tip[home[t]].rev) # Null THEN {}
  ELSE UNION {Ancestry(r) : r \in Range(tree[t]) \cup Range(parents[tip[home[t]].rev])}

Uncommit(t) ==
  /\ Idle(t) /\ tip[home[t]].rev # Null
  /\ \/ Call(t, "uncommit", {home[t]}, IntoTree(home[t]),
             Back(home[t]), tip[home[t]].rev, FALSE)
     \/ /\ bound[home[t]]
        /\ Call(t, "uncommit", {home[t]}, IntoMasterAndTree(home[t]),
                Back(home[t]), tip[home[t]].rev, FALSE)
  /\ local' = local \ Dropped(t)
  /\ UNCHANGED <<home, parents, store, tip, bound, tree, shared, smooth>>

-----------------------------------------------------------------------------
(* Pull, push and update *)

\* What an overwrite may throw away is not local work that is to be kept.
Discard(b, over) == local' = IF over THEN local \ Ancestry(tip[b].rev) ELSE local

\* The source is locked for reading, which keeps nobody out: its tip is read once.
Pull(t, s, over, here) ==
  LET b == home[t] IN
  /\ Idle(t) /\ s # b /\ tip[s].rev # Null /\ (here => bound[b])
  /\ Call(t, "pull", {b},
          IF bound[b] /\ ~here /\ s # Master THEN IntoMasterAndTree(b) ELSE IntoTree(b),
          tip[s], tip[b].rev, over)
  /\ Discard(b, over)
  /\ UNCHANGED <<home, parents, store, tip, bound, tree, shared, smooth>>

\* Push to a branch without a tree.
Push(t, b, over) ==
  /\ Idle(t) /\ b \notin Range(home) /\ tip[home[t]].rev # Null
  /\ Call(t, "push", {b}, IF bound[b] THEN IntoMasterToo(b) ELSE Into(b),
          tip[home[t]], Null, over)
  /\ Discard(b, over)
  /\ UNCHANGED <<home, parents, store, tip, bound, tree, shared, smooth>>

\* An update first makes a bound branch a copy of its master, unless the master has
\* no revisions.  The old tip is kept if it would be lost.
Pivoted(b) == IF tip[b].rev \in Ancestry(tip[Master].rev) THEN Null ELSE tip[b].rev

UpdateBound(t) ==
  /\ Idle(t) /\ bound[home[t]]
  /\ IF tip[Master].rev = Null
     THEN Call(t, "update", {home[t]}, << <<"tree", home[t]>> >>, tip[home[t]], Null, FALSE)
     ELSE Call(t, "update", {home[t]}, IntoTree(home[t]), tip[Master], Pivoted(home[t]), TRUE)
  /\ UNCHANGED <<home, parents, store, tip, bound, tree, history>>

\* Only the tree is locked for writing.
UpdateTree(t) ==
  /\ Idle(t) /\ ~bound[home[t]]
  /\ Call(t, "update", {}, << <<"tree", home[t]>> >>, tip[home[t]], Null, FALSE)
  /\ UNCHANGED <<home, parents, store, tip, bound, tree, history>>

\* Bind and unbind compare nothing.
Rebind(t) ==
  /\ Idle(t) /\ home[t] # Master /\ MayLock(t, {home[t]}) /\ NextCall
  /\ bound' = [bound EXCEPT ![home[t]] = ~@]
  /\ UNCHANGED <<home, parents, store, tip, tree, lock, run, history>>

\* Merge fetches the other tip and makes it a pending merge.
Merge(t, s) ==
  LET b == home[t] IN
  /\ Idle(t) /\ MayLock(t, {b}) /\ s # b /\ Basis(t) # Null /\ NextCall
  /\ tip[s].rev \notin Ancestry(Basis(t))
  /\ Ancestry(tip[s].rev) \cap Ancestry(Basis(t)) # {}
  /\ store' = [store EXCEPT ![b] = @ \cup Ancestry(tip[s].rev)]
  /\ tree' = [tree EXCEPT ![t] = AcceptedParents(Append(@, tip[s].rev))]
  /\ UNCHANGED <<home, parents, tip, bound, lock, run, history>>

-----------------------------------------------------------------------------
(* The steps of a call *)

\* The master is locked.  A commit checks the tree against it, an uncommit the branch.
MasterAgrees(t) ==
  CASE run[t].op = "commit" -> UpToDate(t, Master)
    [] run[t].op = "uncommit" -> tip[Master].rev = tip[home[t]].rev
    [] OTHER -> TRUE

LockMaster(t) ==
  /\ Doing(t, <<"lock", Master>>) /\ MayLock(t, {Master})
  /\ IF MasterAgrees(t)
     THEN /\ lock' = [lock EXCEPT ![Master] = t]
          /\ run' = [run EXCEPT ![t].todo = Tail(@),
                                ![t].new.no = IF run[t].op = "commit"
                                              THEN tip[Master].no + 1 ELSE @]
     ELSE Stop(t)
  /\ UNCHANGED <<home, calls, parents, store, tip, bound, tree, history>>

\* It stays locked for longer than the timeout.
GiveUp(t) ==
  /\ Doing(t, <<"lock", Master>>) /\ ~MayLock(t, {Master})
  /\ Stop(t)
  /\ UNCHANGED <<home, calls, parents, store, tip, bound, tree, history>>

\* Whatever the repository lacks is fetched before a tip is set.  (An error between the
\* two leaves no more than revisions nobody refers to.)
MutFetch(b, r) == store' = [store EXCEPT ![b] = @ \cup ({r} \ {Null})]
Fetch(b, r) == store' = [store EXCEPT ![b] = @ \cup Ancestry(r)]

\* set_last_revision_info, by a commit, an uncommit or an update ...
Replace(b, new) == tip' = [tip EXCEPT ![b] = new] /\ Fetch(b, new.rev)

\* ... and in _update_revisions: the target has all that, or it is an ancestor, or the
\* branches have diverged.
Has(b, r) == r \in Ancestry(tip[b].rev) \cup {Null}
Extends(b, r) == tip[b].rev \in Ancestry(r) \cup {Null}

Asked(t) == run[t].over \/ run[t].op \notin {"pull", "push"}
Sets(t, b) ==
  IF Asked(t) THEN run[t].new.rev # Null \/ run[t].op = "uncommit"
  ELSE ~Has(b, run[t].new.rev) /\ Extends(b, run[t].new.rev)
Diverged(t, b) ==
  ~Asked(t) /\ ~Has(b, run[t].new.rev) /\ ~Extends(b, run[t].new.rev)

SetTip(t) ==
  /\ \E b \in Branches :
       /\ Doing(t, <<"tip", b>>)
       /\ \/ Sets(t, b) /\ Replace(b, run[t].new) /\ Done(t)
          \/ Diverged(t, b) /\ Fetch(b, run[t].new.rev) /\ Stop(t) /\ UNCHANGED tip
          \/ ~Sets(t, b) /\ ~Diverged(t, b) /\ Done(t) /\ UNCHANGED <<tip, store>>
  /\ UNCHANGED <<home, calls, parents, bound, tree, history>>

\* What a call leaves as the parents of its tree.
CommittedParents(t) == {<<run[t].new.rev>>}

UncommittedParents(t) ==
  {AcceptedParents((IF run[t].new.rev = Null THEN <<>> ELSE <<run[t].new.rev>>)
                   \o Reverse(Merges(t) \o (IF parents[run[t].old] = <<>> THEN <<>>
                                             ELSE Reverse(Tail(parents[run[t].old])))))}

PulledParents(t) ==
  {IF tip[home[t]].rev \in {run[t].old, Null} THEN tree[t]
   ELSE AcceptedParents(<<tip[home[t]].rev>> \o Merges(t))}

\* _update_tree: conflicts with the old tip end it early; a tree that has the new tip
\* as its basis is left alone; an empty branch is an error.
KeepOld(t) == IF run[t].old = Null THEN <<>> ELSE <<run[t].old>>
MutUpdatedParents(t) ==
  {IF run[t].new.rev \in {Basis(t), Null} THEN tree[t]
   ELSE AcceptedParents(AcceptedParents(<<run[t].new.rev>> \o Merges(t)))}
UpdatedParents(t) ==
  {IF run[t].new.rev \in {Basis(t), Null} THEN tree[t]
   ELSE AcceptedParents(AcceptedParents(<<run[t].new.rev>> \o Merges(t)) \o KeepOld(t))}
  \cup IF run[t].old \in {Null, Basis(t)} THEN {}
       ELSE {AcceptedParents(Append(tree[t], run[t].old))}

NewParents(t) ==
  CASE run[t].op \in {"commit", "local"} -> CommittedParents(t)
    [] run[t].op = "uncommit" -> UncommittedParents(t)
    [] run[t].op = "pull" -> PulledParents(t)
    [] run[t].op = "update" -> UpdatedParents(t)

SetTree(t) ==
  /\ Doing(t, <<"tree", home[t]>>)
  /\ \E ids \in NewParents(t) : tree' = [tree EXCEPT ![t] = ids]
  /\ Done(t)
  /\ UNCHANGED <<home, calls, parents, store, tip, bound, history>>

\* A step raises, or the process is killed and leaves its locks to be broken.
Fail(t) ==
  /\ t \in Failing /\ ~Idle(t)
  /\ run' = [run EXCEPT ![t] = NoCall] /\ smooth' = FALSE
  /\ \/ lock' = Unlocked(t)
     \/ lock' = [b \in Branches |-> IF lock[b] = t THEN Stale ELSE lock[b]]
  /\ UNCHANGED <<home, calls, parents, store, tip, bound, tree, local, shared>>

BreakLock(b) ==
  /\ lock[b] = Stale
  /\ lock' = [lock EXCEPT ![b] = Free]
  /\ UNCHANGED <<home, calls, parents, store, tip, bound, tree, run, history>>

Start(t) ==
  \/ CommitBound(t) \/ CommitHere(t) \/ Uncommit(t)
  \/ \E s \in Branches, over, here \in BOOLEAN : Pull(t, s, over, here)
  \/ \E b \in Branches, over \in BOOLEAN : Push(t, b, over)
  \/ UpdateBound(t) \/ UpdateTree(t) \/ Rebind(t)
  \/ \E s \in Branches : Merge(t, s)
Step(t) ==
  LockMaster(t) \/ GiveUp(t) \/ Record(t) \/ SetTip(t) \/ SetTree(t) \/ Fail(t)

\* All calls are made, have ended and have left no lock behind: nobody is stuck.
AllEnded ==
  /\ calls = MaxCalls /\ (\A t \in Trees : Idle(t)) /\ (\A b \in Branches : lock[b] = Free)
  /\ UNCHANGED bvars

BNext ==
  (\E t \in Trees : Start(t) \/ Step(t)) \/ (\E b \in Branches : BreakLock(b)) \/ AllEnded
BSpec == BInit /\ [][BNext]_bvars

-----------------------------------------------------------------------------
(* Properties *)

\* What a branch or tree refers to is in its repository, with all its ancestors,
\* whatever fails: revisions are fetched before a tip is set to them.
TipsArePresent ==
  /\ \A b \in Branches : Ancestry(tip[b].rev) \subseteq store[b]
  /\ \A t \in Trees : \A r \in Range(tree[t]) : Ancestry(r) \subseteq store[home[t]]

\* "'commit' to the master first so a timeout here causes the local branch to be out
\* of date" (commit.py): a bound branch never has a revision of a commit to its
\* master that the master's repository lacks.
MasterFirst ==
  \A b \in Branches : Ancestry(tip[b].rev) \cap shared \subseteq store[Master]

\* Whatever others do to the branches meanwhile, a commit builds on the tip that it
\* replaces, a pull or push without overwrite replaces an ancestor, and an uncommit
\* drops one revision and no other.  A bound branch follows its master.
MovesWell(b) ==
  tip'[b] # tip[b] =>
    \E t \in Trees :
      /\ Doing(t, <<"tip", b>>) /\ lock[b] = t
      /\ CASE run[t].op \in {"commit", "local"} ->
                \/ tip[b].rev \in {LeftParent(tip'[b].rev), Null}
                \/ bound[b] /\ tip'[b] = tip[Master]
           [] run[t].op \in {"pull", "push"} ->
                run[t].over \/ tip[b].rev \in Ancestry(tip'[b].rev) \cup {Null}
           [] run[t].op = "uncommit" -> tip'[b].rev = LeftParent(tip[b].rev)
           [] run[t].op = "update" -> b # Master
TipsAdvance == [][\A b \in Branches : MovesWell(b)]_bvars

\* Revisions made by commit --local, that no uncommit or overwrite dropped, are still
\* part of some branch or tree.
Kept(r) == \/ \E b \in Branches : r \in Ancestry(tip[b].rev)
           \/ \E t \in Trees : \E p \in Range(tree[t]) : r \in Ancestry(p)
           \/ \E t \in Trees : r \in Ancestry(run[t].old) \cup Ancestry(run[t].new.rev)
LocalWorkKept == \A r \in local : Kept(r)

\* They are, as long as no call fails and branches have no more than one tree: an
\* update pivots them out of the branch and into the tree as a pending merge.
OneTreeEach == \A t, u \in Trees : home[t] = home[u] => t = u
LocalWorkKeptApart == smooth /\ OneTreeEach => LocalWorkKept
=============================================================================
