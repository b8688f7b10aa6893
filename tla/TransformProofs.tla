-------------------------- MODULE TransformProofs --------------------------
(***************************************************************************)
(* Proofs about Transform: for every tree, every set of changes and every  *)
(* failure of a rename, nothing of the tree is deleted while it may still  *)
(* be needed, a rollback restores the tree, and a transform without        *)
(* conflicts leaves the disk and the inventory as it was planned.          *)
(***************************************************************************)
EXTENDS Transform, Induction

-----------------------------------------------------------------------------
(* The inductive invariant *)

Kinds == {"file", "directory"}
\* What names are made of.
Words == STRING \cup {"moved", "new"}
Paths == [up : Ids, name : Seq(Words)] \cup {NoPath}
Transforms ==
  [path : [Ids -> Paths], removed : SUBSET Old, created : [Ids -> Kinds \cup {None}],
   unversioned : SUBSET Ids, file : [Ids -> Ids \cup {None}]]
Dirs == Ids \X {"old", "new", "limbo", "pending-deletion", "gone"}
Places == [dir : Dirs, name : Seq(Words)]
TTypeOK ==
  /\ layout \in Layouts
  /\ tt \in Transforms
  /\ limbo \in [Ids -> Places] /\ disk \in [Inodes -> Places]
  /\ past \in Seq([inode : Inodes, from : Places])

\* What a transform never does, however it is put together.
TransformOK ==
  /\ tt.path[Root] = NoPath /\ tt.created[Root] = None
  /\ tt.file[Root] = None /\ Root \notin tt.unversioned
  /\ \A t \in Ids : PathChanged(tt, t) => tt.path[t].up \in Known(tt)
  /\ \A t \in Ids : tt.created[t] # None \/ tt.file[t] # None => t \in Known(tt)
  /\ \A t \in tt.removed :
       /\ tt.created[t] = "directory" => layout[t].kind # "directory"
       /\ tt.created[t] = None => t \in tt.unversioned
  /\ \A t, u \in Ids : tt.file[t] = tt.file[u] /\ tt.file[t] # None => t = u
  /\ \A t \in Old : tt.file[t] \in {t, None}
  /\ stage = "build" => \A t \in Old : tt.created[t] # None => t \in tt.removed

\* Conflicts are about entries, and stay what they are in the course of a pass.
ConflictOK(c) ==
  /\ c.t \in Known(tt) \ {Root}
  /\ c.type = "parent loop" => PathChanged(tt, c.t)
  /\ c.type = "duplicate" => c.u \in Known(tt) \ {Root}
ConflictsOK == stage = "resolve" => \A c \in todo : ConflictOK(c)

\* Where in limbo things are: no two at one place.
Inside(t) == [dir |-> NewContents(tt.path[t].up), name |-> tt.path[t].name]
LimboApart ==
  /\ limbo[Root] = Gone
  /\ \A t \in Ids :
       \/ limbo[t] \in {Gone, Limbo(t)}
       \/ /\ PathChanged(tt, t) /\ tt.created[tt.path[t].up] = "directory"
          /\ limbo[t] = Inside(t)
  /\ \A t, u \in Ids : limbo[t] = limbo[u] /\ limbo[t] # Gone => t = u

Planning == stage \in {"build", "resolve", "malformed", "error"}
PlanningOK ==
  Planning =>
    /\ past = <<>>
    /\ \A t \in Old : disk[OldContents(t)] = Original(t)
    /\ \A t \in Ids \ {Root} : disk[NewContents(t)] = limbo[t]
    /\ \A t \in Ids : limbo[t] = Gone <=> tt.created[t] = None

\* A transform that is applied has no conflicts: what that means.
Clean ==
  /\ \A t \in Old : tt.created[t] # None => t \in tt.removed
  /\ \A t \in Ids : tt.file[t] # None => FinalKind(tt, t) # None
  /\ \A t \in Ids : tt.file[t] \in Old /\ TreeFile(tt.file[t]) # None =>
       tt.file[t] \in tt.unversioned
  /\ \A t \in Known(tt) \ {Root} :
       /\ FinalKind(tt, t) # None => FinalKind(tt, Parent(tt, t)) = "directory"
       /\ FinalFile(tt, t) # None => FinalFile(tt, Parent(tt, t)) # None
  /\ \A t, u \in Known(tt) \ {Root} :
       Exists(tt, t) /\ Exists(tt, u) /\ FinalPath(tt, t) = FinalPath(tt, u) => t = u
  /\ \A S \in SUBSET (Known(tt) \ {Root}) : S # {} => \E t \in S : Parent(tt, t) \notin S
NoConflicts == stage \in {"remove", "insert", "inventory", "done"} => Clean

\* Entries that only change their place.
Moves(t) == t \in Old \ tt.removed /\ PathChanged(tt, t)
RemoveOK ==
  stage = "remove" =>
    /\ todo \subseteq Old /\ \A t \in todo : layout[t].up \in todo \cup {Root}
    /\ \A t \in Old :
         /\ t \in todo \/ (t \notin tt.removed /\ ~PathChanged(tt, t)) =>
              disk[OldContents(t)] = Original(t)
         /\ t \in tt.removed \ todo => disk[OldContents(t)] = Deletion(t)
    /\ \A t \in Ids : tt.created[t] # None \/ (Moves(t) /\ t \notin todo) =>
         limbo[t] # Gone /\ disk[Contents(t)] = limbo[t]
    /\ \A t \in Ids : limbo[t] # Gone => tt.created[t] # None \/ (Moves(t) /\ t \notin todo)
    /\ \A t \in Ids \ {Root} : tt.created[t] = None => disk[NewContents(t)] = Gone

\* What there will be, and where it goes.
Real == {t \in Known(tt) \ {Root} : FinalKind(tt, t) # None}
Placed(t) == [dir |-> Contents(Parent(tt, t)), name |-> FinalPath(tt, t).name]
InsertOK ==
  stage \in {"insert", "inventory", "done"} =>
    /\ stage = "insert" => todo \subseteq Real
    /\ \A t \in Real :
         disk[Contents(t)] = IF stage = "insert" /\ t \in todo THEN Limbo(t) ELSE Placed(t)
    /\ \A t \in tt.removed :
         disk[OldContents(t)] = IF stage = "insert" THEN Deletion(t) ELSE Gone
    /\ \A t \in Ids \ {Root} : tt.created[t] = None => disk[NewContents(t)] = Gone

\* The renames that were done, and how they lead back to the tree as it was.
Renamings(o) == {k \in 1 .. Len(past) : past[k].inode = OldContents(o)}
JournalOK ==
  stage \in {"remove", "insert", "rollback"} =>
    /\ \A k \in 1 .. Len(past), t \in Ids \ Old : past[k].inode # OldContents(t)
    /\ \A o \in Old :
         /\ Renamings(o) = {} => disk[OldContents(o)] = Original(o)
         /\ \A k \in Renamings(o) :
              /\ past[k].from # Gone
              /\ (\A j \in Renamings(o) : k <= j) => past[k].from = Original(o)
StillThere ==
  stage \notin {"inventory", "done", "broken"} => \A o \in Old : disk[OldContents(o)] # Gone
OnlyOld == \A t \in Ids \ Old : disk[OldContents(t)] = Gone

\* The inventory is that of the tree until the transform is done.
OldInventory ==
  [t \in {u \in Old : layout[u].file # None} |->
     [up |-> layout[t].up, name |-> layout[t].name, kind |-> layout[t].kind]]
Tells(ids) ==
  /\ inventory = [f \in {FinalFile(tt, t) : t \in ids} \ {None} |-> inventory[f]]
  /\ \A t \in ids : FinalFile(tt, t) # None => inventory[FinalFile(tt, t)] = Entry(t)
InventoryOK ==
  IF stage = "done" THEN Tells(Known(tt) \ {Root}) ELSE inventory = OldInventory

TransformInv ==
  /\ TTypeOK /\ TransformOK /\ ConflictsOK /\ LimboApart /\ PlanningOK /\ NoConflicts
  /\ RemoveOK /\ InsertOK /\ JournalOK /\ StillThere /\ OnlyOld /\ RollbackRestores
  /\ InventoryOK

-----------------------------------------------------------------------------
(* Finite sets *)

(* There are finitely many entries.                                           *)
LEMMA IdsFinite == IsFiniteSet(Ids) /\ Cardinality(Ids) \in Nat /\ Root \in Ids
<1>1. IsFiniteSet({Root}) /\ IsFiniteSet(Old) /\ IsFiniteSet(Fresh)
  BY TransformAssumption, FS_Singleton
<1>2. IsFiniteSet({Root} \cup Old)
  BY <1>1, FS_Union
<1>3. IsFiniteSet(Ids)
  BY <1>1, <1>2, FS_Union DEF Ids
<1> QED BY <1>3, FS_CardinalityType DEF Ids

(* Of any sets of entries, one has no other one within it.                    *)
LEMMA SmallestSet ==
  ASSUME NEW F, F \subseteq SUBSET Ids, F # {}
  PROVE  \E A \in F : \A B \in F : B \subseteq A => B = A
<1>1. F \subseteq FiniteSubsetsOf(Ids)
  BY IdsFinite, FS_FiniteSubsetsOfFinite
<1>2. PICK A \in F : \A B \in F : <<B, A>> \notin StrictSubsetOrdering(Ids)
  BY <1>1, FS_StrictSubsetOrderingWellFounded, WFMin
<1>3. ASSUME NEW B \in F, B \subseteq A PROVE B = A
  BY <1>2, <1>3 DEF StrictSubsetOrdering
<1> QED BY <1>3

(* Sets of entries cannot grow more often than there are entries.             *)
LEMMA ChainStops ==
  ASSUME NEW f, \A i \in 0 .. Cardinality(Ids) : f[i] \subseteq Ids, f[0] # {},
         \A i \in 0 .. Cardinality(Ids) - 1 : f[i] \subseteq f[i + 1]
  PROVE  \E i \in 0 .. Cardinality(Ids) - 1 : f[i + 1] = f[i]
<1> DEFINE N == Cardinality(Ids)
<1>0. N \in Nat /\ IsFiniteSet(Ids)
  BY IdsFinite
<1> HIDE DEF N
<1>a. /\ \A i \in 0 .. N : f[i] \subseteq Ids
      /\ \A i \in 0 .. N - 1 : f[i] \subseteq f[i + 1]
  BY DEF N
<1> SUFFICES ASSUME \A i \in 0 .. N - 1 : f[i + 1] # f[i] PROVE FALSE
  BY DEF N
<1> DEFINE S == {i \in Nat : i <= N => IsFiniteSet(f[i]) /\ Cardinality(f[i]) >= i + 1}
<1>b. \A i \in 0 .. N : IsFiniteSet(f[i]) /\ Cardinality(f[i]) \in Nat
  BY <1>0, <1>a, FS_Subset, FS_CardinalityType
<1>1. 0 \in S
  <2>1. Cardinality(f[0]) # 0
    BY <1>0, <1>b, FS_EmptySet
  <2> QED BY <1>0, <1>b, <2>1
<1>2. ASSUME NEW i \in Nat, i \in S PROVE i + 1 \in S
  <2> SUFFICES ASSUME i + 1 <= N PROVE IsFiniteSet(f[i + 1]) /\ Cardinality(f[i + 1]) >= i + 2
    OBVIOUS
  <2>0. i \in 0 .. N - 1 /\ i \in 0 .. N /\ i + 1 \in 0 .. N
    BY <1>0
  <2>1. f[i] \subseteq f[i + 1] /\ f[i] # f[i + 1]
    BY <1>a, <2>0
  <2>2. PICK x \in f[i + 1] : x \notin f[i]
    BY <2>1
  <2>3. Cardinality(f[i] \cup {x}) = Cardinality(f[i]) + 1
    BY <1>b, <2>0, <2>2, FS_AddElement
  <2>4. Cardinality(f[i] \cup {x}) <= Cardinality(f[i + 1])
    BY <1>b, <2>0, <2>1, <2>2, FS_Subset
  <2>5. Cardinality(f[i]) >= i + 1
    BY <1>2, <2>0
  <2> QED BY <1>b, <2>0, <2>3, <2>4, <2>5
<1> HIDE DEF S
<1>3. \A i \in Nat : i \in S
  BY <1>1, <1>2, NatSetInduction
<1>4. Cardinality(f[N]) >= N + 1
  BY <1>0, <1>3 DEF S
<1>5. Cardinality(f[N]) <= N
  <2>1. f[N] \subseteq Ids
    BY <1>0, <1>a
  <2> QED BY <1>0, <2>1, FS_Subset DEF N
<1>6. Cardinality(f[N]) \in Nat
  BY <1>0, <1>b
<1> QED BY <1>0, <1>4, <1>5, <1>6

-----------------------------------------------------------------------------
(* The way up from an entry *)

Upward(x) == \A u \in Ids : Parent(x, u) \in Ids \cup {None}
\* A step of the recursion in Above, and its solutions.
AboveBody(x, t, g, i) ==
  IF i = 0 THEN {Parent(x, t)} \ {None}
  ELSE g[i - 1] \cup ({Parent(x, u) : u \in g[i - 1]} \ {None})
Rises(x, t, n, g) == g = [i \in 0 .. n |-> AboveBody(x, t, g, i)]

(* The recursion in Above has a solution.                                     *)
LEMMA RisesExists ==
  ASSUME NEW x, NEW t, NEW N \in Nat
  PROVE  \E g : Rises(x, t, N, g)
<1> DEFINE S == {n \in Nat : \E g : Rises(x, t, n, g)}
<1>1. 0 \in S
  <2> DEFINE g == [i \in 0 .. 0 |-> {Parent(x, t)} \ {None}]
  <2>1. Rises(x, t, 0, g)
    BY DEF Rises, AboveBody
  <2> HIDE DEF g
  <2> QED BY <2>1
<1>2. ASSUME NEW n \in Nat, n \in S PROVE n + 1 \in S
  <2>1. PICK g : Rises(x, t, n, g)
    BY <1>2
  <2> DEFINE h == [i \in 0 .. n + 1 |-> IF i <= n THEN g[i] ELSE AboveBody(x, t, g, i)]
  <2>2. ASSUME NEW i \in 0 .. n + 1 PROVE h[i] = AboveBody(x, t, h, i)
    <3>1. h[i] = AboveBody(x, t, g, i)
      BY <2>1 DEF Rises
    <3>2. i # 0 => h[i - 1] = g[i - 1]
      OBVIOUS
    <3> HIDE DEF h
    <3> QED BY <3>1, <3>2 DEF AboveBody
  <2>3. Rises(x, t, n + 1, h)
    BY <2>2 DEF Rises
  <2> HIDE DEF h
  <2> QED BY <2>3
<1> HIDE DEF S
<1>3. \A n \in Nat : n \in S
  BY <1>1, <1>2, NatSetInduction
<1> QED BY <1>3 DEF S

\* Sets that the way up does not leave.
Closed(x, S) == \A u \in S : Parent(x, u) # None => Parent(x, u) \in S

(* What is above an entry is the least set that its parent is in and that the *)
(* way up does not leave.                                                     *)
LEMMA AboveFacts ==
  ASSUME NEW x, NEW t \in Ids, Upward(x)
  PROVE  /\ Above(x, t) \subseteq Ids
         /\ Parent(x, t) # None => Parent(x, t) \in Above(x, t)
         /\ Closed(x, Above(x, t))
         /\ \A S : Closed(x, S) /\ (Parent(x, t) # None => Parent(x, t) \in S) =>
              Above(x, t) \subseteq S
<1> DEFINE N == Cardinality(Ids)
           A == CHOOSE g : Rises(x, t, N, g)
<1>0. N \in Nat
  BY IdsFinite
<1>1. Above(x, t) = A[N]
  BY DEF Above, Rises, AboveBody
<1>2. Rises(x, t, N, A)
  BY <1>0, RisesExists
<1> HIDE DEF A, N
<1>3. \A i \in 0 .. N : A[i] = AboveBody(x, t, A, i)
  BY <1>2 DEF Rises
<1>4. A[0] = {Parent(x, t)} \ {None}
  <2>1. 0 \in 0 .. N
    BY <1>0
  <2> QED BY <1>3, <2>1 DEF AboveBody
<1>5. ASSUME NEW i \in 0 .. N - 1
      PROVE  A[i + 1] = A[i] \cup ({Parent(x, u) : u \in A[i]} \ {None})
  <2>1. i + 1 \in 0 .. N /\ i + 1 # 0 /\ (i + 1) - 1 = i
    BY <1>0
  <2> QED BY <1>3, <2>1 DEF AboveBody
<1>6. ASSUME NEW S, Closed(x, S), Parent(x, t) # None => Parent(x, t) \in S
      PROVE  \A i \in 0 .. N : A[i] \subseteq S
  <2> DEFINE T == {i \in Nat : i <= N => A[i] \subseteq S}
  <2>1. 0 \in T
    BY <1>4, <1>6
  <2>2. ASSUME NEW i \in Nat, i \in T PROVE i + 1 \in T
    <3> SUFFICES ASSUME i + 1 <= N PROVE A[i + 1] \subseteq S
      OBVIOUS
    <3>1. i \in 0 .. N - 1 /\ A[i] \subseteq S
      BY <1>0, <2>2
    <3> QED BY <1>5, <1>6, <3>1 DEF Closed
  <2> HIDE DEF T
  <2>3. \A i \in Nat : i \in T
    BY <2>1, <2>2, NatSetInduction
  <2> QED BY <1>0, <2>3 DEF T
<1>7. \A i \in 0 .. N : A[i] \subseteq Ids
  BY <1>6 DEF Closed, Upward
<1>8. Parent(x, t) # None => Parent(x, t) \in A[N]
  <2> SUFFICES ASSUME Parent(x, t) # None PROVE Parent(x, t) \in A[N]
    OBVIOUS
  <2> DEFINE T == {i \in Nat : i <= N => Parent(x, t) \in A[i]}
  <2>1. 0 \in T
    BY <1>4
  <2>2. ASSUME NEW i \in Nat, i \in T PROVE i + 1 \in T
    <3> SUFFICES ASSUME i + 1 <= N PROVE Parent(x, t) \in A[i + 1]
      OBVIOUS
    <3>1. i \in 0 .. N - 1 /\ Parent(x, t) \in A[i]
      BY <1>0, <2>2
    <3> QED BY <1>5, <3>1
  <2> HIDE DEF T
  <2>3. \A i \in Nat : i \in T
    BY <2>1, <2>2, NatSetInduction
  <2> QED BY <1>0, <2>3 DEF T
<1>9. Closed(x, A[N])
  <2>1. CASE A[0] = {}
    <3>1. Closed(x, {}) /\ Parent(x, t) = None
      BY <1>4, <2>1 DEF Closed
    <3>2. A[N] \subseteq {}
      BY <1>0, <1>6, <3>1
    <3> QED BY <3>2 DEF Closed
  <2>2. CASE A[0] # {}
    <3>1. \A i \in 0 .. N - 1 : A[i] \subseteq A[i + 1]
      BY <1>5
    <3>2. PICK i \in 0 .. N - 1 : A[i + 1] = A[i]
      BY <1>7, <2>2, <3>1, ChainStops DEF N
    <3>3. Closed(x, A[i])
      BY <1>5, <3>2 DEF Closed
    <3>4. Parent(x, t) # None => Parent(x, t) \in A[i]
      <4>1. 0 \in 0 .. N /\ i \in Nat
        BY <1>0
      <4> DEFINE T == {j \in Nat : j <= N => A[0] \subseteq A[j]}
      <4>2. 0 \in T
        OBVIOUS
      <4>3. ASSUME NEW j \in Nat, j \in T PROVE j + 1 \in T
        <5> SUFFICES ASSUME j + 1 <= N PROVE A[0] \subseteq A[j + 1]
          OBVIOUS
        <5>1. j \in 0 .. N - 1 /\ A[0] \subseteq A[j]
          BY <1>0, <4>3
        <5> QED BY <3>1, <5>1
      <4> HIDE DEF T
      <4>4. \A j \in Nat : j \in T
        BY <4>2, <4>3, NatSetInduction
      <4>5. A[0] \subseteq A[i]
        BY <1>0, <4>1, <4>4 DEF T
      <4> QED BY <1>4, <4>5
    <3>5. A[N] \subseteq A[i]
      BY <1>0, <1>6, <3>3, <3>4
    <3>6. A[i] \subseteq A[N]
      <4> DEFINE T == {k \in Nat : k >= i /\ k <= N => A[i] \subseteq A[k]}
      <4>1. 0 \in T
        OBVIOUS
      <4>2. ASSUME NEW k \in Nat, k \in T PROVE k + 1 \in T
        <5> SUFFICES ASSUME k + 1 >= i, k + 1 <= N PROVE A[i] \subseteq A[k + 1]
          OBVIOUS
        <5>1. CASE k + 1 = i
          BY <5>1
        <5>2. CASE k >= i
          <6>1. k \in 0 .. N - 1 /\ A[i] \subseteq A[k]
            BY <1>0, <4>2, <5>2
          <6> QED BY <3>1, <6>1
        <5> QED BY <1>0, <5>1, <5>2
      <4> HIDE DEF T
      <4>3. \A k \in Nat : k \in T
        BY <4>1, <4>2, NatSetInduction
      <4> QED BY <1>0, <4>3 DEF T
    <3>7. A[N] = A[i]
      BY <3>5, <3>6
    <3> QED BY <3>3, <3>7 DEF Closed
  <2> QED BY <2>1, <2>2
<1>10. N \in 0 .. N
  BY <1>0
<1> QED BY <1>1, <1>6, <1>7, <1>8, <1>9, <1>10

(* What is above an entry is its parent and what is above that.               *)
LEMMA AboveParent ==
  ASSUME NEW x, NEW t \in Ids, Upward(x)
  PROVE  /\ Parent(x, t) = None => Above(x, t) = {}
         /\ Parent(x, t) # None =>
              Above(x, t) \subseteq {Parent(x, t)} \cup Above(x, Parent(x, t))
<1>1. ASSUME Parent(x, t) = None PROVE Above(x, t) = {}
  <2>1. Closed(x, {})
    BY DEF Closed
  <2>2. Above(x, t) \subseteq {}
    BY <1>1, <2>1, AboveFacts
  <2> QED BY <2>2
<1>2. ASSUME Parent(x, t) # None
      PROVE  Above(x, t) \subseteq {Parent(x, t)} \cup Above(x, Parent(x, t))
  <2>1. Parent(x, t) \in Ids
    BY <1>2 DEF Upward
  <2>2. Closed(x, {Parent(x, t)} \cup Above(x, Parent(x, t)))
    BY <2>1, AboveFacts DEF Closed
  <2> QED BY <2>2, AboveFacts
<1> QED BY <1>1, <1>2

(* From what is above an entry, only what is above that too is above.         *)
LEMMA AboveAbove ==
  ASSUME NEW x, NEW t \in Ids, Upward(x), NEW u \in Above(x, t)
  PROVE  u \in Ids /\ Above(x, u) \subseteq Above(x, t)
<1>1. u \in Ids /\ (Parent(x, u) # None => Parent(x, u) \in Above(x, t))
  BY AboveFacts DEF Closed
<1> QED BY <1>1, AboveFacts

\* A set of entries that no way up leaves, not even for the root.
Trap(x, S) == S # {} /\ \A t \in S : Parent(x, t) \in S
Free(x, E) == \A S \in SUBSET E : ~Trap(x, S)

(* Where nothing is trapped, nothing is above itself.                         *)
LEMMA Acyclic ==
  ASSUME NEW x, Upward(x), NEW E, E \subseteq Ids, Free(x, E), NEW t \in E,
         \A u \in Above(x, t) : u \in E \/ Parent(x, u) = None
  PROVE  t \notin Above(x, t)
<1> SUFFICES ASSUME t \in Above(x, t) PROVE FALSE
  OBVIOUS
<1> DEFINE S == {v \in Above(x, t) : t \in Above(x, v)}
<1>1. t \in S
  OBVIOUS
<1>2. ASSUME NEW v \in S PROVE v \in E /\ Parent(x, v) \in S
  <2>1. v \in Ids /\ v \in Above(x, t) /\ t \in Above(x, v)
    BY AboveFacts
  <2>2. Parent(x, v) # None
    BY <2>1, AboveParent
  <2>3. Parent(x, v) \in Above(x, t) /\ v \in E
    BY <2>1, <2>2, AboveFacts DEF Closed
  <2>4. t = Parent(x, v) \/ t \in Above(x, Parent(x, v))
    BY <2>1, <2>2, AboveParent
  <2> QED BY <2>3, <2>4
<1>3. S \in SUBSET E /\ Trap(x, S)
  BY <1>1, <1>2 DEF Trap
<1> QED BY <1>3 DEF Free

(* Of any entries, where nothing is above itself, some is above no other one, *)
(* and some is below no other one.                                            *)
LEMMA SomeEnd ==
  ASSUME NEW x, Upward(x), NEW T, T \subseteq Ids, T # {},
         \A t \in T : t \notin Above(x, t)
  PROVE  /\ \E t \in T : \A u \in T : u \notin Above(x, t)
         /\ \E t \in T : \A u \in T : t \notin Above(x, u)
<1>1. \E t \in T : \A u \in T : u \notin Above(x, t)
  <2> DEFINE F == {Above(x, t) : t \in T}
  <2>1. F \subseteq SUBSET Ids /\ F # {}
    BY AboveFacts
  <2>2. PICK A \in F : \A B \in F : B \subseteq A => B = A
    <3> HIDE DEF F
    <3> QED BY <2>1, SmallestSet
  <2>3. PICK t \in T : A = Above(x, t)
    BY <2>2
  <2>4. ASSUME NEW u \in T, u \in Above(x, t) PROVE FALSE
    <3>1. Above(x, u) \subseteq A /\ Above(x, u) \in F
      BY <2>3, <2>4, AboveAbove
    <3>2. Above(x, u) = A
      BY <2>2, <3>1
    <3> QED BY <2>3, <2>4, <3>2
  <2> QED BY <2>3, <2>4
<1>2. \E t \in T : \A u \in T : t \notin Above(x, u)
  <2> DEFINE F == {Ids \ Above(x, t) : t \in T}
  <2>1. F \subseteq SUBSET Ids /\ F # {}
    OBVIOUS
  <2>2. PICK A \in F : \A B \in F : B \subseteq A => B = A
    <3> HIDE DEF F
    <3> QED BY <2>1, SmallestSet
  <2>3. PICK t \in T : A = Ids \ Above(x, t)
    BY <2>2
  <2>4. ASSUME NEW u \in T, t \in Above(x, u) PROVE FALSE
    <3>1. Above(x, t) \subseteq Above(x, u) /\ Above(x, u) \subseteq Ids
      BY <2>4, AboveAbove, AboveFacts
    <3>2. Ids \ Above(x, u) \in F /\ Ids \ Above(x, u) \subseteq A
      BY <2>3, <3>1
    <3>3. Ids \ Above(x, u) = A
      BY <2>2, <3>2
    <3> QED BY <2>3, <2>4, <3>1, <3>3
  <2> QED BY <2>3, <2>4
<1> QED BY <1>1, <1>2

-----------------------------------------------------------------------------
(* Walking down a path *)

WalkBody(d, path, g, i, u) ==
  IF u = Root THEN RootDir
  ELSE IF i = 0 \/ path[u].up = None THEN None
  ELSE LET dir == g[i - 1][path[u].up]
       IN IF dir = None THEN None ELSE At(d, [dir |-> dir, name |-> path[u].name])
Walks(d, path, n, g) == g = [i \in 0 .. n |-> [u \in Ids |-> WalkBody(d, path, g, i, u)]]

(* The recursion in Walk has a solution.                                      *)
LEMMA WalksExist ==
  ASSUME NEW d, NEW path, NEW N \in Nat
  PROVE  \E g : Walks(d, path, N, g)
<1> DEFINE S == {n \in Nat : \E g : Walks(d, path, n, g)}
<1>1. 0 \in S
  <2> DEFINE g == [i \in 0 .. 0 |-> [u \in Ids |-> IF u = Root THEN RootDir ELSE None]]
  <2>1. Walks(d, path, 0, g)
    BY DEF Walks, WalkBody
  <2> HIDE DEF g
  <2> QED BY <2>1
<1>2. ASSUME NEW n \in Nat, n \in S PROVE n + 1 \in S
  <2>1. PICK g : Walks(d, path, n, g)
    BY <1>2
  <2> DEFINE Row(i) == [u \in Ids |-> WalkBody(d, path, g, i, u)]
             h == [i \in 0 .. n + 1 |-> IF i <= n THEN g[i] ELSE Row(i)]
  <2>2. ASSUME NEW i \in 0 .. n + 1 PROVE h[i] = [u \in Ids |-> WalkBody(d, path, h, i, u)]
    <3>1. h[i] = Row(i)
      BY <2>1 DEF Walks
    <3>2. i # 0 => h[i - 1] = g[i - 1]
      OBVIOUS
    <3> HIDE DEF h
    <3>3. ASSUME NEW u \in Ids PROVE WalkBody(d, path, g, i, u) = WalkBody(d, path, h, i, u)
      BY <3>2 DEF WalkBody
    <3> QED BY <3>1, <3>3
  <2>3. Walks(d, path, n + 1, h)
    BY <2>2 DEF Walks
  <2> HIDE DEF h
  <2> QED BY <2>3
<1> HIDE DEF S
<1>3. \A n \in Nat : n \in S
  BY <1>1, <1>2, NatSetInduction
<1> QED BY <1>3 DEF S

\* Every entry of A is where its path says, on the way from others in A, and nothing
\* else is there; c[u] is the inode of u.
Findable(d, path, A, c) ==
  /\ A \subseteq Ids /\ Root \in A /\ c[Root] = RootDir
  /\ \A u \in A \ {Root} :
       /\ path[u].up \in A
       /\ c[u] \in Inodes /\ d[c[u]] = [dir |-> c[path[u].up], name |-> path[u].name]
       /\ \A j \in Inodes : d[j] = d[c[u]] => j = c[u]
  /\ \A S \in SUBSET (A \ {Root}) : S # {} => \E u \in S : path[u].up \notin S
  /\ None \notin A /\ \A u \in A : c[u] # None

(* Then a walk finds it.                                                      *)
LEMMA WalkFinds ==
  ASSUME NEW d, NEW path, NEW A, NEW c, Findable(d, path, A, c), NEW t \in A
  PROVE  Walk(d, path, t) = c[t]
<1> DEFINE N == Cardinality(Ids)
           W == CHOOSE g : Walks(d, path, N, g)
           V(i) == {u \in A : \A j \in i .. N : W[j][u] = c[u]}
<1>0. N \in Nat
  BY IdsFinite
<1>1. Walk(d, path, t) = W[N][t]
  BY DEF Walk, Walks, WalkBody
<1>2. Walks(d, path, N, W)
  BY <1>0, WalksExist
<1> HIDE DEF W, N
<1>3. \A i \in 0 .. N : W[i] = [u \in Ids |-> WalkBody(d, path, W, i, u)]
  BY <1>2 DEF Walks
<1>a. A \subseteq Ids /\ Root \in A /\ c[Root] = RootDir
  BY DEF Findable
<1>4. \A i \in 0 .. N : \A u \in A : W[i][u] = WalkBody(d, path, W, i, u)
  <2>1. ASSUME NEW i \in 0 .. N, NEW u \in A PROVE W[i][u] = WalkBody(d, path, W, i, u)
    <3>1. u \in Ids /\ W[i] = [v \in Ids |-> WalkBody(d, path, W, i, v)]
      BY <1>3, <1>a
    <3> QED BY <3>1, Zenon
  <2> QED BY <2>1
<1>5. ASSUME NEW i \in 0 .. N PROVE Root \in V(i)
  <2>1. \A j \in i .. N : j \in 0 .. N
    BY <1>0, <1>5
  <2>2. \A j \in 0 .. N : W[j][Root] = c[Root]
    BY <1>4, <1>a DEF WalkBody
  <2> QED BY <1>a, <2>1, <2>2
<1>6. ASSUME NEW i \in 0 .. N - 1 PROVE V(i) \subseteq V(i + 1)
  BY <1>0, <1>6
<1>7. ASSUME NEW i \in 0 .. N - 1, NEW u \in A \ {Root}, path[u].up \in V(i)
      PROVE  u \in V(i + 1)
  <2> SUFFICES ASSUME NEW j \in i + 1 .. N PROVE W[j][u] = c[u]
    OBVIOUS
  <2>1. j \in 0 .. N /\ j # 0 /\ j - 1 \in i .. N
    BY <1>0
  <2>2. W[j - 1][path[u].up] = c[path[u].up]
    BY <1>7, <2>1
  <2>3. path[u].up # None /\ c[path[u].up] # None
    <3>1. path[u].up \in A
      BY DEF Findable
    <3> QED BY <3>1 DEF Findable
  <2>4. W[j][u] = At(d, [dir |-> c[path[u].up], name |-> path[u].name])
    <3>1. W[j][u] = WalkBody(d, path, W, j, u)
      BY <1>4, <2>1
    <3> QED BY <2>1, <2>2, <2>3, <3>1 DEF WalkBody
  <2>5. c[u] \in Inodes /\ d[c[u]] = [dir |-> c[path[u].up], name |-> path[u].name]
        /\ \A k \in Inodes : d[k] = d[c[u]] => k = c[u]
    BY DEF Findable
  <2> QED BY <2>4, <2>5 DEF At
<1>8. PICK i \in 0 .. N - 1 : V(i + 1) = V(i)
  <2> DEFINE f == [k \in 0 .. N |-> V(k)]
  <2>1. f[0] # {}
    BY <1>0, <1>5
  <2>2. \A k \in 0 .. N : f[k] \subseteq Ids
    BY DEF Findable
  <2>3. \A k \in 0 .. N - 1 : f[k] = V(k) /\ f[k + 1] = V(k + 1)
    BY <1>0
  <2> HIDE DEF f
  <2>4. \A k \in 0 .. N - 1 : f[k] \subseteq f[k + 1]
    BY <1>6, <2>3
  <2>5. \E k \in 0 .. N - 1 : f[k + 1] = f[k]
    BY <2>1, <2>2, <2>4, ChainStops DEF N
  <2> QED BY <2>3, <2>5
<1>9. A \ V(i) = {}
  <2> SUFFICES ASSUME A \ V(i) # {} PROVE FALSE
    OBVIOUS
  <2>0. i \in 0 .. N
    BY <1>0
  <2>1. A \ V(i) \in SUBSET (A \ {Root})
    BY <1>5, <2>0
  <2>2. PICK u \in A \ V(i) : path[u].up \notin A \ V(i)
    BY <2>1 DEF Findable
  <2>3. u \in A \ {Root} /\ path[u].up \in V(i)
    BY <2>1, <2>2 DEF Findable
  <2>4. u \in V(i)
    BY <1>7, <1>8, <2>3
  <2> QED BY <2>2, <2>4
<1>10. t \in V(i) /\ N \in i .. N
  BY <1>0, <1>9
<1> QED BY <1>1, <1>10

-----------------------------------------------------------------------------
(* Inodes and places *)

(* The contents of entries are inodes, and there are no others.               *)
LEMMA InodeFacts ==
  /\ \A t \in Ids : OldContents(t) \in Inodes /\ OldContents(t) \in Dirs
  /\ \A t \in Ids \ {Root} : NewContents(t) \in Inodes
  /\ \A t \in Ids : NewContents(t) \in Dirs
  /\ \A i \in Inodes : \/ \E t \in Ids : i = OldContents(t)
                       \/ \E t \in Ids \ {Root} : i = NewContents(t)
  /\ \A t, u : OldContents(t) = OldContents(u) => t = u
  /\ \A t, u : NewContents(t) = NewContents(u) => t = u
  /\ \A t, u : OldContents(t) # NewContents(u)
  /\ \A t : /\ OldContents(t)[1] = t /\ OldContents(t)[2] = "old"
            /\ NewContents(t)[1] = t /\ NewContents(t)[2] = "new"
  /\ RootDir = OldContents(Root)
<1> Old \subseteq Nat \ {Root} /\ Fresh \subseteq Nat \ {Root}
  BY TransformAssumption
<1> USE DEF OldContents, NewContents, Inodes, Ids, Dirs, RootDir, Root
<1>1. \A t \in Ids : OldContents(t) \in Inodes /\ OldContents(t) \in Dirs
  OBVIOUS
<1>2. \A t \in Ids \ {Root} : NewContents(t) \in Inodes
  OBVIOUS
<1>3. \A t \in Ids : NewContents(t) \in Dirs
  OBVIOUS
<1>4. ASSUME NEW i \in Inodes
      PROVE  \/ \E t \in Ids : i = OldContents(t)
             \/ \E t \in Ids \ {Root} : i = NewContents(t)
  <2>1. CASE i \in Ids \X {"old"}
    <3>1. i[1] \in Ids /\ i = OldContents(i[1])
      BY <2>1
    <3> QED BY <3>1
  <2>2. CASE i \in (Fresh \cup Old) \X {"new"}
    <3>1. i[1] \in Ids \ {Root} /\ i = NewContents(i[1])
      BY <2>2
    <3> QED BY <3>1
  <2> QED BY <2>1, <2>2
<1> QED BY <1>1, <1>2, <1>3, <1>4

(* Limbo, pending-deletion and the place of what is gone are apart from each  *)
(* other and from the insides of directories.                                 *)
LEMMA PlaceFacts ==
  /\ \A t \in Ids : Limbo(t) \in Places /\ Deletion(t) \in Places
  /\ Gone \in Places
  /\ \A t \in Ids, n \in Seq(Words) :
       /\ [dir |-> OldContents(t), name |-> n] \in Places
       /\ [dir |-> NewContents(t), name |-> n] \in Places
  /\ \A t, u : Limbo(t) = Limbo(u) => t = u
  /\ \A t, u : Deletion(t) = Deletion(u) => t = u
  /\ \A t, u : Limbo(t) # Deletion(u) /\ Limbo(t) # Gone /\ Deletion(t) # Gone
  /\ \A t, u, n : /\ [dir |-> OldContents(t), name |-> n] \notin {Limbo(u), Deletion(u), Gone}
                  /\ [dir |-> NewContents(t), name |-> n] \notin {Limbo(u), Deletion(u), Gone}
                  /\ Limbo(u) # [dir |-> OldContents(t), name |-> n]
                  /\ Limbo(u) # [dir |-> NewContents(t), name |-> n]
                  /\ Deletion(u) # [dir |-> OldContents(t), name |-> n]
                  /\ Deletion(u) # [dir |-> NewContents(t), name |-> n]
  /\ \A t : Deletion(t).dir[2] = "pending-deletion" /\ Limbo(t).dir[2] = "limbo"
  /\ Gone.dir[2] = "gone"
<1> USE DEF OldContents, NewContents, Limbo, Deletion, Gone, Places, Dirs
<1>0. Root \in Ids /\ <<>> \in Seq(Words)
  BY DEF Ids
<1>1. \A t \in Ids : Limbo(t) \in Places /\ Deletion(t) \in Places
  BY <1>0
<1>2. Gone \in Places
  BY <1>0
<1>3. \A t \in Ids, n \in Seq(Words) :
        /\ [dir |-> OldContents(t), name |-> n] \in Places
        /\ [dir |-> NewContents(t), name |-> n] \in Places
  OBVIOUS
<1>4. /\ \A t, u : Limbo(t) = Limbo(u) => t = u
      /\ \A t, u : Deletion(t) = Deletion(u) => t = u
      /\ \A t, u : Limbo(t) # Deletion(u) /\ Limbo(t) # Gone /\ Deletion(t) # Gone
  <2>1. /\ \A t : Limbo(t).dir = <<t, "limbo">> /\ Deletion(t).dir = <<t, "pending-deletion">>
        /\ Gone.dir = <<Root, "gone">>
    OBVIOUS
  <2> HIDE DEF Limbo, Deletion, Gone
  <2> QED BY <2>1
<1>5. ASSUME NEW t, NEW u, NEW n
      PROVE  /\ [dir |-> OldContents(t), name |-> n] \notin {Limbo(u), Deletion(u), Gone}
             /\ [dir |-> NewContents(t), name |-> n] \notin {Limbo(u), Deletion(u), Gone}
  OBVIOUS
<1>6. /\ \A t : Deletion(t).dir[2] = "pending-deletion" /\ Limbo(t).dir[2] = "limbo"
      /\ Gone.dir[2] = "gone"
  OBVIOUS
<1> QED BY <1>1, <1>2, <1>3, <1>4, <1>5, <1>6

-----------------------------------------------------------------------------
(* Trees and transforms *)

(* What is a sequence over a set is one over a larger set.                    *)
LEMMA SeqOfMore ==
  ASSUME NEW A, NEW C, A \subseteq C, NEW n \in Seq(A)
  PROVE  n \in Seq(C)
<1> DEFINE k == Len(n)
<1>1. k \in Nat /\ n = [i \in 1 .. k |-> n[i]] /\ \A i \in 1 .. k : n[i] \in A
  OBVIOUS
<1>2. \A i \in 1 .. k : n[i] \in C
  BY <1>1
<1> HIDE DEF k
<1>3. [i \in 1 .. k |-> n[i]] \in Seq(C)
  BY <1>1, <1>2
<1> QED BY <1>1, <1>3

(* Names are made of words, those that are given and those that are made.     *)
LEMMA NameFacts ==
  /\ \A n \in Seq(STRING) : n \in Seq(Words)
  /\ \A n \in Seq(Words) : Append(n, "moved") \in Seq(Words) /\ Append(n, "new") \in Seq(Words)
<1>1. STRING \subseteq Words /\ "moved" \in Words /\ "new" \in Words
  BY DEF Words
<1>2. \A n \in Seq(STRING) : n \in Seq(Words)
  BY <1>1, SeqOfMore
<1>3. ASSUME NEW n \in Seq(Words)
      PROVE  Append(n, "moved") \in Seq(Words) /\ Append(n, "new") \in Seq(Words)
  BY <1>1
<1> QED BY <1>2, <1>3

(* What is known of a tree.                                                   *)
LEMMA LayoutFacts ==
  ASSUME layout \in Layouts
  PROVE  /\ \A t \in Old :
              /\ t \in Ids /\ t # Root
              /\ layout[t].up \in {Root} \cup Old /\ layout[t].up \in Ids
              /\ layout[t].up # None
              /\ layout[t].name \in Seq(Words)
              /\ layout[t].kind \in {"file", "directory"}
              /\ layout[t].file \in {t, None}
              /\ layout[t].up \in Old => layout[layout[t].up].kind = "directory"
              /\ \A u \in Old :
                   layout[t].up = layout[u].up /\ layout[t].name = layout[u].name => t = u
         /\ \A S \in SUBSET Old : S # {} => \E t \in S : layout[t].up \notin S
         /\ Root \in Ids /\ Root \notin Old /\ Root \notin Fresh /\ None \notin Ids
         /\ Old \cap Fresh = {} /\ Ids = {Root} \cup Old \cup Fresh
         /\ None \notin {"file", "directory"}
<1>1. Root \notin Old /\ Root \notin Fresh /\ None \notin Ids /\ None \notin {"file", "directory"}
  BY TransformAssumption
<1>2. Old \cap Fresh = {}
  <2>1. ASSUME NEW t \in Old, t \in Fresh PROVE FALSE
    BY <2>1, TransformAssumption
  <2> QED BY <2>1
<1>3. Ids = {Root} \cup Old \cup Fresh
  BY DEF Ids
<1>4. ASSUME NEW t \in Old
      PROVE  /\ t \in Ids /\ t # Root
             /\ layout[t].up \in {Root} \cup Old /\ layout[t].up \in Ids
             /\ layout[t].up # None
             /\ layout[t].name \in Seq(Words)
             /\ layout[t].kind \in {"file", "directory"}
             /\ layout[t].file \in {t, None}
             /\ layout[t].up \in Old => layout[layout[t].up].kind = "directory"
             /\ \A u \in Old :
                  layout[t].up = layout[u].up /\ layout[t].name = layout[u].name => t = u
  <2>1. layout[t].name \in Seq(Words)
    BY LayoutAssumption, NameFacts
  <2> QED BY <1>1, <1>3, <2>1, LayoutAssumption
<1>5. \A S \in SUBSET Old : S # {} => \E t \in S : layout[t].up \notin S
  BY LayoutAssumption
<1> QED BY <1>1, <1>2, <1>3, <1>4, <1>5

(* An entry has the path it was given, or else that it had in the tree.       *)
LEMMA PathFacts ==
  ASSUME layout \in Layouts, NEW x, x \in Transforms
  PROVE  /\ NoPath.up = None /\ \A p \in [up : Ids, name : Seq(Words)] : p # NoPath
         /\ \A t \in Ids : PathChanged(x, t) => /\ x.path[t].up \in Ids
                                                /\ x.path[t].name \in Seq(Words)
                                                /\ FinalPath(x, t) = x.path[t]
         /\ \A t \in Old : /\ FinalPath(x, t).up \in Ids /\ t \in Known(x)
                           /\ ~PathChanged(x, t) =>
                                FinalPath(x, t) = [up |-> layout[t].up, name |-> layout[t].name]
         /\ \A t \in Fresh \cup {Root} : ~PathChanged(x, t) => FinalPath(x, t) = NoPath
         /\ \A t \in Known(x) \ {Root} : /\ FinalPath(x, t).up \in Ids
                                         /\ FinalPath(x, t).name \in Seq(Words)
                                         /\ FinalPath(x, t) # NoPath
                                         /\ t \in Old \/ PathChanged(x, t)
         /\ Known(x) \subseteq Ids /\ Root \in Known(x)
         /\ \A t \in Ids : PathChanged(x, t) => t \in Known(x)
         /\ Upward(x)
<1> USE LayoutFacts
<1>1. NoPath.up = None /\ \A p \in [up : Ids, name : Seq(Words)] : p # NoPath
  BY DEF NoPath
<1>2. \A t \in Ids : PathChanged(x, t) => x.path[t] \in [up : Ids, name : Seq(Words)]
  BY DEF Transforms, Paths, PathChanged
<1>3. \A t \in Ids : PathChanged(x, t) => /\ x.path[t].up \in Ids
                                          /\ x.path[t].name \in Seq(Words)
                                          /\ FinalPath(x, t) = x.path[t]
  BY <1>2 DEF FinalPath
<1>4. \A t \in Old : ~PathChanged(x, t) =>
        FinalPath(x, t) = [up |-> layout[t].up, name |-> layout[t].name]
  BY DEF FinalPath, TreePath
<1>5. \A t \in Fresh \cup {Root} : ~PathChanged(x, t) => FinalPath(x, t) = NoPath
  BY DEF FinalPath, TreePath
<1>6. \A t \in Old : FinalPath(x, t).up \in Ids /\ FinalPath(x, t).name \in Seq(Words)
  BY <1>3, <1>4
<1>7. \A t \in Old : t \in Known(x)
  BY <1>1, <1>6 DEF Known
<1>8. Known(x) \subseteq Ids /\ Root \in Known(x)
  BY DEF Known
<1>9. \A t \in Known(x) \ {Root} : t \in Old \/ PathChanged(x, t)
  BY <1>5 DEF Known
<1>10. \A t \in Ids : PathChanged(x, t) => t \in Known(x)
  BY <1>3 DEF Known, PathChanged
<1>11. Upward(x)
  BY <1>1, <1>3, <1>5, <1>6 DEF Upward, Parent
<1>12. \A t \in Known(x) \ {Root} : /\ FinalPath(x, t).up \in Ids
                                    /\ FinalPath(x, t).name \in Seq(Words)
                                    /\ FinalPath(x, t) # NoPath
  BY <1>1, <1>3, <1>6, <1>8, <1>9
<1> QED BY <1>1, <1>3, <1>4, <1>5, <1>6, <1>7, <1>8, <1>9, <1>10, <1>11, <1>12

-----------------------------------------------------------------------------
(* Limbo *)

(* New contents go to a place in limbo of their own, or to a free place in    *)
(* the directory that they will be in.                                        *)
LEMMA LimboPlaceFacts ==
  ASSUME layout \in Layouts, NEW x, x \in Transforms, NEW w, NEW t \in Ids
  PROVE  /\ LimboPlace(x, w, t) \in Places /\ LimboPlace(x, w, t) # Gone
         /\ \/ LimboPlace(x, w, t) = Limbo(t)
            \/ /\ PathChanged(x, t) /\ x.created[x.path[t].up] = "directory"
               /\ LimboPlace(x, w, t) = [dir |-> NewContents(x.path[t].up), name |-> x.path[t].name]
               /\ \A u \in Ids \ {t} : w[u] # LimboPlace(x, w, t)
<1> DEFINE inside == [dir |-> NewContents(x.path[t].up), name |-> x.path[t].name]
           fits == PathChanged(x, t) /\ x.created[x.path[t].up] = "directory"
                   /\ \A u \in Ids \ {t} : w[u] # inside
<1>1. LimboPlace(x, w, t) = IF fits THEN inside ELSE Limbo(t)
  BY DEF LimboPlace
<1>2. PathChanged(x, t) => x.path[t].up \in Ids /\ x.path[t].name \in Seq(Words)
  BY PathFacts
<1>3. CASE fits
  <2>1. LimboPlace(x, w, t) = inside
    BY <1>1, <1>3
  <2>2. inside \in Places /\ inside # Gone
    BY <1>2, <1>3, PlaceFacts
  <2> HIDE DEF inside
  <2>3. \A u \in Ids \ {t} : w[u] # inside
    BY <1>3
  <2>4. PathChanged(x, t) /\ x.created[x.path[t].up] = "directory"
    BY <1>3
  <2>5. /\ LimboPlace(x, w, t) \in Places /\ LimboPlace(x, w, t) # Gone
        /\ \A u \in Ids \ {t} : w[u] # LimboPlace(x, w, t)
    BY <2>1, <2>2, <2>3
  <2>6. LimboPlace(x, w, t) = [dir |-> NewContents(x.path[t].up), name |-> x.path[t].name]
    BY <2>1 DEF inside
  <2> QED BY <2>4, <2>5, <2>6
<1>4. CASE ~fits
  <2>1. LimboPlace(x, w, t) = Limbo(t)
    BY <1>1, <1>4
  <2> QED BY <2>1, PlaceFacts
<1> QED BY <1>3, <1>4

(* Things in limbo stay apart when an entry changes and its contents are, if  *)
(* need be, put where they then belong.                                       *)
LEMMA LimboStep ==
  ASSUME TTypeOK, LimboApart, TTypeOK', NEW t \in Ids \ {Root},
         \A u \in Ids \ {t} : tt'.path[u] = tt.path[u] /\ tt'.created[u] = tt.created[u],
         tt.created[t] = "directory" => tt'.created[t] = tt.created[t],
         \/ limbo' = [limbo EXCEPT ![t] = LimboPlace(tt', limbo, t)]
         \/ limbo' = limbo /\ (limbo[t] \in {Gone, Limbo(t)} \/ tt'.path[t] = tt.path[t])
  PROVE  LimboApart'
<1>0. /\ layout' \in Layouts /\ tt' \in Transforms /\ limbo \in [Ids -> Places] /\ t # Root
      /\ layout \in Layouts /\ tt \in Transforms
  BY DEF TTypeOK
<1>a. "directory" # None
  BY <1>0, LayoutFacts
<1>1. ASSUME NEW u \in Ids \ {t}
      PROVE  /\ limbo'[u] = limbo[u]
             /\ PathChanged(tt, u) => PathChanged(tt', u) /\ Inside(u)' = Inside(u)
             /\ PathChanged(tt, u) /\ tt.created[tt.path[u].up] = "directory" =>
                  tt'.created[tt'.path[u].up] = "directory"
  <2>1. limbo'[u] = limbo[u]
    BY <1>0
  <2>2. PathChanged(tt, u) => PathChanged(tt', u) /\ Inside(u)' = Inside(u)
    BY DEF PathChanged, Inside, NewContents
  <2>3. ASSUME PathChanged(tt, u), tt.created[tt.path[u].up] = "directory"
        PROVE  tt'.created[tt'.path[u].up] = "directory"
    <3>1. tt'.path[u] = tt.path[u] /\ tt.path[u].up \in Ids
      BY <1>0, <2>3, PathFacts
    <3> QED BY <1>a, <2>3, <3>1
  <2> QED BY <2>1, <2>2, <2>3
<1>2. /\ \A u \in Ids : \/ limbo[u] \in {Gone, Limbo(u)}
                        \/ /\ PathChanged(tt, u) /\ tt.created[tt.path[u].up] = "directory"
                           /\ limbo[u] = Inside(u)
      /\ limbo[Root] = Gone
      /\ \A u, v \in Ids : limbo[u] = limbo[v] /\ limbo[u] # Gone => u = v
  BY DEF LimboApart
<1>3. CASE limbo' = [limbo EXCEPT ![t] = LimboPlace(tt', limbo, t)]
  <2>1. limbo'[t] = LimboPlace(tt', limbo, t)
    BY <1>0, <1>3
  <2>2. /\ limbo'[t] # Gone
        /\ \/ limbo'[t] = Limbo(t)
           \/ /\ PathChanged(tt', t) /\ tt'.created[tt'.path[t].up] = "directory"
              /\ limbo'[t] = Inside(t)'
              /\ \A u \in Ids \ {t} : limbo[u] # limbo'[t]
    BY <1>0, <2>1, LimboPlaceFacts DEF Inside
  <2>3. ASSUME NEW u \in Ids \ {t} PROVE limbo[u] # limbo'[t]
    <3>1. CASE limbo'[t] = Limbo(t)
      <4>1. limbo[u] \in {Gone, Limbo(u), Inside(u)}
        BY <1>2
      <4>2. Inside(u) # Limbo(t) /\ Gone # Limbo(t) /\ (Limbo(u) = Limbo(t) => u = t)
        BY PlaceFacts DEF Inside
      <4> QED BY <3>1, <4>1, <4>2
    <3>2. CASE limbo'[t] # Limbo(t)
      BY <2>2, <3>2
    <3> QED BY <3>1, <3>2
  <2>4. limbo'[Root] = Gone
    BY <1>0, <1>1, <1>2, LayoutFacts
  <2>5. \A u \in Ids : \/ limbo'[u] \in {Gone, Limbo(u)'}
                       \/ /\ PathChanged(tt', u) /\ tt'.created[tt'.path[u].up] = "directory"
                          /\ limbo'[u] = Inside(u)'
    <3> SUFFICES ASSUME NEW u \in Ids \ {t}
                 PROVE  \/ limbo'[u] \in {Gone, Limbo(u)'}
                        \/ /\ PathChanged(tt', u) /\ tt'.created[tt'.path[u].up] = "directory"
                           /\ limbo'[u] = Inside(u)'
      BY <2>2 DEF Limbo
    <3> QED BY <1>1, <1>2 DEF Limbo
  <2>6. \A u, v \in Ids : limbo'[u] = limbo'[v] /\ limbo'[u] # Gone => u = v
    BY <1>1, <1>2, <2>3
  <2> QED BY <2>4, <2>5, <2>6 DEF LimboApart, Gone
<1>4. CASE limbo' = limbo /\ (limbo[t] \in {Gone, Limbo(t)} \/ tt'.path[t] = tt.path[t])
  <2>1. \A u \in Ids : \/ limbo'[u] \in {Gone, Limbo(u)'}
                       \/ /\ PathChanged(tt', u) /\ tt'.created[tt'.path[u].up] = "directory"
                          /\ limbo'[u] = Inside(u)'
    <3> SUFFICES ASSUME NEW u \in Ids, limbo[u] \notin {Gone, Limbo(u)}
                 PROVE  /\ PathChanged(tt', u) /\ tt'.created[tt'.path[u].up] = "directory"
                        /\ limbo'[u] = Inside(u)'
      BY <1>4 DEF Limbo
    <3>1. PathChanged(tt, u) /\ tt.created[tt.path[u].up] = "directory" /\ limbo[u] = Inside(u)
      BY <1>2
    <3>2. CASE u # t
      BY <1>1, <1>4, <3>1, <3>2
    <3>3. CASE u = t
      <4>1. tt'.path[t] = tt.path[t] /\ tt.path[t].up \in Ids
        BY <1>0, <1>4, <3>1, <3>3, PathFacts
      <4>2. tt'.created[tt.path[t].up] = "directory"
        BY <1>a, <3>1, <3>3, <4>1
      <4> QED BY <1>4, <3>1, <3>3, <4>1, <4>2 DEF PathChanged, Inside, NewContents
    <3> QED BY <3>2, <3>3
  <2>2. limbo'[Root] = Gone /\ \A u, v \in Ids : limbo'[u] = limbo'[v] /\ limbo'[u] # Gone => u = v
    BY <1>2, <1>4
  <2> QED BY <2>1, <2>2 DEF LimboApart, Gone
<1> QED BY <1>3, <1>4

(* Things are on the disk where limbo says, and the tree is untouched.         *)
LEMMA PlanningStep ==
  ASSUME TTypeOK, PlanningOK, Planning, TTypeOK', layout' = layout, past' = past,
         NEW t \in Ids \ {Root},
         \A u \in Ids \ {t} : tt'.created[u] = tt.created[u],
         \/ /\ limbo' = [limbo EXCEPT ![t] = LimboPlace(tt', limbo, t)]
            /\ disk' = [disk EXCEPT ![NewContents(t)] = limbo'[t]]
            /\ tt'.created[t] # None
         \/ limbo' = limbo /\ disk' = disk /\ (tt'.created[t] = None <=> tt.created[t] = None)
  PROVE  PlanningOK' /\ \A u \in Ids : disk'[OldContents(u)] = disk[OldContents(u)]
<1>0. /\ layout \in Layouts /\ tt' \in Transforms /\ limbo \in [Ids -> Places] /\ t # Root
      /\ layout' \in Layouts /\ disk \in [Inodes -> Places]
  BY DEF TTypeOK
<1>1. /\ past = <<>>
      /\ \A u \in Old : disk[OldContents(u)] = Original(u)
      /\ \A u \in Ids \ {Root} : disk[NewContents(u)] = limbo[u]
      /\ \A u \in Ids : limbo[u] = Gone <=> tt.created[u] = None
  BY DEF PlanningOK
<1>2. \A u \in Old : Original(u)' = Original(u)
  BY DEF Original, OldContents
<1>3. CASE limbo' = limbo /\ disk' = disk /\ (tt'.created[t] = None <=> tt.created[t] = None)
  <2>1. \A u \in Ids : limbo'[u] = Gone <=> tt'.created[u] = None
    BY <1>1, <1>3
  <2> QED BY <1>1, <1>2, <1>3, <2>1 DEF PlanningOK, Gone, OldContents, NewContents
<1>4. CASE /\ limbo' = [limbo EXCEPT ![t] = LimboPlace(tt', limbo, t)]
           /\ disk' = [disk EXCEPT ![NewContents(t)] = limbo'[t]]
           /\ tt'.created[t] # None
  <2>1. limbo'[t] # Gone /\ limbo'[t] = LimboPlace(tt', limbo, t)
    BY <1>0, <1>4, LimboPlaceFacts
  <2>2. \A u \in Ids : limbo'[u] = Gone <=> tt'.created[u] = None
    BY <1>0, <1>1, <1>4, <2>1
  <2>3. \A u \in Ids \ {Root} : disk'[NewContents(u)] = limbo'[u]
    <3> SUFFICES ASSUME NEW u \in Ids \ {Root} PROVE disk'[NewContents(u)] = limbo'[u]
      OBVIOUS
    <3>1. NewContents(u) \in Inodes /\ (u # t => NewContents(u) # NewContents(t))
      BY InodeFacts
    <3> QED BY <1>0, <1>1, <1>4, <3>1
  <2>4. \A u \in Ids : disk'[OldContents(u)] = disk[OldContents(u)]
    <3> SUFFICES ASSUME NEW u \in Ids PROVE disk'[OldContents(u)] = disk[OldContents(u)]
      OBVIOUS
    <3>1. OldContents(u) \in Inodes /\ OldContents(u) # NewContents(t)
      BY InodeFacts
    <3> QED BY <1>0, <1>4, <3>1
  <2>5. \A u \in Old : disk'[OldContents(u)] = Original(u)'
    BY <1>0, <1>1, <1>2, <2>4, LayoutFacts
  <2> QED BY <1>1, <2>2, <2>3, <2>4, <2>5 DEF PlanningOK, Gone, OldContents, NewContents
<1> QED BY <1>3, <1>4

-----------------------------------------------------------------------------
(* Changes and resolutions *)

(* The tree does not change.                                                  *)
LEMMA SameTree ==
  ASSUME layout' = layout
  PROVE  /\ Known(tt)' = Known(tt') /\ OldInventory' = OldInventory
         /\ \A t : /\ PathChanged(tt, t)' = PathChanged(tt', t)
                   /\ FinalPath(tt, t)' = FinalPath(tt', t)
                   /\ Original(t)' = Original(t)
<1> QED BY DEF Known, FinalPath, PathChanged, TreePath, OldInventory, Original, OldContents,
                NoPath, Ids

(* A change of one entry that keeps to what transforms never do.              *)
LEMMA TransformStep ==
  ASSUME TTypeOK, TransformOK, TTypeOK', layout' = layout, NEW t \in Ids \ {Root},
         \A u \in Ids \ {t} : tt'.path[u] = tt.path[u] /\ tt'.created[u] = tt.created[u],
         tt'.path[t] = tt.path[t] \/ (PathChanged(tt', t) /\ tt'.path[t].up \in Known(tt)),
         tt'.created[t] # None => t \in Known(tt) \/ PathChanged(tt', t),
         Root \notin tt'.unversioned,
         \A u \in Ids : tt'.file[u] # None =>
           u # Root /\ (u \in Known(tt) \/ PathChanged(tt', u)),
         \A u, v \in Ids : tt'.file[u] = tt'.file[v] /\ tt'.file[u] # None => u = v,
         \A u \in Old : tt'.file[u] \in {u, None},
         \A u \in tt'.removed :
           /\ tt'.created[u] = "directory" => layout[u].kind # "directory"
           /\ tt'.created[u] = None => u \in tt'.unversioned,
         stage' = "build" => \A u \in Old : tt'.created[u] # None => u \in tt'.removed
  PROVE  /\ TransformOK' /\ Known(tt) \subseteq Known(tt)'
         /\ \A u \in Ids : PathChanged(tt, u) => PathChanged(tt, u)'
<1>0. layout \in Layouts /\ tt \in Transforms /\ tt' \in Transforms /\ t # Root
  BY DEF TTypeOK
<1>a. Root \in Ids /\ Root \notin Old
  BY <1>0, LayoutFacts
<1>1. \A u \in Ids : PathChanged(tt, u) => PathChanged(tt', u)
  BY DEF PathChanged
<1>2. Known(tt) \subseteq Known(tt')
  <2> SUFFICES ASSUME NEW u \in Known(tt) PROVE u \in Known(tt')
    OBVIOUS
  <2>1. u \in Ids /\ (u = Root \/ u \in Old \/ PathChanged(tt, u))
    BY <1>0, PathFacts
  <2> QED BY <1>0, <1>1, <2>1, PathFacts
<1>3. \A u \in Ids : PathChanged(tt', u) => tt'.path[u].up \in Known(tt')
  <2> SUFFICES ASSUME NEW u \in Ids, PathChanged(tt', u) PROVE tt'.path[u].up \in Known(tt')
    OBVIOUS
  <2>1. CASE tt'.path[u] = tt.path[u]
    BY <1>2, <2>1 DEF TransformOK, PathChanged
  <2>2. CASE tt'.path[u] # tt.path[u]
    BY <1>2, <2>2
  <2> QED BY <2>1, <2>2
<1>4. \A u \in Ids : tt'.created[u] # None \/ tt'.file[u] # None => u \in Known(tt')
  <2> SUFFICES ASSUME NEW u \in Ids, tt'.created[u] # None \/ tt'.file[u] # None
               PROVE  u \in Known(tt')
    OBVIOUS
  <2>1. u \in Known(tt) \/ PathChanged(tt', u)
    BY DEF TransformOK
  <2> QED BY <1>0, <1>2, <2>1, PathFacts
<1>5. tt'.path[Root] = NoPath /\ tt'.created[Root] = None /\ tt'.file[Root] = None
  BY <1>0, <1>a DEF TransformOK
<1> USE SameTree
<1>6. /\ \A u \in Ids : PathChanged(tt, u)' => tt'.path[u].up \in Known(tt)'
      /\ \A u \in Ids : tt'.created[u] # None \/ tt'.file[u] # None => u \in Known(tt)'
      /\ Known(tt) \subseteq Known(tt)'
      /\ \A u \in Ids : PathChanged(tt, u) => PathChanged(tt, u)'
  BY <1>1, <1>2, <1>3, <1>4
<1>7. TransformOK'
  BY <1>5, <1>6 DEF TransformOK, Ids, NoPath
<1> QED BY <1>6, <1>7

(* The conflicts of a pass that are left.                                     *)
LEMMA ConflictsStep ==
  ASSUME ConflictsOK, Known(tt) \subseteq Known(tt)',
         \A u \in Ids : PathChanged(tt, u) => PathChanged(tt, u)', Known(tt) \subseteq Ids,
         stage' = "resolve" => stage = "resolve" /\ todo' \subseteq todo
  PROVE  ConflictsOK'
<1> SUFFICES ASSUME stage' = "resolve", NEW c \in todo' PROVE ConflictOK(c)'
  BY DEF ConflictsOK
<1>1. ConflictOK(c)
  BY DEF ConflictsOK
<1> QED BY <1>1 DEF ConflictOK

(* While a transform is put together, the rest of the invariant says little.  *)
LEMMA PlanningRest ==
  ASSUME TransformInv, Planning, stage' \in {"build", "resolve", "malformed", "error"},
         layout' = layout, inventory' = inventory,
         \A u \in Ids : disk'[OldContents(u)] = disk[OldContents(u)],
         TTypeOK', TransformOK', ConflictsOK', LimboApart', PlanningOK'
  PROVE  TransformInv'
<1>0. layout' \in Layouts /\ layout \in Layouts
  BY DEF TTypeOK, TransformInv
<1>1. NoConflicts' /\ RemoveOK' /\ InsertOK' /\ JournalOK' /\ RollbackRestores'
  BY DEF NoConflicts, RemoveOK, InsertOK, JournalOK, RollbackRestores
<1>2. StillThere'
  <2>1. \A o \in Old : disk'[OldContents(o)] = Original(o)'
    BY DEF PlanningOK, Planning, OldContents
  <2>2. \A o \in Old : Original(o)' = Original(o)
    BY SameTree
  <2>3. \A o \in Old : Original(o) # Gone
    BY PlaceFacts DEF Original
  <2> QED BY <2>1, <2>2, <2>3 DEF StillThere, OldContents, Gone
<1>3. OnlyOld'
  BY DEF OnlyOld, TransformInv, OldContents, Gone
<1>4. InventoryOK'
  <2>1. stage # "done" /\ stage' # "done" /\ inventory = OldInventory
    BY DEF Planning, TransformInv, InventoryOK
  <2>2. OldInventory' = OldInventory
    BY SameTree
  <2> QED BY <2>1, <2>2 DEF InventoryOK
<1> QED BY <1>1, <1>2, <1>3, <1>4 DEF TransformInv

(* adjust_path: an entry is given another place.                              *)
LEMMA AdjustKeeps ==
  ASSUME TransformInv, stage \in {"build", "resolve"}, stage' = stage, todo' \subseteq todo,
         layout' = layout, past' = past, inventory' = inventory,
         NEW t \in Known(tt) \ {Root}, NEW up \in Known(tt), NEW name \in Seq(Words),
         tt' = Adjusted(tt, t, up, name), Adjust(tt', t)
  PROVE  TransformInv'
<1>0. TTypeOK /\ TransformOK /\ LimboApart /\ PlanningOK /\ ConflictsOK /\ Planning
  BY DEF TransformInv, Planning
<1>1. /\ layout \in Layouts /\ tt \in Transforms /\ limbo \in [Ids -> Places]
      /\ disk \in [Inodes -> Places] /\ past \in Seq([inode : Inodes, from : Places])
  BY <1>0 DEF TTypeOK
<1>a. t \in Ids \ {Root} /\ up \in Ids
  BY <1>1, PathFacts
<1>2. /\ tt'.path = [tt.path EXCEPT ![t] = [up |-> up, name |-> name]]
      /\ tt'.created = tt.created /\ tt'.removed = tt.removed
      /\ tt'.unversioned = tt.unversioned /\ tt'.file = tt.file
      /\ tt' \in Transforms /\ tt'.path[t] = [up |-> up, name |-> name]
  BY <1>1, <1>a DEF Adjusted, Transforms, Paths
<1>3. tt'.path[t].up = up /\ PathChanged(tt', t)
  BY <1>1, <1>2, <1>a, PathFacts DEF PathChanged
<1>4. \/ /\ limbo[t] \notin {Gone, Limbo(t)}
         /\ limbo' = [limbo EXCEPT ![t] = LimboPlace(tt', limbo, t)]
         /\ disk' = [disk EXCEPT ![NewContents(t)] = limbo'[t]]
      \/ limbo[t] \in {Gone, Limbo(t)} /\ limbo' = limbo /\ disk' = disk
  BY DEF Adjust
<1>5. limbo' \in [Ids -> Places] /\ disk' \in [Inodes -> Places]
  <2>1. LimboPlace(tt', limbo, t) \in Places
    BY <1>1, <1>2, <1>a, LimboPlaceFacts
  <2> QED BY <1>1, <1>4, <1>a, <2>1
<1>6. TTypeOK'
  BY <1>1, <1>2, <1>5 DEF TTypeOK, Transforms, Paths, NoPath, Ids, Inodes, Places, Dirs, Kinds
<1>7. /\ TransformOK' /\ Known(tt) \subseteq Known(tt)'
      /\ \A u \in Ids : PathChanged(tt, u) => PathChanged(tt, u)'
  <2>1. /\ \A u \in Ids : tt'.file[u] # None => u # Root /\ (u \in Known(tt) \/ PathChanged(tt', u))
        /\ \A u, v \in Ids : tt'.file[u] = tt'.file[v] /\ tt'.file[u] # None => u = v
        /\ \A u \in Old : tt'.file[u] \in {u, None}
        /\ \A u \in tt'.removed :
             /\ tt'.created[u] = "directory" => layout[u].kind # "directory"
             /\ tt'.created[u] = None => u \in tt'.unversioned
        /\ stage' = "build" => \A u \in Old : tt'.created[u] # None => u \in tt'.removed
    BY <1>0, <1>2 DEF TransformOK
  <2>2. /\ \A u \in Ids \ {t} : tt'.path[u] = tt.path[u] /\ tt'.created[u] = tt.created[u]
        /\ Root \notin tt'.unversioned
    BY <1>0, <1>1, <1>2 DEF TransformOK, Transforms
  <2> QED BY <1>0, <1>3, <1>6, <1>a, <2>1, <2>2, TransformStep
<1>8. ConflictsOK'
  BY <1>0, <1>1, <1>7, ConflictsStep, PathFacts
<1>9. \A u \in Ids \ {t} : tt'.path[u] = tt.path[u] /\ tt'.created[u] = tt.created[u]
  BY <1>1, <1>2 DEF Transforms
<1>10. LimboApart'
  BY <1>0, <1>2, <1>4, <1>6, <1>9, <1>a, LimboStep
<1>11. PlanningOK' /\ \A u \in Ids : disk'[OldContents(u)] = disk[OldContents(u)]
  <2>1. limbo[t] = Gone <=> tt.created[t] = None
    BY <1>0, <1>a DEF PlanningOK
  <2> QED BY <1>0, <1>2, <1>4, <1>6, <1>9, <1>a, <2>1, PlanningStep
<1> QED BY <1>0, <1>6, <1>7, <1>8, <1>10, <1>11, PlanningRest

(* MoveTo: so is it by a caller.                                              *)
LEMMA MoveToKeeps ==
  ASSUME TransformInv, NEW t \in Ids, NEW up \in Ids, NEW name \in Names, MoveTo(t, up, name)
  PROVE  TransformInv'
<1>1. name \in Seq(Words)
  BY TransformAssumption, NameFacts
<1>2. /\ stage = "build" /\ stage' = stage /\ todo' = todo
      /\ layout' = layout /\ past' = past /\ inventory' = inventory
      /\ up \in Known(tt) /\ t \in Known(tt) \ {Root}
      /\ tt' = Adjusted(tt, t, up, name) /\ Adjust(tt', t)
  BY DEF MoveTo, Change
<1> QED BY <1>1, <1>2, AdjustKeeps

(* Other changes of one entry, with its contents or without.                  *)
LEMMA EntryStep ==
  ASSUME TransformInv, stage \in {"build", "resolve"}, stage' = stage, todo' \subseteq todo,
         layout' = layout, past' = past, inventory' = inventory, NEW t \in Ids \ {Root},
         tt' \in Transforms, TransformOK', Known(tt) \subseteq Known(tt)',
         \A u \in Ids : PathChanged(tt, u) => PathChanged(tt, u)',
         \A u \in Ids \ {t} : tt'.path[u] = tt.path[u] /\ tt'.created[u] = tt.created[u],
         tt.created[t] = "directory" => tt'.created[t] = tt.created[t],
         \/ tt'.created[t] # None /\ Create(tt', t)
         \/ limbo' = limbo /\ disk' = disk /\ tt'.created[t] = tt.created[t]
            /\ (tt'.path[t] = tt.path[t] \/ tt.created[t] = None)
  PROVE  TransformInv'
<1>0. TTypeOK /\ TransformOK /\ LimboApart /\ PlanningOK /\ ConflictsOK /\ Planning
  BY DEF TransformInv, Planning
<1>1. /\ layout \in Layouts /\ tt \in Transforms /\ limbo \in [Ids -> Places]
      /\ disk \in [Inodes -> Places] /\ past \in Seq([inode : Inodes, from : Places])
  BY <1>0 DEF TTypeOK
<1>2. \/ /\ tt'.created[t] # None
         /\ limbo' = [limbo EXCEPT ![t] = LimboPlace(tt', limbo, t)]
         /\ disk' = [disk EXCEPT ![NewContents(t)] = limbo'[t]]
      \/ limbo' = limbo /\ disk' = disk /\ tt'.created[t] = tt.created[t]
         /\ (tt'.path[t] = tt.path[t] \/ tt.created[t] = None)
  BY DEF Create
<1>3. limbo' \in [Ids -> Places] /\ disk' \in [Inodes -> Places]
  <2>1. LimboPlace(tt', limbo, t) \in Places
    BY <1>1, LimboPlaceFacts
  <2>2. limbo' = [limbo EXCEPT ![t] = LimboPlace(tt', limbo, t)] \/ limbo' = limbo
    BY <1>2
  <2>3. limbo' \in [Ids -> Places]
    BY <1>1, <2>1, <2>2
  <2>4. disk' = [disk EXCEPT ![NewContents(t)] = limbo'[t]] \/ disk' = disk
    BY <1>2
  <2>5. disk' \in [Inodes -> Places]
    BY <1>1, <2>3, <2>4
  <2> QED BY <2>3, <2>5
<1>4. TTypeOK'
  BY <1>1, <1>3 DEF TTypeOK, Transforms, Paths, NoPath, Ids, Inodes, Places, Dirs, Kinds
<1>5. ConflictsOK'
  BY <1>0, <1>1, ConflictsStep, PathFacts
<1>6. limbo[t] = Gone <=> tt.created[t] = None
  BY <1>0 DEF PlanningOK
<1>7. LimboApart'
  BY <1>0, <1>2, <1>4, <1>6, LimboStep
<1>8. PlanningOK' /\ \A u \in Ids : disk'[OldContents(u)] = disk[OldContents(u)]
  BY <1>0, <1>2, <1>4, PlanningStep
<1> QED BY <1>0, <1>4, <1>5, <1>7, <1>8, PlanningRest

(* delete_versioned and unversion_file.                                       *)
LEMMA DeleteKeeps ==
  ASSUME TransformInv, NEW t \in Old, NEW contents \in BOOLEAN, Delete(t, contents)
  PROVE  TransformInv'
<1>0. /\ TTypeOK /\ TransformOK /\ tt \in Transforms /\ layout \in Layouts
      /\ stage = "build" /\ stage' = stage /\ todo' = todo
      /\ layout' = layout /\ past' = past /\ inventory' = inventory
      /\ limbo' = limbo /\ disk' = disk /\ t \notin tt.removed
      /\ tt' = [tt EXCEPT !.unversioned = @ \cup {t},
                          !.removed = IF contents THEN @ \cup {t} ELSE @]
  BY DEF TransformInv, TTypeOK, Delete, Change
<1>1. t \in Ids \ {Root}
  BY <1>0, LayoutFacts
<1>2. /\ tt'.path = tt.path /\ tt'.created = tt.created /\ tt'.file = tt.file
      /\ tt'.unversioned = tt.unversioned \cup {t}
      /\ tt'.removed \in {tt.removed, tt.removed \cup {t}}
      /\ tt' \in Transforms
  BY <1>0, <1>1 DEF Transforms
<1>3. tt.created[t] = None
  BY <1>0 DEF TransformOK
<1>4. TTypeOK'
  BY <1>0, <1>2 DEF TTypeOK
<1>5. /\ TransformOK' /\ Known(tt) \subseteq Known(tt)'
      /\ \A u \in Ids : PathChanged(tt, u) => PathChanged(tt, u)'
  <2>1. /\ \A u \in Ids : tt'.file[u] # None => u # Root /\ (u \in Known(tt) \/ PathChanged(tt', u))
        /\ \A u, v \in Ids : tt'.file[u] = tt'.file[v] /\ tt'.file[u] # None => u = v
        /\ \A u \in Old : tt'.file[u] \in {u, None}
        /\ tt'.created[t] # None => t \in Known(tt) \/ PathChanged(tt', t)
        /\ Root \notin tt'.unversioned
    BY <1>0, <1>1, <1>2 DEF TransformOK
  <2>2. \A u \in tt'.removed :
          /\ tt'.created[u] = "directory" => layout[u].kind # "directory"
          /\ tt'.created[u] = None => u \in tt'.unversioned
    BY <1>0, <1>2, <1>3, LayoutFacts DEF TransformOK
  <2>3. \A u \in Old : tt'.created[u] # None => u \in tt'.removed
    BY <1>0, <1>2 DEF TransformOK
  <2> QED BY <1>0, <1>1, <1>2, <1>4, <2>1, <2>2, <2>3, TransformStep
<1> QED BY <1>0, <1>1, <1>2, <1>5, EntryStep

(* Replace: an entry of the tree is given new contents.                       *)
LEMMA ReplaceKeeps ==
  ASSUME TransformInv, NEW t \in Old, NEW kind \in {"file", "directory"}, Replace(t, kind)
  PROVE  TransformInv'
<1>0. /\ TTypeOK /\ TransformOK /\ tt \in Transforms /\ layout \in Layouts
      /\ stage = "build" /\ stage' = stage /\ todo' = todo
      /\ layout' = layout /\ past' = past /\ inventory' = inventory
      /\ t \notin tt.removed /\ {TreeKind(t), kind} # {"directory"} /\ Create(tt', t)
      /\ tt' = [tt EXCEPT !.removed = @ \cup {t}, !.created[t] = kind]
  BY DEF TransformInv, TTypeOK, Replace, Change
<1>1. t \in Ids \ {Root} /\ kind # None
  BY <1>0, LayoutFacts
<1>2. /\ tt'.path = tt.path /\ tt'.created = [tt.created EXCEPT ![t] = kind]
      /\ tt'.file = tt.file /\ tt'.unversioned = tt.unversioned
      /\ tt'.removed = tt.removed \cup {t} /\ tt' \in Transforms
      /\ tt'.created[t] = kind /\ \A u \in Ids \ {t} : tt'.created[u] = tt.created[u]
  BY <1>0, <1>1 DEF Transforms, Kinds
<1>3. tt.created[t] = None
  BY <1>0 DEF TransformOK
<1>4. kind = "directory" => layout[t].kind # "directory"
  <2>1. TreeKind(t) = layout[t].kind
    BY <1>1 DEF TreeKind
  <2> QED BY <1>0, <2>1
<1>a. limbo' \in [Ids -> Places] /\ disk' \in [Inodes -> Places]
  <2>1. LimboPlace(tt', limbo, t) \in Places
    BY <1>0, <1>1, <1>2, LimboPlaceFacts
  <2>2. limbo \in [Ids -> Places] /\ disk \in [Inodes -> Places]
    BY <1>0 DEF TTypeOK
  <2> QED BY <1>0, <1>1, <2>1, <2>2 DEF Create
<1>5. TTypeOK'
  BY <1>0, <1>2, <1>a DEF TTypeOK
<1>6. /\ TransformOK' /\ Known(tt) \subseteq Known(tt)'
      /\ \A u \in Ids : PathChanged(tt, u) => PathChanged(tt, u)'
  <2>1. /\ \A u \in Ids : tt'.file[u] # None => u # Root /\ (u \in Known(tt) \/ PathChanged(tt', u))
        /\ \A u, v \in Ids : tt'.file[u] = tt'.file[v] /\ tt'.file[u] # None => u = v
        /\ \A u \in Old : tt'.file[u] \in {u, None}
        /\ Root \notin tt'.unversioned
    BY <1>0, <1>1, <1>2 DEF TransformOK
  <2>2. \A u \in tt'.removed :
          /\ tt'.created[u] = "directory" => layout[u].kind # "directory"
          /\ tt'.created[u] = None => u \in tt'.unversioned
    <3> SUFFICES ASSUME NEW u \in tt'.removed
                 PROVE  /\ tt'.created[u] = "directory" => layout[u].kind # "directory"
                        /\ tt'.created[u] = None => u \in tt'.unversioned
      OBVIOUS
    <3>1. CASE u = t
      BY <1>1, <1>2, <1>4, <3>1
    <3>2. CASE u # t
      <4>1. u \in tt.removed /\ u \in Ids \ {t}
        BY <1>0, <1>2, <3>2, LayoutFacts DEF Transforms
      <4> QED BY <1>0, <1>2, <4>1 DEF TransformOK
    <3> QED BY <3>1, <3>2
  <2>3. \A u \in Old : tt'.created[u] # None => u \in tt'.removed
    BY <1>0, <1>2, LayoutFacts DEF TransformOK
  <2>4. t \in Known(tt)
    BY <1>0, PathFacts
  <2> QED BY <1>0, <1>1, <1>2, <1>5, <2>1, <2>2, <2>3, <2>4, TransformStep
<1>8. tt.created[t] # "directory"
  BY <1>0, <1>3, LayoutFacts
<1> QED BY <1>0, <1>1, <1>2, <1>3, <1>6, <1>8, EntryStep

(* A new entry is one that was not known.                                     *)
LEMMA LowestUnused ==
  ASSUME TTypeOK, TransformOK, Unused(tt) # {}
  PROVE  LET t == Lowest(Unused(tt)) IN
         /\ t \in Fresh /\ t \in Ids \ {Root} /\ t \notin Known(tt) /\ t \notin Old
         /\ tt.path[t] = NoPath /\ tt.created[t] = None /\ tt.file[t] = None
<1> DEFINE t == Lowest(Unused(tt))
<1>0. layout \in Layouts /\ tt \in Transforms
  BY DEF TTypeOK
<1>1. Unused(tt) \subseteq Nat
  BY TransformAssumption DEF Unused
<1>2. \E m \in Unused(tt) : \A u \in Unused(tt) : m <= u
  BY <1>1, LeastNat
<1>3. t \in Unused(tt)
  BY <1>2 DEF Lowest
<1> HIDE DEF t
<1>4. t \in Fresh /\ t \notin Known(tt) /\ t \in Ids \ {Root} /\ t \notin Old
  BY <1>0, <1>3, LayoutFacts DEF Unused
<1>5. ~PathChanged(tt, t)
  BY <1>0, <1>4, PathFacts
<1>6. tt.path[t] = NoPath /\ tt.created[t] = None /\ tt.file[t] = None
  BY <1>4, <1>5 DEF TransformOK, PathChanged
<1> QED BY <1>4, <1>6 DEF t

(* New: an entry that the tree does not have.                                 *)
LEMMA NewKeeps ==
  ASSUME TransformInv, NEW up \in Ids, NEW name \in Names,
         NEW kind \in {"file", "directory", None}, NEW file \in Ids \cup {None},
         New(up, name, kind, file)
  PROVE  TransformInv'
<1> DEFINE t == Lowest(Unused(tt))
<1>0. /\ TTypeOK /\ TransformOK /\ tt \in Transforms /\ layout \in Layouts
      /\ stage = "build" /\ stage' = stage /\ todo' = todo
      /\ layout' = layout /\ past' = past /\ inventory' = inventory
      /\ Unused(tt) # {} /\ up \in Known(tt)
      /\ file \in (({t} \cup Old) \ {tt.file[u] : u \in Ids}) \cup {None}
      /\ kind = None => file # None
      /\ tt' = [Adjusted(tt, t, up, name) EXCEPT !.created[t] = kind, !.file[t] = file]
      /\ IF kind = None THEN limbo' = limbo /\ disk' = disk ELSE Create(tt', t)
  BY DEF TransformInv, TTypeOK, New, Change
<1>1. /\ t \in Fresh /\ t \in Ids \ {Root} /\ t \notin Known(tt) /\ t \notin Old
      /\ tt.path[t] = NoPath /\ tt.created[t] = None /\ tt.file[t] = None
  BY <1>0, LowestUnused
<1> HIDE DEF t
<1>a. name \in Seq(Words)
  BY TransformAssumption, NameFacts
<1>2. /\ tt'.path = [tt.path EXCEPT ![t] = [up |-> up, name |-> name]]
      /\ tt'.created = [tt.created EXCEPT ![t] = kind]
      /\ tt'.file = [tt.file EXCEPT ![t] = file]
      /\ tt'.unversioned = tt.unversioned /\ tt'.removed = tt.removed
      /\ tt' \in Transforms
  BY <1>0, <1>1, <1>a DEF Transforms, Kinds, Adjusted, Paths
<1>3. /\ \A u \in Ids \ {t} : /\ tt'.path[u] = tt.path[u] /\ tt'.created[u] = tt.created[u]
                              /\ tt'.file[u] = tt.file[u]
      /\ tt'.path[t] = [up |-> up, name |-> name] /\ tt'.created[t] = kind /\ tt'.file[t] = file
  BY <1>0, <1>1, <1>2 DEF Transforms
<1>4. PathChanged(tt', t) /\ tt'.path[t].up = up
  BY <1>0, <1>3, <1>a, PathFacts DEF PathChanged
<1>5. limbo' \in [Ids -> Places] /\ disk' \in [Inodes -> Places]
  <2>1. LimboPlace(tt', limbo, t) \in Places
    BY <1>0, <1>1, <1>2, LimboPlaceFacts
  <2>2. limbo \in [Ids -> Places] /\ disk \in [Inodes -> Places]
    BY <1>0 DEF TTypeOK
  <2> QED BY <1>0, <1>1, <2>1, <2>2 DEF Create
<1>6. TTypeOK'
  BY <1>0, <1>2, <1>5 DEF TTypeOK
<1>7. /\ TransformOK' /\ Known(tt) \subseteq Known(tt)'
      /\ \A u \in Ids : PathChanged(tt, u) => PathChanged(tt, u)'
  <2>1. \A u \in Ids : tt'.file[u] # None => u # Root /\ (u \in Known(tt) \/ PathChanged(tt', u))
    BY <1>0, <1>1, <1>3, <1>4 DEF TransformOK
  <2>2. /\ \A u, v \in Ids : tt'.file[u] = tt'.file[v] /\ tt'.file[u] # None => u = v
        /\ \A u \in Old : tt'.file[u] \in {u, None}
    BY <1>0, <1>1, <1>3, LayoutFacts DEF TransformOK
  <2>3. \A u \in tt'.removed :
          /\ tt'.created[u] = "directory" => layout[u].kind # "directory"
          /\ tt'.created[u] = None => u \in tt'.unversioned
    <3> SUFFICES ASSUME NEW u \in tt.removed
                 PROVE  /\ tt'.created[u] = "directory" => layout[u].kind # "directory"
                        /\ tt'.created[u] = None => u \in tt'.unversioned
      BY <1>2
    <3>1. u \in Ids \ {t}
      BY <1>0, <1>1, LayoutFacts DEF Transforms
    <3> QED BY <1>0, <1>2, <1>3, <3>1 DEF TransformOK
  <2>4. \A u \in Old : tt'.created[u] # None => u \in tt'.removed
    BY <1>0, <1>1, <1>2, <1>3, LayoutFacts DEF TransformOK
  <2>5. Root \notin tt'.unversioned
    BY <1>0, <1>2 DEF TransformOK
  <2> QED BY <1>0, <1>1, <1>3, <1>4, <1>6, <2>1, <2>2, <2>3, <2>4, <2>5, TransformStep
<1>8. tt.created[t] # "directory"
  BY <1>0, <1>1, LayoutFacts
<1> QED BY <1>0, <1>1, <1>2, <1>3, <1>7, <1>8, EntryStep

(* A file id is given to one entry only.                                      *)
LEMMA VersionStep ==
  ASSUME TransformInv, stage \in {"build", "resolve"}, stage' = stage, todo' \subseteq todo,
         layout' = layout, past' = past, inventory' = inventory, limbo' = limbo, disk' = disk,
         NEW t \in Known(tt) \ {Root}, NEW file \in Ids \cup {None},
         \A u \in Ids : file # None => tt.file[u] # file,
         t \in Old => file \in {t, None},
         tt' = [tt EXCEPT !.file[t] = file]
  PROVE  TransformInv'
<1>0. TTypeOK /\ TransformOK /\ tt \in Transforms /\ layout \in Layouts
  BY DEF TransformInv, TTypeOK
<1>1. t \in Ids \ {Root}
  BY <1>0, PathFacts
<1>2. /\ tt'.path = tt.path /\ tt'.created = tt.created /\ tt'.removed = tt.removed
      /\ tt'.unversioned = tt.unversioned /\ tt'.file = [tt.file EXCEPT ![t] = file]
      /\ tt' \in Transforms
  BY <1>0, <1>1 DEF Transforms
<1>3. tt'.file[t] = file /\ \A u \in Ids \ {t} : tt'.file[u] = tt.file[u]
  BY <1>0, <1>1, <1>2 DEF Transforms
<1>4. TTypeOK'
  BY <1>0, <1>2 DEF TTypeOK
<1>5. /\ TransformOK' /\ Known(tt) \subseteq Known(tt)'
      /\ \A u \in Ids : PathChanged(tt, u) => PathChanged(tt, u)'
  <2>1. \A u \in Ids : tt'.file[u] # None => u # Root /\ (u \in Known(tt) \/ PathChanged(tt', u))
    BY <1>0, <1>1, <1>3 DEF TransformOK
  <2>2. /\ \A u, v \in Ids : tt'.file[u] = tt'.file[v] /\ tt'.file[u] # None => u = v
        /\ \A u \in Old : tt'.file[u] \in {u, None}
    BY <1>0, <1>1, <1>3, LayoutFacts DEF TransformOK
  <2>3. /\ \A u \in tt'.removed :
             /\ tt'.created[u] = "directory" => layout[u].kind # "directory"
             /\ tt'.created[u] = None => u \in tt'.unversioned
        /\ stage' = "build" => \A u \in Old : tt'.created[u] # None => u \in tt'.removed
        /\ Root \notin tt'.unversioned
    BY <1>0, <1>2 DEF TransformOK
  <2> QED BY <1>0, <1>1, <1>2, <1>4, <2>1, <2>2, <2>3, TransformStep
<1> QED BY <1>0, <1>1, <1>2, <1>5, EntryStep

(* The entry that one is in is known.                                         *)
LEMMA ParentKnown ==
  ASSUME TTypeOK, TransformOK, NEW t \in Known(tt) \ {Root}
  PROVE  Parent(tt, t) \in Known(tt)
<1>0. layout \in Layouts /\ tt \in Transforms
  BY DEF TTypeOK
<1>1. t \in Ids /\ (t \in Old \/ PathChanged(tt, t))
  BY <1>0, PathFacts
<1>2. CASE PathChanged(tt, t)
  BY <1>0, <1>1, <1>2, PathFacts DEF TransformOK, Parent
<1>3. CASE ~PathChanged(tt, t)
  <2>1. Parent(tt, t) = layout[t].up
    BY <1>0, <1>1, <1>3, PathFacts DEF Parent
  <2>2. layout[t].up \in {Root} \cup Old
    BY <1>0, <1>1, <1>3, LayoutFacts
  <2> QED BY <1>0, <2>1, <2>2, PathFacts
<1> QED BY <1>2, <1>3

(* The root is a directory and versioned.                                     *)
LEMMA RootFacts ==
  ASSUME TTypeOK, TransformOK
  PROVE  /\ FinalKind(tt, Root) = "directory" /\ FinalFile(tt, Root) = Root
         /\ Root # None /\ Root \in Known(tt) /\ Parent(tt, Root) = None
<1>0. layout \in Layouts /\ tt \in Transforms
  BY DEF TTypeOK
<1>1. Root \notin tt.removed /\ Root # None /\ Root \notin Old
  BY <1>0, LayoutFacts DEF Transforms
<1>2. tt.path[Root] = NoPath /\ tt.created[Root] = None /\ tt.file[Root] = None
      /\ Root \notin tt.unversioned
  BY DEF TransformOK
<1>3. Parent(tt, Root) = None
  BY <1>1, <1>2 DEF Parent, FinalPath, PathChanged, TreePath, NoPath
<1> QED BY <1>0, <1>1, <1>2, <1>3, PathFacts DEF FinalKind, FinalFile, TreeKind, TreeFile

(* find_conflicts: the conflicts it finds are about known entries.            *)
LEMMA FoundOK ==
  ASSUME TTypeOK, TransformOK, NEW c \in FindConflicts(tt)
  PROVE  ConflictOK(c)
<1>0. layout \in Layouts /\ tt \in Transforms /\ Known(tt) \subseteq Ids
  BY PathFacts DEF TTypeOK
<1>a. /\ FinalKind(tt, Root) = "directory" /\ FinalFile(tt, Root) # None
      /\ ~PathChanged(tt, Root) /\ \A t \in Old : t \in Known(tt) \ {Root}
  BY <1>0, RootFacts, LayoutFacts, PathFacts DEF TransformOK, PathChanged
<1>1. ASSUME NEW q \in Known(tt), FinalFile(tt, q) = None,
             c = Conflict(1, "unversioned parent", q, None)
      PROVE  ConflictOK(c)
  <2>1. c.t = q /\ c.type = "unversioned parent"
    BY <1>1 DEF Conflict
  <2> QED BY <1>a, <1>1, <2>1 DEF ConflictOK
<1>2. ASSUME NEW t \in Looping(tt), c = Conflict(2, "parent loop", t, None)
      PROVE  ConflictOK(c)
  <2>1. c.t = t /\ c.type = "parent loop"
    BY <1>2 DEF Conflict
  <2>2. t \in Known(tt) /\ PathChanged(tt, t)
    BY DEF Looping
  <2> QED BY <1>a, <2>1, <2>2 DEF ConflictOK
<1>3. ASSUME NEW d \in Duplicates(tt), c = Conflict(3, "duplicate", d[1], d[2])
      PROVE  ConflictOK(c)
  <2>1. c.t = d[1] /\ c.u = d[2] /\ c.type = "duplicate"
    BY <1>3 DEF Conflict
  <2>2. d[1] \in Known(tt) \ {Root} /\ d[2] \in Known(tt) \ {Root}
    BY DEF Duplicates
  <2> QED BY <2>1, <2>2 DEF ConflictOK
<1>4. ASSUME NEW t \in Ids, tt.file[t] \in Old, c = Conflict(4, "duplicate id", tt.file[t], t)
      PROVE  ConflictOK(c)
  <2>1. c.t = tt.file[t] /\ c.type = "duplicate id"
    BY <1>4 DEF Conflict
  <2> QED BY <1>a, <1>4, <2>1 DEF ConflictOK
<1>5. ASSUME NEW q \in Known(tt), FinalKind(tt, q) # "directory", NEW type,
             type \in {"missing parent", "non-directory parent"}, c = Conflict(5, type, q, None)
      PROVE  ConflictOK(c)
  <2>1. c.t = q /\ c.type = type
    BY <1>5 DEF Conflict
  <2> QED BY <1>a, <1>5, <2>1 DEF ConflictOK
<1>6. ASSUME NEW t \in Ids, tt.file[t] # None, c = Conflict(6, "versioning no contents", t, None)
      PROVE  ConflictOK(c)
  <2>1. c.t = t /\ c.type = "versioning no contents"
    BY <1>6 DEF Conflict
  <2>2. t \in Known(tt) /\ t # Root
    BY <1>6 DEF TransformOK
  <2> QED BY <2>1, <2>2 DEF ConflictOK
<1>7. ASSUME NEW t \in Old, c = Conflict(7, "overwrite", t, None)
      PROVE  ConflictOK(c)
  <2>1. c.t = t /\ c.type = "overwrite"
    BY <1>7 DEF Conflict
  <2> QED BY <1>a, <2>1 DEF ConflictOK
<1> QED BY <1>1, <1>2, <1>3, <1>4, <1>5, <1>6, <1>7 DEF FindConflicts

(* A conflict that cannot be resolved is raised.                              *)
LEMMA RaiseKeeps ==
  ASSUME TransformInv, stage = "resolve", Raise,
         layout' = layout, past' = past, inventory' = inventory
  PROVE  TransformInv'
<1>0. /\ TTypeOK /\ TransformOK /\ LimboApart /\ PlanningOK /\ Planning
      /\ stage' = "error" /\ tt' = tt /\ limbo' = limbo /\ disk' = disk
  BY DEF TransformInv, Planning, Raise
<1>1. TTypeOK'
  BY <1>0 DEF TTypeOK, Transforms, Paths, NoPath, Ids, Inodes, Places, Dirs, Kinds
<1>2. Known(tt)' = Known(tt) /\ \A t : PathChanged(tt, t)' = PathChanged(tt, t)
                                     /\ Original(t)' = Original(t)
  BY <1>0, SameTree
<1>3. TransformOK' /\ ConflictsOK'
  BY <1>0, <1>2 DEF TransformOK, ConflictsOK, NoPath, Ids
<1>4. LimboApart'
  BY <1>0, <1>2 DEF LimboApart, Inside, Limbo, NewContents, Gone, Ids
<1>5. PlanningOK'
  BY <1>0, <1>2 DEF PlanningOK, Planning, OldContents, NewContents, Gone, Ids
<1> QED BY <1>0, <1>1, <1>3, <1>4, <1>5, PlanningRest

\* What every resolution leaves alone.
Resolving(c) ==
  /\ TransformInv /\ stage = "resolve" /\ c \in todo /\ ConflictOK(c)
  /\ todo' = todo \ {c} /\ layout' = layout /\ past' = past /\ inventory' = inventory

(* What is known of a conflict that is resolved.                              *)
LEMMA ResolvingFacts ==
  ASSUME NEW c, Resolving(c)
  PROVE  /\ TTypeOK /\ TransformOK /\ tt \in Transforms /\ layout \in Layouts
         /\ c.t \in Known(tt) \ {Root} /\ c.t \in Ids \ {Root}
         /\ todo' \subseteq todo /\ stage \in {"build", "resolve"}
         /\ layout' = layout /\ past' = past /\ inventory' = inventory /\ TransformInv
<1>1. TTypeOK /\ TransformOK /\ tt \in Transforms /\ layout \in Layouts
  BY DEF Resolving, TransformInv, TTypeOK
<1>2. c.t \in Known(tt) \ {Root}
  BY DEF Resolving, ConflictOK
<1> QED BY <1>1, <1>2, PathFacts DEF Resolving

(* A parent that is not versioned is versioned again.                         *)
LEMMA UnversionedParentKeeps ==
  ASSUME NEW c, Resolving(c), stage' = stage, limbo' = limbo, disk' = disk,
         tt' \in Version(tt, c.t, TreeFile(c.t))
  PROVE  TransformInv'
<1> DEFINE file == TreeFile(c.t)
<1>0. /\ TTypeOK /\ TransformOK /\ tt \in Transforms /\ layout \in Layouts
      /\ c.t \in Known(tt) \ {Root} /\ c.t \in Ids \ {Root}
  BY ResolvingFacts
<1>1. file \notin {tt.file[u] : u \in Ids} \cup {None} /\ tt' = [tt EXCEPT !.file[c.t] = file]
  BY DEF Version
<1>2. file \in Ids \cup {None} /\ (c.t \in Old => file \in {c.t, None})
  BY <1>0, LayoutFacts DEF TreeFile
<1> HIDE DEF file
<1>3. \A u \in Ids : file # None => tt.file[u] # file
  BY <1>1
<1> QED BY <1>0, <1>1, <1>2, <1>3, ResolvingFacts, VersionStep

(* An entry of a parent loop goes back to where it was.                       *)
LEMMA ParentLoopKeeps ==
  ASSUME NEW c, Resolving(c), stage' = stage, c.t \in Old,
         tt' = Adjusted(tt, c.t, layout[c.t].up, FinalPath(tt, c.t).name), Adjust(tt', c.t)
  PROVE  TransformInv'
<1>0. /\ TTypeOK /\ TransformOK /\ tt \in Transforms /\ layout \in Layouts
      /\ c.t \in Known(tt) \ {Root} /\ c.t \in Ids \ {Root}
  BY ResolvingFacts
<1>1. layout[c.t].up \in Known(tt)
  <2>1. layout[c.t].up \in {Root} \cup Old
    BY <1>0, LayoutFacts
  <2> QED BY <1>0, <2>1, PathFacts
<1>2. FinalPath(tt, c.t).name \in Seq(Words)
  BY <1>0, PathFacts
<1> QED BY <1>0, <1>1, <1>2, ResolvingFacts, AdjustKeeps

(* One of two entries of one name is given another one.                       *)
LEMMA DuplicateKeeps ==
  ASSUME NEW c, Resolving(c), stage' = stage, c.type = "duplicate",
         tt' = Adjusted(tt, Loser(c), Parent(tt, c.t), Moved(FinalPath(tt, Loser(c)).name)),
         Adjust(tt', Loser(c))
  PROVE  TransformInv'
<1>0. /\ TTypeOK /\ TransformOK /\ tt \in Transforms /\ layout \in Layouts
      /\ c.t \in Known(tt) \ {Root}
  BY ResolvingFacts
<1>1. c.u \in Known(tt) \ {Root}
  BY DEF Resolving, ConflictOK
<1>2. Loser(c) \in Known(tt) \ {Root}
  BY <1>0, <1>1 DEF Loser
<1>3. Parent(tt, c.t) \in Known(tt)
  BY <1>0, ParentKnown
<1>4. Moved(FinalPath(tt, Loser(c)).name) \in Seq(Words)
  <2>1. FinalPath(tt, Loser(c)).name \in Seq(Words)
    BY <1>0, <1>2, PathFacts
  <2> QED BY <2>1, NameFacts DEF Moved
<1> QED BY <1>2, <1>3, <1>4, ResolvingFacts, AdjustKeeps

(* An entry that has the file id of a new one loses it.                       *)
LEMMA DuplicateIdKeeps ==
  ASSUME NEW c, Resolving(c), stage' = stage, limbo' = limbo, disk' = disk,
         tt' = [tt EXCEPT !.unversioned = @ \cup {c.t}]
  PROVE  TransformInv'
<1>0. /\ TTypeOK /\ TransformOK /\ tt \in Transforms /\ layout \in Layouts
      /\ c.t \in Known(tt) \ {Root} /\ c.t \in Ids \ {Root} /\ stage = "resolve"
      /\ layout' = layout /\ past' = past
  BY ResolvingFacts DEF Resolving
<1>1. /\ tt'.path = tt.path /\ tt'.created = tt.created /\ tt'.file = tt.file
      /\ tt'.unversioned = tt.unversioned \cup {c.t} /\ tt'.removed = tt.removed
      /\ tt' \in Transforms
  BY <1>0 DEF Transforms
<1>2. TTypeOK'
  BY <1>0, <1>1 DEF TTypeOK
<1>3. /\ TransformOK' /\ Known(tt) \subseteq Known(tt)'
      /\ \A u \in Ids : PathChanged(tt, u) => PathChanged(tt, u)'
  <2>1. /\ \A u \in Ids : tt'.file[u] # None => u # Root /\ (u \in Known(tt) \/ PathChanged(tt', u))
        /\ \A u, v \in Ids : tt'.file[u] = tt'.file[v] /\ tt'.file[u] # None => u = v
        /\ \A u \in Old : tt'.file[u] \in {u, None}
        /\ Root \notin tt'.unversioned
    BY <1>0, <1>1 DEF TransformOK
  <2>2. \A u \in tt'.removed :
          /\ tt'.created[u] = "directory" => layout[u].kind # "directory"
          /\ tt'.created[u] = None => u \in tt'.unversioned
    BY <1>0, <1>1 DEF TransformOK
  <2> QED BY <1>0, <1>1, <1>2, <2>1, <2>2, TransformStep
<1> QED BY <1>0, <1>1, <1>3, ResolvingFacts, EntryStep

(* The parent of an entry is not removed after all.                           *)
LEMMA KeptParentKeeps ==
  ASSUME NEW c, Resolving(c), stage' = stage, limbo' = limbo, disk' = disk,
         tt' = [tt EXCEPT !.removed = @ \ {c.t}]
  PROVE  TransformInv'
<1>0. /\ TTypeOK /\ TransformOK /\ tt \in Transforms /\ layout \in Layouts
      /\ c.t \in Known(tt) \ {Root} /\ c.t \in Ids \ {Root} /\ stage = "resolve"
      /\ layout' = layout /\ past' = past
  BY ResolvingFacts DEF Resolving
<1>1. /\ tt'.path = tt.path /\ tt'.created = tt.created /\ tt'.file = tt.file
      /\ tt'.unversioned = tt.unversioned /\ tt'.removed = tt.removed \ {c.t}
      /\ tt' \in Transforms
  BY <1>0 DEF Transforms
<1>2. TTypeOK'
  BY <1>0, <1>1 DEF TTypeOK
<1>3. /\ TransformOK' /\ Known(tt) \subseteq Known(tt)'
      /\ \A u \in Ids : PathChanged(tt, u) => PathChanged(tt, u)'
  <2>1. /\ \A u \in Ids : tt'.file[u] # None => u # Root /\ (u \in Known(tt) \/ PathChanged(tt', u))
        /\ \A u, v \in Ids : tt'.file[u] = tt'.file[v] /\ tt'.file[u] # None => u = v
        /\ \A u \in Old : tt'.file[u] \in {u, None}
        /\ Root \notin tt'.unversioned
    BY <1>0, <1>1 DEF TransformOK
  <2>2. \A u \in tt'.removed :
          /\ tt'.created[u] = "directory" => layout[u].kind # "directory"
          /\ tt'.created[u] = None => u \in tt'.unversioned
    BY <1>0, <1>1 DEF TransformOK
  <2> QED BY <1>0, <1>1, <1>2, <2>1, <2>2, TransformStep
<1> QED BY <1>0, <1>1, <1>3, ResolvingFacts, EntryStep

(* Or a directory is made for it.                                             *)
LEMMA NewParentKeeps ==
  ASSUME NEW c, Resolving(c), stage' = stage, c.t \notin tt.removed,
         tt' = [tt EXCEPT !.created[c.t] = "directory"], Create(tt', c.t)
  PROVE  TransformInv'
<1>0. /\ TTypeOK /\ TransformOK /\ tt \in Transforms /\ layout \in Layouts
      /\ c.t \in Known(tt) \ {Root} /\ c.t \in Ids \ {Root} /\ stage = "resolve"
      /\ layout' = layout /\ past' = past /\ "directory" # None
  BY ResolvingFacts, LayoutFacts DEF Resolving
<1>1. /\ tt'.path = tt.path /\ tt'.created = [tt.created EXCEPT ![c.t] = "directory"]
      /\ tt'.file = tt.file
      /\ tt'.unversioned = tt.unversioned /\ tt'.removed = tt.removed
      /\ tt' \in Transforms
      /\ tt'.created[c.t] = "directory" /\ \A u \in Ids \ {c.t} : tt'.created[u] = tt.created[u]
  BY <1>0 DEF Transforms, Kinds
<1>a. limbo' \in [Ids -> Places] /\ disk' \in [Inodes -> Places]
  <2>1. LimboPlace(tt', limbo, c.t) \in Places
    BY <1>0, <1>1, LimboPlaceFacts
  <2>2. limbo \in [Ids -> Places] /\ disk \in [Inodes -> Places]
    BY <1>0 DEF TTypeOK
  <2> QED BY <1>0, <1>1, <2>1, <2>2 DEF Create
<1>2. TTypeOK'
  BY <1>0, <1>1, <1>a DEF TTypeOK
<1>3. /\ TransformOK' /\ Known(tt) \subseteq Known(tt)'
      /\ \A u \in Ids : PathChanged(tt, u) => PathChanged(tt, u)'
  <2>1. /\ \A u \in Ids : tt'.file[u] # None => u # Root /\ (u \in Known(tt) \/ PathChanged(tt', u))
        /\ \A u, v \in Ids : tt'.file[u] = tt'.file[v] /\ tt'.file[u] # None => u = v
        /\ \A u \in Old : tt'.file[u] \in {u, None}
        /\ Root \notin tt'.unversioned
    BY <1>0, <1>1 DEF TransformOK
  <2>2. \A u \in tt'.removed :
          /\ tt'.created[u] = "directory" => layout[u].kind # "directory"
          /\ tt'.created[u] = None => u \in tt'.unversioned
    <3>1. \A u \in tt.removed : u \in Ids \ {c.t}
      BY <1>0, LayoutFacts DEF Transforms
    <3> QED BY <1>0, <1>1, <3>1 DEF TransformOK
  <2> QED BY <1>0, <1>1, <1>2, <2>1, <2>2, TransformStep
<1> QED BY <1>0, <1>1, <1>3, ResolvingFacts, EntryStep

(* An entry without contents is not versioned.                                *)
LEMMA NoContentsKeeps ==
  ASSUME NEW c, Resolving(c), stage' = stage, limbo' = limbo, disk' = disk,
         tt' = [tt EXCEPT !.file[c.t] = None]
  PROVE  TransformInv'
<1> QED BY ResolvingFacts, VersionStep

(* A conflict may be left as it is.                                           *)
LEMMA NothingKeeps ==
  ASSUME NEW c, Resolving(c), stage' = stage, limbo' = limbo, disk' = disk, tt' = tt
  PROVE  TransformInv'
<1>0. /\ TTypeOK /\ TransformOK /\ tt \in Transforms /\ layout \in Layouts
      /\ c.t \in Known(tt) \ {Root} /\ c.t \in Ids \ {Root} /\ stage = "resolve"
      /\ layout' = layout /\ past' = past
  BY ResolvingFacts DEF Resolving
<1>1. /\ Known(tt)' = Known(tt) /\ tt' \in Transforms
      /\ \A t : PathChanged(tt, t)' = PathChanged(tt, t) /\ Original(t)' = Original(t)
  BY <1>0, SameTree
<1>2. TransformOK'
  BY <1>0, <1>1 DEF TransformOK, NoPath, Ids
<1> QED BY <1>0, <1>1, <1>2, ResolvingFacts, EntryStep

(* A new directory beside a file that has children: what changes.             *)
LEMMA BesideFacts ==
  ASSUME NEW c, Resolving(c), NEW n, Unused(tt) # {}, n = Lowest(Unused(tt)),
         tt' \in Beside(c.t, n)
  PROVE  /\ n \in Fresh /\ n \in Ids \ {Root} /\ n \notin Known(tt) /\ n \notin Old
         /\ tt.created[n] = None /\ tt.file[n] = None /\ tt.path[n] = NoPath
         /\ tt' \in Transforms /\ tt'.removed = tt.removed
         /\ \A u \in Children(tt, c.t) : /\ u \in Known(tt) \ {Root} /\ u # n
                                         /\ tt'.path[u] = [up |-> n, name |-> FinalPath(tt, u).name]
         /\ tt'.path[n].up = Parent(tt, c.t) /\ PathChanged(tt', n)
         /\ \A u \in Ids \ {n} : u \notin Children(tt, c.t) => tt'.path[u] = tt.path[u]
         /\ tt'.created[n] = "directory" /\ \A u \in Ids \ {n} : tt'.created[u] = tt.created[u]
         /\ \/ tt'.file = tt.file /\ tt'.unversioned = tt.unversioned
            \/ /\ tt'.file[n] # None /\ \A u \in Ids : tt.file[u] # tt'.file[n]
               /\ \A u \in Ids \ {n} : tt'.file[u] = tt.file[u]
               /\ tt'.unversioned = tt.unversioned \cup {c.t}
<1>0. /\ TTypeOK /\ TransformOK /\ tt \in Transforms /\ layout \in Layouts
      /\ c.t \in Known(tt) \ {Root} /\ c.t \in Ids \ {Root}
  BY ResolvingFacts
<1>1. /\ n \in Fresh /\ n \in Ids \ {Root} /\ n \notin Known(tt) /\ n \notin Old
      /\ tt.created[n] = None /\ tt.file[n] = None /\ tt.path[n] = NoPath
  BY <1>0, LowestUnused
<1>2. Parent(tt, c.t) \in Ids /\ Append(FinalPath(tt, c.t).name, "new") \in Seq(Words)
  BY <1>0, PathFacts, NameFacts DEF Parent
<1> DEFINE dir == [Adjusted(tt, n, Parent(tt, c.t), Append(FinalPath(tt, c.t).name, "new"))
                     EXCEPT !.created[n] = "directory"]
           file == FinalFile(tt, c.t)
           moved(x) == [x EXCEPT !.path = [u \in Ids |->
                          IF u \in Children(tt, c.t) THEN [up |-> n, name |-> FinalPath(tt, u).name]
                          ELSE @[u]]]
<1>3. IF file = None THEN tt' = moved(dir)
      ELSE \E x \in Version(dir, n, file) : tt' = [moved(x) EXCEPT !.unversioned = @ \cup {c.t}]
  BY DEF Beside
<1>4. /\ dir \in Transforms /\ dir.removed = tt.removed /\ dir.file = tt.file
      /\ dir.unversioned = tt.unversioned
      /\ dir.path[n].up = Parent(tt, c.t) /\ dir.path[n] # NoPath
      /\ \A u \in Ids \ {n} : dir.path[u] = tt.path[u]
      /\ dir.created[n] = "directory" /\ \A u \in Ids \ {n} : dir.created[u] = tt.created[u]
  <2> DEFINE place == [up |-> Parent(tt, c.t), name |-> Append(FinalPath(tt, c.t).name, "new")]
  <2>1. place \in [up : Ids, name : Seq(Words)] /\ place.up = Parent(tt, c.t)
    BY <1>2
  <2>2. dir = [[tt EXCEPT !.path[n] = place] EXCEPT !.created[n] = "directory"]
    BY DEF Adjusted
  <2> HIDE DEF place
  <2>3. place # NoPath
    BY <1>0, <2>1, PathFacts
  <2>4. /\ dir.path = [tt.path EXCEPT ![n] = place]
        /\ dir.created = [tt.created EXCEPT ![n] = "directory"]
        /\ dir.removed = tt.removed /\ dir.file = tt.file /\ dir.unversioned = tt.unversioned
    BY <1>0, <2>2 DEF Transforms
  <2> HIDE DEF dir
  <2>5. dir \in Transforms
    BY <1>0, <1>1, <2>1, <2>2 DEF Transforms, Paths, Kinds
  <2> QED BY <1>0, <1>1, <2>1, <2>3, <2>4, <2>5 DEF Transforms
<1> HIDE DEF dir
<1>5. \A u \in Children(tt, c.t) : /\ u \in Known(tt) \ {Root} /\ u # n /\ u \in Ids
                                   /\ FinalPath(tt, u).name \in Seq(Words)
  BY <1>0, <1>1, PathFacts DEF Children
<1>6. ASSUME NEW x \in Transforms
      PROVE  /\ moved(x) \in Transforms /\ moved(x).removed = x.removed
             /\ moved(x).created = x.created /\ moved(x).file = x.file
             /\ moved(x).unversioned = x.unversioned
             /\ \A u \in Children(tt, c.t) :
                  moved(x).path[u] = [up |-> n, name |-> FinalPath(tt, u).name]
             /\ \A u \in Ids : u \notin Children(tt, c.t) => moved(x).path[u] = x.path[u]
  <2> DEFINE paths == [u \in Ids |-> IF u \in Children(tt, c.t)
                                     THEN [up |-> n, name |-> FinalPath(tt, u).name]
                                     ELSE x.path[u]]
  <2>1. moved(x) = [x EXCEPT !.path = paths]
    OBVIOUS
  <2>2. paths \in [Ids -> Paths]
    BY <1>1, <1>5 DEF Transforms, Paths
  <2>3. /\ \A u \in Children(tt, c.t) : paths[u] = [up |-> n, name |-> FinalPath(tt, u).name]
        /\ \A u \in Ids : u \notin Children(tt, c.t) => paths[u] = x.path[u]
    BY <1>5
  <2> HIDE DEF paths, moved
  <2> QED BY <2>1, <2>2, <2>3 DEF Transforms
<1> HIDE DEF moved
<1>7. CASE file = None
  <2>1. tt' = moved(dir)
    BY <1>3, <1>7
  <2> QED BY <1>0, <1>1, <1>4, <1>5, <1>6, <2>1 DEF PathChanged
<1>8. CASE file # None
  <2>1. PICK x \in Version(dir, n, file) :
               tt' = [moved(x) EXCEPT !.unversioned = @ \cup {c.t}]
    BY <1>3, <1>8
  <2>2. x = [dir EXCEPT !.file[n] = file] /\ \A u \in Ids : dir.file[u] # file
    BY DEF Version
  <2>3. file \in Ids
    BY <1>0, <1>8, LayoutFacts DEF FinalFile, TreeFile, Transforms
  <2> HIDE DEF file
  <2>4. /\ x \in Transforms /\ x.path = dir.path /\ x.removed = dir.removed
        /\ x.created = dir.created /\ x.unversioned = dir.unversioned
        /\ x.file = [dir.file EXCEPT ![n] = file]
    BY <1>1, <1>4, <2>2, <2>3 DEF Transforms
  <2>5. x.file[n] = file /\ \A u \in Ids \ {n} : x.file[u] = dir.file[u]
    BY <1>1, <1>4, <2>4 DEF Transforms
  <2>6. /\ moved(x) \in Transforms /\ moved(x).removed = x.removed
        /\ moved(x).created = x.created /\ moved(x).file = x.file
        /\ moved(x).unversioned = x.unversioned
        /\ \A u \in Children(tt, c.t) :
             moved(x).path[u] = [up |-> n, name |-> FinalPath(tt, u).name]
        /\ \A u \in Ids : u \notin Children(tt, c.t) => moved(x).path[u] = x.path[u]
    BY <1>6, <2>4
  <2>7. /\ tt' \in Transforms /\ tt'.removed = x.removed /\ tt'.created = x.created
        /\ tt'.file = x.file /\ tt'.unversioned = x.unversioned \cup {c.t}
        /\ tt'.path = moved(x).path
    BY <1>0, <2>1, <2>6 DEF Transforms
  <2>8. tt'.path[n] = dir.path[n] /\ \A u \in Ids \ {n} : u \notin Children(tt, c.t) =>
                                       tt'.path[u] = tt.path[u]
    BY <1>1, <1>4, <1>5, <2>4, <2>6, <2>7
  <2>9. tt'.file[n] # None /\ \A u \in Ids : tt.file[u] # tt'.file[n]
    BY <1>4, <1>8, <2>2, <2>5, <2>7
  <2>10. PathChanged(tt', n) /\ tt'.path[n].up = Parent(tt, c.t)
    BY <1>4, <2>8 DEF PathChanged
  <2>11. \A u \in Ids \ {n} : tt'.file[u] = tt.file[u]
    BY <1>4, <2>5, <2>7
  <2> QED BY <1>1, <1>4, <1>5, <2>4, <2>6, <2>7, <2>8, <2>9, <2>10, <2>11
<1> QED BY <1>7, <1>8

(* What it has in limbo, and the children with it, stay apart.                *)
LEMMA BesideApart ==
  ASSUME NEW c, Resolving(c), NEW n, Unused(tt) # {}, n = Lowest(Unused(tt)),
         tt' \in Beside(c.t, n), limbo' = BesideLimbo(tt', c.t, n)
  PROVE  /\ LimboApart' /\ limbo' \in [Ids -> Places]
         /\ \A u \in Ids : limbo'[u] = Gone <=> tt'.created[u] = None
<1>0. /\ TTypeOK /\ TransformOK /\ LimboApart /\ tt \in Transforms /\ layout \in Layouts
      /\ c.t \in Known(tt) \ {Root} /\ c.t \in Ids \ {Root}
      /\ limbo \in [Ids -> Places]
      /\ \A u \in Ids : limbo[u] = Gone <=> tt.created[u] = None
  BY ResolvingFacts DEF Resolving, TransformInv, TTypeOK, PlanningOK, Planning
<1>a. "directory" # None
  BY <1>0, LayoutFacts
<1>1. /\ n \in Fresh /\ n \in Ids \ {Root} /\ n \notin Known(tt)
      /\ tt.created[n] = None /\ tt.path[n] = NoPath
      /\ tt' \in Transforms
      /\ \A u \in Children(tt, c.t) : /\ u \in Known(tt) \ {Root} /\ u # n
                                      /\ tt'.path[u] = [up |-> n, name |-> FinalPath(tt, u).name]
      /\ tt'.path[n].up = Parent(tt, c.t) /\ PathChanged(tt', n)
      /\ \A u \in Ids \ {n} : u \notin Children(tt, c.t) => tt'.path[u] = tt.path[u]
      /\ tt'.created[n] = "directory" /\ \A u \in Ids \ {n} : tt'.created[u] = tt.created[u]
  BY BesideFacts
<1>2. Parent(tt, c.t) \in Known(tt) /\ Known(tt) \subseteq Ids
  BY <1>0, ParentKnown, PathFacts
<1> DEFINE place == LimboPlace(tt', limbo, n)
           inside(u) == u \in Children(tt, c.t) /\ limbo[u] \notin {Gone, Limbo(u)}
           within(u) == [dir |-> NewContents(n), name |-> tt'.path[u].name]
<1>3. /\ limbo' = [u \in Ids |-> IF u = n THEN place ELSE IF inside(u) THEN within(u) ELSE limbo[u]]
  BY DEF BesideLimbo
<1>4. /\ place \in Places /\ place # Gone
      /\ \/ place = Limbo(n)
         \/ /\ tt'.created[tt'.path[n].up] = "directory"
            /\ place = [dir |-> NewContents(tt'.path[n].up), name |-> tt'.path[n].name]
            /\ \A u \in Ids \ {n} : limbo[u] # place
  BY <1>0, <1>1, LimboPlaceFacts
<1> HIDE DEF place
<1>5. /\ \A u \in Ids : \/ limbo[u] \in {Gone, Limbo(u)}
                        \/ /\ PathChanged(tt, u) /\ tt.created[tt.path[u].up] = "directory"
                           /\ limbo[u] = Inside(u)
      /\ limbo[Root] = Gone
      /\ \A u, v \in Ids : limbo[u] = limbo[v] /\ limbo[u] # Gone => u = v
  BY <1>0 DEF LimboApart
<1>6. ASSUME NEW u \in Ids, inside(u)
      PROVE  /\ u # n /\ limbo[u] = Inside(u) /\ tt.path[u].up = c.t
             /\ tt'.path[u].name = tt.path[u].name /\ tt'.path[u].up = n
             /\ tt'.path[u] # NoPath
             /\ within(u) \in Places
             /\ tt.created[u] # None /\ u # Root /\ limbo'[u] = within(u)
  <2>1. u \in Known(tt) \ {Root} /\ u # n /\ tt'.path[u] = [up |-> n, name |-> FinalPath(tt, u).name]
    BY <1>1, <1>6
  <2>2. PathChanged(tt, u) /\ limbo[u] = Inside(u)
    BY <1>5, <1>6
  <2>3. FinalPath(tt, u) = tt.path[u] /\ tt.path[u].name \in Seq(Words)
    BY <1>0, <2>2, PathFacts
  <2>4. tt.path[u].up = c.t
    BY <1>6, <2>3 DEF Children, Parent
  <2>5. tt'.path[u].name \in Seq(Words) /\ tt'.path[u].up = n /\ tt'.path[u].name = tt.path[u].name
    BY <2>1, <2>3
  <2>6. within(u) \in Places
    BY <1>1, <2>5, PlaceFacts
  <2>7. tt'.path[u] # NoPath
    BY <1>0, <1>1, <2>5, LayoutFacts DEF NoPath
  <2> QED BY <1>0, <1>3, <1>6, <2>1, <2>2, <2>4, <2>5, <2>6, <2>7
<1> HIDE DEF inside, within
<1>7. ASSUME NEW u \in Ids \ {n}, ~inside(u) PROVE limbo'[u] = limbo[u]
  BY <1>3, <1>7
<1>8. limbo'[n] = place
  BY <1>1, <1>3
<1>9. limbo' \in [Ids -> Places]
  BY <1>0, <1>3, <1>4, <1>6
<1>10. \A u \in Ids : limbo'[u] = Gone <=> tt'.created[u] = None
  <2>1. ASSUME NEW u \in Ids, inside(u) PROVE within(u) # Gone
    BY PlaceFacts DEF within
  <2> QED BY <1>0, <1>1, <1>4, <1>6, <1>7, <1>8, <1>a, <2>1
<1>11. limbo'[Root] = Gone
  <2>1. ~inside(Root) /\ Root \in Ids \ {n}
    BY <1>1, <1>6, IdsFinite
  <2> QED BY <1>5, <1>7, <2>1
<1>12. ASSUME NEW u \in Ids
       PROVE  \/ limbo'[u] \in {Gone, Limbo(u)}
              \/ /\ PathChanged(tt', u) /\ tt'.created[tt'.path[u].up] = "directory"
                 /\ limbo'[u] = [dir |-> NewContents(tt'.path[u].up), name |-> tt'.path[u].name]
  <2>1. CASE u = n
    BY <1>1, <1>4, <1>8, <2>1
  <2>2. CASE inside(u)
    BY <1>1, <1>6, <2>2 DEF within, PathChanged
  <2>3. CASE u # n /\ ~inside(u)
    <3>1. limbo'[u] = limbo[u]
      BY <1>7, <2>3
    <3>2. CASE limbo[u] \notin {Gone, Limbo(u)}
      <4>1. /\ PathChanged(tt, u) /\ tt.created[tt.path[u].up] = "directory"
            /\ limbo[u] = Inside(u)
        BY <1>5, <3>2
      <4>2. tt'.path[u] = tt.path[u] /\ tt.path[u].up \in Ids
        <5>1. u \notin Children(tt, c.t)
          BY <2>3, <3>2 DEF inside
        <5>2. tt.path[u].up \in Ids
          BY <1>0, <4>1, PathFacts
        <5> QED BY <1>1, <2>3, <5>1, <5>2
      <4>3. tt'.created[tt'.path[u].up] = "directory"
        BY <1>1, <1>a, <4>1, <4>2
      <4> QED BY <3>1, <4>1, <4>2, <4>3 DEF PathChanged, Inside
    <3> QED BY <3>1, <3>2
  <2> QED BY <2>1, <2>2, <2>3
<1>13. ASSUME NEW u \in Ids, NEW v \in Ids, limbo'[u] = limbo'[v], limbo'[u] # Gone, inside(u)
       PROVE  u = v
  <2>0. limbo'[u] = within(u) /\ limbo[u] = Inside(u) /\ u # n
    BY <1>6, <1>13
  <2>1. CASE inside(v)
    <3>1. limbo'[v] = within(v) /\ limbo[v] = Inside(v) /\ tt.path[u] = tt.path[u]
          /\ tt.path[u].up = tt.path[v].up
          /\ tt'.path[u].name = tt.path[u].name /\ tt'.path[v].name = tt.path[v].name
      BY <1>6, <1>13, <2>1
    <3>2. tt.path[u].name = tt.path[v].name
      <4>1. within(u) = within(v)
        BY <1>13, <2>0, <3>1
      <4>2. within(u).name = tt'.path[u].name /\ within(v).name = tt'.path[v].name
        BY DEF within
      <4> QED BY <3>1, <4>1, <4>2
    <3>3. limbo[u] = limbo[v] /\ limbo[u] # Gone
      <4>1. Inside(u) = Inside(v)
        BY <3>1, <3>2 DEF Inside
      <4>2. limbo[u] # Gone
        BY <1>13 DEF inside
      <4> QED BY <2>0, <3>1, <4>1, <4>2
    <3> QED BY <1>5, <3>3
  <2>2. CASE v = n
    <3>1. tt'.path[n].up # n
      BY <1>1, <1>2
    <3>2. within(u).dir = NewContents(n)
      BY DEF within
    <3>3. place # within(u)
      <4>1. CASE place = Limbo(n)
        BY <4>1, PlaceFacts DEF within
      <4>2. CASE place = [dir |-> NewContents(tt'.path[n].up), name |-> tt'.path[n].name]
        <5>1. place.dir = NewContents(tt'.path[n].up)
          BY <4>2
        <5> QED BY <3>1, <3>2, <5>1, InodeFacts
      <4> QED BY <1>4, <4>1, <4>2
    <3> QED BY <1>8, <1>13, <2>0, <2>2, <3>3
  <2>3. CASE v # n /\ ~inside(v)
    <3>1. limbo[v] = within(u)
      BY <1>7, <1>13, <2>0, <2>3
    <3>2. within(u) # Gone /\ within(u) # Limbo(v)
      BY PlaceFacts DEF within
    <3>3. PathChanged(tt, v) /\ Inside(v) = within(u)
      BY <1>5, <3>1, <3>2
    <3>4. NewContents(tt.path[v].up) = NewContents(n)
      BY <3>3 DEF within, Inside
    <3>5. tt.path[v].up = n
      BY <3>4, InodeFacts
    <3> QED BY <1>0, <1>1, <3>3, <3>5 DEF TransformOK
  <2> QED BY <2>1, <2>2, <2>3
<1>14. ASSUME NEW u \in Ids, NEW v \in Ids, limbo'[u] = limbo'[v], limbo'[u] # Gone PROVE u = v
  <2>1. CASE inside(u) \/ inside(v)
    BY <1>13, <1>14, <2>1
  <2>2. CASE u = n /\ v # n /\ ~inside(v)
    <3>1. limbo[v] = place
      BY <1>7, <1>8, <1>14, <2>2
    <3>2. place = Limbo(n)
      BY <1>4, <2>2, <3>1
    <3>3. Inside(v) # Limbo(n) /\ Limbo(v) # Limbo(n)
      BY <2>2, PlaceFacts DEF Inside
    <3> QED BY <1>4, <1>5, <3>1, <3>2, <3>3
  <2>3. CASE v = n /\ u # n /\ ~inside(u)
    <3>1. limbo[u] = place
      BY <1>7, <1>8, <1>14, <2>3
    <3>2. place = Limbo(n)
      BY <1>4, <2>3, <3>1
    <3>3. Inside(u) # Limbo(n) /\ Limbo(u) # Limbo(n)
      BY <2>3, PlaceFacts DEF Inside
    <3> QED BY <1>4, <1>5, <3>1, <3>2, <3>3
  <2>4. CASE u # n /\ v # n /\ ~inside(u) /\ ~inside(v)
    BY <1>5, <1>7, <1>14, <2>4
  <2> QED BY <2>1, <2>2, <2>3, <2>4
<1>15. LimboApart'
  BY <1>11, <1>12, <1>14 DEF LimboApart, Inside, PathChanged, NoPath, Limbo, Gone, NewContents, Ids
<1> QED BY <1>9, <1>10, <1>15

(* The children of a file go into a new directory beside it.                  *)
LEMMA BesideKeeps ==
  ASSUME NEW c, Resolving(c), stage' = stage, NEW n, Unused(tt) # {}, n = Lowest(Unused(tt)),
         tt' \in Beside(c.t, n), limbo' = BesideLimbo(tt', c.t, n),
         disk' = [i \in Inodes |-> IF i[2] = "new" /\ limbo'[i[1]] # limbo[i[1]]
                                   THEN limbo'[i[1]] ELSE disk[i]]
  PROVE  TransformInv'
<1>0. /\ TTypeOK /\ TransformOK /\ PlanningOK /\ ConflictsOK /\ Planning
      /\ tt \in Transforms /\ layout \in Layouts
      /\ c.t \in Known(tt) \ {Root} /\ c.t \in Ids \ {Root} /\ stage = "resolve"
      /\ layout' = layout /\ past' = past /\ inventory' = inventory /\ todo' \subseteq todo
      /\ disk \in [Inodes -> Places] /\ past \in Seq([inode : Inodes, from : Places])
      /\ limbo \in [Ids -> Places]
  BY ResolvingFacts DEF Resolving, TransformInv, TTypeOK, Planning
<1>a. "directory" # None /\ Known(tt) \subseteq Ids
  BY <1>0, LayoutFacts, PathFacts
<1>1. /\ n \in Fresh /\ n \in Ids \ {Root} /\ n \notin Known(tt) /\ n \notin Old
      /\ tt.created[n] = None /\ tt.file[n] = None /\ tt.path[n] = NoPath
      /\ tt' \in Transforms /\ tt'.removed = tt.removed
      /\ \A u \in Children(tt, c.t) : /\ u \in Known(tt) \ {Root} /\ u # n
                                      /\ tt'.path[u] = [up |-> n, name |-> FinalPath(tt, u).name]
      /\ tt'.path[n].up = Parent(tt, c.t) /\ PathChanged(tt', n)
      /\ \A u \in Ids \ {n} : u \notin Children(tt, c.t) => tt'.path[u] = tt.path[u]
      /\ tt'.created[n] = "directory" /\ \A u \in Ids \ {n} : tt'.created[u] = tt.created[u]
  BY BesideFacts
<1>b. ASSUME NEW u \in Children(tt, c.t) PROVE tt'.path[u].up = n /\ tt'.path[u] # NoPath
  <2>1. tt'.path[u] = [up |-> n, name |-> FinalPath(tt, u).name]
    BY <1>1
  <2>2. tt'.path[u].up = n
    BY <2>1
  <2>3. n # None
    BY <1>0, <1>1, LayoutFacts
  <2> QED BY <2>2, <2>3 DEF NoPath
<1>2. \/ tt'.file = tt.file /\ tt'.unversioned = tt.unversioned
      \/ /\ tt'.file[n] # None /\ \A u \in Ids : tt.file[u] # tt'.file[n]
         /\ \A u \in Ids \ {n} : tt'.file[u] = tt.file[u]
         /\ tt'.unversioned = tt.unversioned \cup {c.t}
  BY BesideFacts
<1>3. /\ LimboApart' /\ limbo' \in [Ids -> Places]
      /\ \A u \in Ids : limbo'[u] = Gone <=> tt'.created[u] = None
  BY BesideApart
<1>4. disk' \in [Inodes -> Places]
  <2>1. \A i \in Inodes : i[2] = "new" => i[1] \in Ids
    BY InodeFacts
  <2> QED BY <1>0, <1>3, <2>1
<1>5. /\ \A u \in Ids : disk'[OldContents(u)] = disk[OldContents(u)]
      /\ \A u \in Ids \ {Root} : disk'[NewContents(u)] =
           IF limbo'[u] # limbo[u] THEN limbo'[u] ELSE disk[NewContents(u)]
  <2>1. "old" # "new"
    OBVIOUS
  <2> QED BY <2>1, InodeFacts
<1>6. TTypeOK'
  BY <1>0, <1>1, <1>3, <1>4
     DEF TTypeOK, Transforms, Paths, NoPath, Ids, Inodes, Places, Dirs, Kinds
<1>7. /\ Known(tt)' = Known(tt')
      /\ \A t : /\ PathChanged(tt, t)' = PathChanged(tt', t) /\ Original(t)' = Original(t)
  BY <1>0, SameTree
<1>8. \A u \in Ids : PathChanged(tt, u) => PathChanged(tt', u)
  <2> SUFFICES ASSUME NEW u \in Ids, PathChanged(tt, u) PROVE PathChanged(tt', u)
    OBVIOUS
  <2>1. CASE u \in Children(tt, c.t)
    BY <1>b, <2>1 DEF PathChanged
  <2>2. CASE u \notin Children(tt, c.t)
    BY <1>1, <2>2 DEF PathChanged
  <2> QED BY <2>1, <2>2
<1>9. Known(tt) \subseteq Known(tt') /\ n \in Known(tt')
  <2>1. ASSUME NEW u \in Known(tt) PROVE u \in Known(tt')
    <3>1. u \in Ids /\ (u = Root \/ u \in Old \/ PathChanged(tt, u))
      BY <1>0, PathFacts
    <3> QED BY <1>0, <1>1, <1>8, <3>1, PathFacts
  <2> QED BY <1>0, <1>1, <2>1, PathFacts
<1>10. TransformOK'
  <2>1. Root \in Ids \ {n} /\ Root \notin Children(tt, c.t)
    BY <1>1, IdsFinite
  <2>2. tt'.path[Root] = NoPath /\ tt'.created[Root] = None
    BY <1>0, <1>1, <2>1 DEF TransformOK
  <2>3. tt'.file[Root] = None /\ Root \notin tt'.unversioned
    BY <1>0, <1>1, <1>2, <2>1 DEF TransformOK
  <2>4. ASSUME NEW u \in Ids, PathChanged(tt', u) PROVE tt'.path[u].up \in Known(tt')
    <3>1. CASE u \in Children(tt, c.t)
      BY <1>b, <1>9, <3>1
    <3>2. CASE u = n
      BY <1>0, <1>1, <1>9, <3>2, ParentKnown
    <3>3. CASE u # n /\ u \notin Children(tt, c.t)
      BY <1>0, <1>1, <1>9, <2>4, <3>3 DEF TransformOK, PathChanged
    <3> QED BY <3>1, <3>2, <3>3
  <2>5. ASSUME NEW u \in Ids, tt'.created[u] # None \/ tt'.file[u] # None PROVE u \in Known(tt')
    BY <1>0, <1>1, <1>2, <1>9, <2>5 DEF TransformOK
  <2>6. \A u \in tt'.removed :
          /\ tt'.created[u] = "directory" => layout[u].kind # "directory"
          /\ tt'.created[u] = None => u \in tt'.unversioned
    <3>1. \A u \in tt.removed : u \in Ids \ {n}
      BY <1>0, <1>1, LayoutFacts DEF Transforms
    <3> QED BY <1>0, <1>1, <1>2, <3>1 DEF TransformOK
  <2>7. \A u, v \in Ids : tt'.file[u] = tt'.file[v] /\ tt'.file[u] # None => u = v
    BY <1>0, <1>2 DEF TransformOK
  <2>8. \A u \in Old : tt'.file[u] \in {u, None}
    BY <1>0, <1>1, <1>2, LayoutFacts DEF TransformOK
  <2> QED BY <1>0, <1>7, <2>2, <2>3, <2>4, <2>5, <2>6, <2>7, <2>8 DEF TransformOK, NoPath, Ids
<1>11. ConflictsOK'
  BY <1>0, <1>7, <1>8, <1>9, <1>a, ConflictsStep
<1>12. PlanningOK'
  <2>1. /\ past = <<>>
        /\ \A u \in Old : disk[OldContents(u)] = Original(u)
        /\ \A u \in Ids \ {Root} : disk[NewContents(u)] = limbo[u]
    BY <1>0 DEF PlanningOK
  <2>2. \A u \in Ids \ {Root} : disk'[NewContents(u)] = limbo'[u]
    BY <1>5, <2>1
  <2>3. \A u \in Old : disk'[OldContents(u)] = Original(u)'
    BY <1>0, <1>5, <1>7, <2>1, LayoutFacts
  <2> QED BY <1>0, <1>3, <2>1, <2>2, <2>3 DEF PlanningOK, OldContents, NewContents, Gone, Ids
<1> QED BY <1>0, <1>3, <1>5, <1>6, <1>10, <1>11, <1>12, PlanningRest DEF Resolving

(* The entry of a loop that conflict_pass looks for first is moved itself.    *)
LEMMA FirstMovedIs ==
  ASSUME NEW t \in Ids, PathChanged(tt, t)
  PROVE  FirstMoved(t) = t
<1> DEFINE N == Cardinality(Ids)
           Row(g, i) == [u \in Ids |-> IF PathChanged(tt, u) \/ u = Root \/ i = 0 THEN u
                                       ELSE g[i - 1][Parent(tt, u)]]
           Goes(n, g) == g = [i \in 0 .. n |-> Row(g, i)]
           W == CHOOSE g : Goes(N, g)
<1>0. N \in Nat
  BY IdsFinite
<1>1. FirstMoved(t) = W[N][t]
  BY DEF FirstMoved
<1> HIDE DEF N
<1>2. \E g : Goes(N, g)
  <2> DEFINE S == {n \in Nat : \E g : Goes(n, g)}
  <2>1. 0 \in S
    <3> DEFINE g == [i \in 0 .. 0 |-> [u \in Ids |-> u]]
    <3>1. Goes(0, g)
      <4>1. \A i \in 0 .. 0 : Row(g, i) = [u \in Ids |-> u]
        OBVIOUS
      <4> HIDE DEF Row
      <4> QED BY <4>1
    <3> HIDE DEF g
    <3> QED BY <3>1
  <2>2. ASSUME NEW n \in Nat, n \in S PROVE n + 1 \in S
    <3>1. PICK g : Goes(n, g)
      BY <2>2
    <3> DEFINE h == [i \in 0 .. n + 1 |-> IF i <= n THEN g[i] ELSE Row(g, i)]
    <3>2. ASSUME NEW i \in 0 .. n + 1 PROVE h[i] = Row(h, i)
      <4>1. h[i] = Row(g, i)
        <5> HIDE DEF Row
        <5> QED BY <3>1
      <4>2. i # 0 => h[i - 1] = g[i - 1]
        OBVIOUS
      <4> HIDE DEF h
      <4>3. Row(g, i) = Row(h, i)
        BY <4>2
      <4> QED BY <4>1, <4>3
    <3>3. Goes(n + 1, h)
      <4> HIDE DEF Row
      <4> QED BY <3>2
    <3> HIDE DEF h, Goes
    <3> QED BY <3>3
  <2> HIDE DEF S
  <2>3. \A n \in Nat : n \in S
    BY <2>1, <2>2, NatSetInduction
  <2> QED BY <1>0, <2>3 DEF S
<1>3. Goes(N, W)
  <2> HIDE DEF Goes
  <2> QED BY <1>2
<1> HIDE DEF W
<1>4. N \in 0 .. N
  BY <1>0
<1>5. W[N] = Row(W, N)
  <2> HIDE DEF Row
  <2> QED BY <1>3, <1>4
<1> QED BY <1>1, <1>5

(* conflict_pass: every resolution keeps the invariant.                       *)
LEMMA ResolveKeeps ==
  ASSUME TransformInv, NEW c \in todo, Resolve(c)
  PROVE  TransformInv'
<1>0. Resolving(c) /\ layout' = layout /\ past' = past /\ inventory' = inventory /\ stage = "resolve"
  BY DEF Resolve, Resolving, TransformInv, ConflictsOK
<1>1. /\ layout \in Layouts /\ tt \in Transforms
      /\ c.t \in Known(tt) \ {Root} /\ c.t \in Ids \ {Root}
  BY <1>0, ResolvingFacts
<1>2. CASE /\ c.type = "unversioned parent"
           /\ LET versioned == Version(tt, c.t, TreeFile(c.t)) IN
              IF versioned = {} THEN Raise
              ELSE tt' \in versioned /\ UNCHANGED <<stage, limbo, disk>>
  <2>1. CASE Raise
    BY <1>0, <2>1, RaiseKeeps
  <2>2. CASE tt' \in Version(tt, c.t, TreeFile(c.t)) /\ UNCHANGED <<stage, limbo, disk>>
    BY <1>0, <2>2, UnversionedParentKeeps
  <2> QED BY <1>2, <2>1, <2>2
<1>3. CASE /\ c.type = "parent loop"
           /\ LET t == FirstMoved(c.t) IN
              IF t \in Fresh THEN Raise
              ELSE /\ tt' = Adjusted(tt, t, layout[t].up, FinalPath(tt, t).name)
                   /\ Adjust(tt', t) /\ UNCHANGED stage
  <2>1. FirstMoved(c.t) = c.t
    BY <1>0, <1>1, <1>3, FirstMovedIs DEF Resolving, ConflictOK
  <2>2. CASE Raise
    BY <1>0, <2>2, RaiseKeeps
  <2>3. CASE ~Raise
    <3>1. /\ c.t \notin Fresh /\ tt' = Adjusted(tt, c.t, layout[c.t].up, FinalPath(tt, c.t).name)
          /\ Adjust(tt', c.t) /\ stage' = stage
      BY <1>3, <2>1, <2>3
    <3>2. c.t \in Old
      BY <1>1, <3>1, LayoutFacts
    <3> QED BY <1>0, <3>1, <3>2, ParentLoopKeeps
  <2> QED BY <2>2, <2>3
<1>4. CASE /\ c.type = "duplicate"
           /\ tt' = Adjusted(tt, Loser(c), Parent(tt, c.t), Moved(FinalPath(tt, Loser(c)).name))
           /\ Adjust(tt', Loser(c)) /\ UNCHANGED stage
  BY <1>0, <1>4, DuplicateKeeps
<1>5. CASE /\ c.type = "duplicate id"
           /\ tt' = [tt EXCEPT !.unversioned = @ \cup {c.t}]
           /\ UNCHANGED <<stage, limbo, disk>>
  BY <1>0, <1>5, DuplicateIdKeeps
<1>6. CASE /\ c.type = "missing parent"
           /\ IF c.t \in tt.removed
              THEN /\ tt' = [tt EXCEPT !.removed = @ \ {c.t}]
                   /\ UNCHANGED <<stage, limbo, disk>>
              ELSE /\ tt' = [tt EXCEPT !.created[c.t] = "directory"]
                   /\ Create(tt', c.t) /\ UNCHANGED stage
  <2>1. CASE c.t \in tt.removed
    BY <1>0, <1>6, <2>1, KeptParentKeeps
  <2>2. CASE c.t \notin tt.removed
    BY <1>0, <1>6, <2>2, NewParentKeeps
  <2> QED BY <2>1, <2>2
<1>7. CASE /\ c.type = "non-directory parent" /\ Unused(tt) # {}
           /\ LET n == Lowest(Unused(tt)) IN
              IF Beside(c.t, n) = {} THEN Raise
              ELSE /\ tt' \in Beside(c.t, n)
                   /\ limbo' = BesideLimbo(tt', c.t, n)
                   /\ disk' = [i \in Inodes |-> IF i[2] = "new" /\ limbo'[i[1]] # limbo[i[1]]
                                                THEN limbo'[i[1]] ELSE disk[i]]
                   /\ UNCHANGED stage
  <2>1. CASE Raise
    BY <1>0, <2>1, RaiseKeeps
  <2>2. CASE ~Raise
    <3> DEFINE n == Lowest(Unused(tt))
    <3>1. /\ Unused(tt) # {} /\ tt' \in Beside(c.t, n) /\ limbo' = BesideLimbo(tt', c.t, n)
          /\ disk' = [i \in Inodes |-> IF i[2] = "new" /\ limbo'[i[1]] # limbo[i[1]]
                                       THEN limbo'[i[1]] ELSE disk[i]]
          /\ stage' = stage
      BY <1>7, <2>2
    <3> QED BY <1>0, <3>1, BesideKeeps
  <2> QED BY <2>1, <2>2
<1>8. CASE /\ c.type = "versioning no contents"
           /\ tt' = [tt EXCEPT !.file[c.t] = None]
           /\ UNCHANGED <<stage, limbo, disk>>
  BY <1>0, <1>8, NoContentsKeeps
<1>9. CASE c.type = "overwrite" /\ UNCHANGED <<tt, limbo, disk, stage>>
  BY <1>0, <1>9, NothingKeeps
<1> QED BY <1>2, <1>3, <1>4, <1>5, <1>6, <1>7, <1>8, <1>9 DEF Resolve

-----------------------------------------------------------------------------
(* A transform without conflicts *)

(* Without a parent loop, all ways up end at the root.                        *)
LEMMA NoLoops ==
  ASSUME TTypeOK, TransformOK, Looping(tt) = {}
  PROVE  \A S \in SUBSET (Known(tt) \ {Root}) : S # {} => \E t \in S : Parent(tt, t) \notin S
<1>0. layout \in Layouts /\ tt \in Transforms /\ Upward(tt) /\ Known(tt) \subseteq Ids /\ None \notin Ids
  BY PathFacts, LayoutFacts DEF TTypeOK
<1> SUFFICES ASSUME NEW R \in SUBSET (Known(tt) \ {Root}), R # {}, \A t \in R : Parent(tt, t) \in R
             PROVE  FALSE
  OBVIOUS
<1> DEFINE F == {S \in SUBSET (Known(tt) \ {Root}) : Trap(tt, S)}
<1>1. R \in F /\ F \subseteq SUBSET Ids
  BY <1>0 DEF Trap
<1>2. PICK S \in F : \A B \in F : B \subseteq S => B = S
  <2> HIDE DEF F
  <2> QED BY <1>1, SmallestSet
<1>3. S \subseteq Known(tt) \ {Root} /\ S # {} /\ \A t \in S : Parent(tt, t) \in S
  BY DEF Trap
<1>4. ASSUME NEW t \in S PROVE t \in Above(tt, t)
  <2>1. Closed(tt, S) /\ t \in Ids /\ Parent(tt, t) \in S /\ Parent(tt, t) # None
    BY <1>0, <1>3 DEF Closed
  <2>2. /\ Above(tt, t) \subseteq S /\ Parent(tt, t) \in Above(tt, t)
        /\ Closed(tt, Above(tt, t))
    BY <1>0, <2>1, AboveFacts
  <2>3. \A u \in Above(tt, t) : Parent(tt, u) \in Above(tt, t)
    BY <1>0, <1>3, <2>2 DEF Closed
  <2>4. Above(tt, t) \in F
    BY <1>3, <2>2, <2>3 DEF Trap
  <2> QED BY <1>2, <2>2, <2>4
<1>5. \A t \in S : ~PathChanged(tt, t)
  BY <1>3, <1>4 DEF Looping
<1>6. \A t \in S : t \in Old /\ Parent(tt, t) = layout[t].up
  BY <1>0, <1>3, <1>5, PathFacts DEF Parent
<1>7. S \in SUBSET Old
  BY <1>6
<1>8. \E t \in S : layout[t].up \notin S
  BY <1>0, <1>3, <1>7, LayoutFacts
<1> QED BY <1>3, <1>6, <1>8

(* Without duplicates, entries that exist have paths of their own.            *)
LEMMA NoDuplicates ==
  ASSUME TTypeOK, TransformOK, (\A t \in Ids : ~PathChanged(tt, t)) \/ Duplicates(tt) = {}
  PROVE  \A t, u \in Known(tt) \ {Root} :
           Exists(tt, t) /\ Exists(tt, u) /\ FinalPath(tt, t) = FinalPath(tt, u) => t = u
<1>0. /\ layout \in Layouts /\ tt \in Transforms /\ Known(tt) \subseteq Ids
      /\ Ids \subseteq Nat /\ Root = 0
  BY PathFacts, TransformAssumption DEF TTypeOK, Ids, Root
<1>a. \A t \in Known(tt) : t \in Nat
  BY <1>0
<1>1. CASE \A t \in Ids : ~PathChanged(tt, t)
  <2>1. ASSUME NEW t \in Known(tt) \ {Root}, NEW u \in Known(tt) \ {Root},
               FinalPath(tt, t) = FinalPath(tt, u)
        PROVE  t = u
    <3>1. t \in Old /\ u \in Old
      BY <1>0, <1>1, PathFacts
    <3>2. /\ FinalPath(tt, t) = [up |-> layout[t].up, name |-> layout[t].name]
          /\ FinalPath(tt, u) = [up |-> layout[u].up, name |-> layout[u].name]
      BY <1>0, <1>1, <3>1, PathFacts
    <3>3. [up |-> layout[t].up, name |-> layout[t].name] = [up |-> layout[u].up, name |-> layout[u].name]
      BY <2>1, <3>2
    <3>4. layout[t].up = layout[u].up /\ layout[t].name = layout[u].name
      BY <3>3
    <3> QED BY <1>0, <3>1, <3>4, LayoutFacts
  <2> QED BY <2>1
<1>2. CASE Duplicates(tt) = {}
  <2>1. ASSUME NEW t \in Known(tt) \ {Root}, NEW u \in Known(tt) \ {Root}, t < u,
               Exists(tt, t), Exists(tt, u), FinalPath(tt, t) = FinalPath(tt, u)
        PROVE  FALSE
    <3> DEFINE D == {v \in Known(tt) \ {Root} :
                       t < v /\ Exists(tt, v) /\ FinalPath(tt, v) = FinalPath(tt, t)}
    <3>1. u \in D /\ D \subseteq Nat
      BY <1>0, <2>1
    <3>2. PICK m \in D : \A v \in D : m <= v
      <4> HIDE DEF D
      <4> QED BY <3>1, LeastNat
    <3>3. ~\E v \in Known(tt) : /\ t < v /\ v < m /\ Exists(tt, v)
                              /\ FinalPath(tt, v) = FinalPath(tt, t)
      <4> SUFFICES ASSUME NEW v \in Known(tt), t < v, v < m, Exists(tt, v),
                          FinalPath(tt, v) = FinalPath(tt, t)
                   PROVE  FALSE
        OBVIOUS
      <4>1. v # Root /\ t \in Nat /\ v \in Nat /\ m \in Nat
        <5>1. t \in Nat /\ v \in Nat /\ m \in Nat
          BY <1>a
        <5> QED BY <1>0, <5>1
      <4>2. v \in D
        BY <4>1
      <4> QED BY <3>2, <4>1, <4>2
    <3>4. <<t, m>> \in Duplicates(tt)
      <4>1. /\ m \in Known(tt) \ {Root} /\ t < m /\ Exists(tt, m)
            /\ FinalPath(tt, m) = FinalPath(tt, t)
        OBVIOUS
      <4> HIDE DEF D
      <4> QED BY <2>1, <3>3, <4>1 DEF Duplicates
    <3> QED BY <1>2, <3>4
  <2>2. \A t, u \in Known(tt) \ {Root} : t < u \/ u < t \/ t = u
    BY <1>a
  <2> QED BY <2>1, <2>2
<1> QED BY <1>1, <1>2

(* find_conflicts finds nothing: what it looks for is not there.              *)
LEMMA NothingFound ==
  ASSUME FindConflicts(tt) = {}
  PROVE  /\ \A q \in Known(tt) : FinalFile(tt, q) = None =>
              \A t \in Children(tt, q) : FinalFile(tt, t) = None
         /\ Looping(tt) = {}
         /\ (\A t \in Ids : ~PathChanged(tt, t)) \/ Duplicates(tt) = {}
         /\ \A u \in Ids : tt.file[u] \in Old /\ TreeFile(tt.file[u]) # None =>
              tt.file[u] \in tt.unversioned
         /\ \A q \in Known(tt) : FinalKind(tt, q) # "directory" =>
              \A t \in Children(tt, q) : FinalKind(tt, t) = None
         /\ \A u \in Ids : tt.file[u] # None => FinalKind(tt, u) # None
         /\ \A u \in Old : tt.created[u] # None => u \in tt.removed
<1>1. ASSUME NEW q \in Known(tt), FinalFile(tt, q) = None,
             NEW t \in Children(tt, q), FinalFile(tt, t) # None
      PROVE  FALSE
  <2>1. Conflict(1, "unversioned parent", q, None) \in FindConflicts(tt)
    BY <1>1 DEF FindConflicts
  <2> QED BY <2>1
<1>2. ASSUME NEW t \in Looping(tt) PROVE FALSE
  <2>1. Conflict(2, "parent loop", t, None) \in FindConflicts(tt)
    BY DEF FindConflicts
  <2> QED BY <2>1
<1>3. ASSUME NEW c \in Duplicates(tt), ~\A t \in Ids : ~PathChanged(tt, t) PROVE FALSE
  <2>1. Conflict(3, "duplicate", c[1], c[2]) \in FindConflicts(tt)
    BY <1>3 DEF FindConflicts
  <2> QED BY <2>1
<1>4. ASSUME NEW u \in Ids, tt.file[u] \in Old, TreeFile(tt.file[u]) # None,
             tt.file[u] \notin tt.unversioned
      PROVE  FALSE
  <2>1. Conflict(4, "duplicate id", tt.file[u], u) \in FindConflicts(tt)
    BY <1>4 DEF FindConflicts
  <2> QED BY <2>1
<1>5. ASSUME NEW q \in Known(tt), FinalKind(tt, q) # "directory",
             NEW t \in Children(tt, q), FinalKind(tt, t) # None
      PROVE  FALSE
  <2>1. Conflict(5, IF FinalKind(tt, q) = None THEN "missing parent" ELSE "non-directory parent",
                 q, None) \in FindConflicts(tt)
    BY <1>5 DEF FindConflicts
  <2> QED BY <2>1
<1>6. ASSUME NEW u \in Ids, tt.file[u] # None, FinalKind(tt, u) = None PROVE FALSE
  <2>1. Conflict(6, "versioning no contents", u, None) \in FindConflicts(tt)
    BY <1>6 DEF FindConflicts
  <2> QED BY <2>1
<1>7. ASSUME NEW u \in Old, tt.created[u] # None, u \notin tt.removed PROVE FALSE
  <2>1. Conflict(7, "overwrite", u, None) \in FindConflicts(tt)
    BY <1>7 DEF FindConflicts
  <2> QED BY <2>1
<1> QED BY <1>1, <1>2, <1>3, <1>4, <1>5, <1>6, <1>7

(* So a transform in which no conflict is found has none.                     *)
LEMMA CleanThen ==
  ASSUME TTypeOK, TransformOK, FindConflicts(tt) = {}
  PROVE  Clean
<1>1. \A t \in Known(tt) \ {Root} : Parent(tt, t) \in Known(tt) /\ t \in Children(tt, Parent(tt, t))
  BY ParentKnown DEF Children
<1>2. /\ \A q \in Known(tt) : FinalFile(tt, q) = None =>
           \A t \in Children(tt, q) : FinalFile(tt, t) = None
      /\ \A q \in Known(tt) : FinalKind(tt, q) # "directory" =>
           \A t \in Children(tt, q) : FinalKind(tt, t) = None
  BY NothingFound
<1>3. \A t \in Known(tt) \ {Root} :
        /\ FinalKind(tt, t) # None => FinalKind(tt, Parent(tt, t)) = "directory"
        /\ FinalFile(tt, t) # None => FinalFile(tt, Parent(tt, t)) # None
  BY <1>1, <1>2
<1>4. /\ \A u \in Ids : tt.file[u] \in Old /\ TreeFile(tt.file[u]) # None =>
           tt.file[u] \in tt.unversioned
      /\ \A u \in Ids : tt.file[u] # None => FinalKind(tt, u) # None
      /\ \A u \in Old : tt.created[u] # None => u \in tt.removed
  BY NothingFound
<1>5. Looping(tt) = {} /\ ((\A t \in Ids : ~PathChanged(tt, t)) \/ Duplicates(tt) = {})
  BY NothingFound
<1>6. \A t, u \in Known(tt) \ {Root} :
        Exists(tt, t) /\ Exists(tt, u) /\ FinalPath(tt, t) = FinalPath(tt, u) => t = u
  BY <1>5, NoDuplicates
<1>7. \A S \in SUBSET (Known(tt) \ {Root}) : S # {} => \E t \in S : Parent(tt, t) \notin S
  BY <1>5, NoLoops
<1> QED BY <1>3, <1>4, <1>6, <1>7 DEF Clean

(* While neither the tree nor the transform changes, what is planned stays.   *)
LEMMA SamePlan ==
  ASSUME layout' = layout, tt' = tt
  PROVE  /\ Known(tt)' = Known(tt) /\ OldInventory' = OldInventory
         /\ \A t : /\ PathChanged(tt, t)' = PathChanged(tt, t)
                   /\ FinalPath(tt, t)' = FinalPath(tt, t)
                   /\ Original(t)' = Original(t) /\ TreeFile(t)' = TreeFile(t)
                   /\ FinalKind(tt, t)' = FinalKind(tt, t)
                   /\ FinalFile(tt, t)' = FinalFile(tt, t)
                   /\ Parent(tt, t)' = Parent(tt, t) /\ Exists(tt, t)' = Exists(tt, t)
                   /\ Contents(t)' = Contents(t) /\ Placed(t)' = Placed(t)
                   /\ Moves(t)' = Moves(t) /\ Entry(t)' = Entry(t)
         /\ Real' = Real
<1> USE SameTree
<1>1. \A t : /\ PathChanged(tt, t)' = PathChanged(tt, t) /\ FinalPath(tt, t)' = FinalPath(tt, t)
             /\ Original(t)' = Original(t)
  BY DEF FinalPath, PathChanged, TreePath, NoPath
<1>2. \A t : TreeFile(t)' = TreeFile(t) /\ TreeKind(t)' = TreeKind(t)
  BY DEF TreeFile, TreeKind, Root
<1>3. \A t : /\ FinalKind(tt, t)' = FinalKind(tt, t) /\ FinalFile(tt, t)' = FinalFile(tt, t)
             /\ Parent(tt, t)' = Parent(tt, t)
  BY <1>1, <1>2 DEF FinalKind, FinalFile, Parent
<1>4. \A t : /\ Exists(tt, t)' = Exists(tt, t) /\ Moves(t)' = Moves(t)
             /\ Contents(t)' = Contents(t)
  BY <1>1, <1>3 DEF Exists, Moves, Contents, OldContents, NewContents
<1>5. \A t : Placed(t)' = Placed(t) /\ Entry(t)' = Entry(t)
  <2>1. ASSUME NEW t PROVE Placed(t)' = Placed(t)
    <3>1. Contents(Parent(tt, t))' = Contents(Parent(tt, t))
      BY <1>3 DEF Contents, OldContents, NewContents
    <3> QED BY <1>1, <3>1 DEF Placed
  <2>2. ASSUME NEW t PROVE Entry(t)' = Entry(t)
    <3>1. FinalFile(tt, Parent(tt, t))' = FinalFile(tt, Parent(tt, t))
      BY <1>2, <1>3 DEF FinalFile
    <3> QED BY <1>1, <1>3, <3>1 DEF Entry
  <2> QED BY <2>1, <2>2
<1>6. Known(tt)' = Known(tt) /\ OldInventory' = OldInventory
  <2>1. Known(tt)' = Known(tt') /\ Known(tt') = Known(tt)
    OBVIOUS
  <2> QED BY <2>1
<1>7. Real' = Real
  BY <1>3, <1>6 DEF Real
<1> QED BY <1>1, <1>2, <1>3, <1>4, <1>5, <1>6, <1>7

(* What a transform never does, and that it has no conflicts.                 *)
LEMMA PlanStays ==
  ASSUME layout' = layout, tt' = tt, stage' # "build", TTypeOK, TransformOK
  PROVE  TransformOK' /\ (Clean => Clean') /\ tt' \in Transforms /\ layout' \in Layouts
<1>1. TransformOK'
  BY SamePlan DEF TransformOK, NoPath, Ids
<1>2. ASSUME Clean PROVE Clean'
  <2>1. \A t \in Ids : tt'.file[t] # None => FinalKind(tt, t)' # None
    BY <1>2, SamePlan DEF Clean
  <2>2. \A t \in Ids : tt'.file[t] \in Old /\ TreeFile(tt.file[t])' # None =>
          tt'.file[t] \in tt'.unversioned
    <3>1. \A t : TreeFile(t)' = TreeFile(t)
      BY SamePlan
    <3>2. \A t : TreeFile(tt.file[t])' = TreeFile(tt.file[t])
      BY DEF TreeFile, Root
    <3> QED BY <1>2, <3>2 DEF Clean
  <2>3. ASSUME NEW t \in Known(tt) \ {Root}
        PROVE  /\ FinalKind(tt, t)' # None => FinalKind(tt, Parent(tt, t))' = "directory"
               /\ FinalFile(tt, t)' # None => FinalFile(tt, Parent(tt, t))' # None
    <3>1. /\ FinalKind(tt, Parent(tt, t))' = FinalKind(tt, Parent(tt, t))
          /\ FinalFile(tt, Parent(tt, t))' = FinalFile(tt, Parent(tt, t))
      <4>1. Parent(tt, t)' = Parent(tt, t)
        BY SamePlan
      <4> QED BY <4>1 DEF FinalKind, FinalFile, TreeKind, TreeFile, Root
    <3> QED BY <1>2, <3>1, SamePlan DEF Clean
  <2>4. \A t, u \in Known(tt)' \ {Root} :
          Exists(tt, t)' /\ Exists(tt, u)' /\ FinalPath(tt, t)' = FinalPath(tt, u)' => t = u
    BY <1>2, SamePlan DEF Clean
  <2>5. \A S \in SUBSET (Known(tt)' \ {Root}) : S # {} => \E t \in S : Parent(tt, t)' \notin S
    BY <1>2, SamePlan DEF Clean
  <2>6. \A t \in Old : tt'.created[t] # None => t \in tt'.removed
    BY <1>2 DEF Clean
  <2>7. Known(tt)' = Known(tt)
    BY SamePlan
  <2> QED BY <2>1, <2>2, <2>3, <2>4, <2>5, <2>6, <2>7 DEF Clean, Ids, Root
<1> QED BY <1>1, <1>2 DEF TTypeOK

(* While it is applied.                                                       *)
LEMMA ApplyingRest ==
  ASSUME TransformInv, layout' = layout, tt' = tt, inventory' = inventory, stage # "done",
         stage' \in {"remove", "insert", "inventory", "rollback", "half"},
         stage' \in {"remove", "insert", "inventory"} => Clean,
         limbo' \in [Ids -> Places], disk' \in [Inodes -> Places],
         past' \in Seq([inode : Inodes, from : Places]),
         LimboApart', RemoveOK', InsertOK', JournalOK', StillThere', OnlyOld'
  PROVE  TransformInv'
<1>0. TTypeOK /\ TransformOK /\ inventory = OldInventory
  BY DEF TransformInv, InventoryOK
<1>1. TransformOK' /\ (Clean => Clean') /\ tt' \in Transforms /\ layout' \in Layouts
  BY <1>0, PlanStays
<1>2. TTypeOK'
  BY <1>1 DEF TTypeOK, Transforms, Paths, NoPath, Ids, Inodes, Places, Dirs, Kinds
<1>3. ConflictsOK' /\ PlanningOK' /\ NoConflicts' /\ RollbackRestores'
  BY <1>1 DEF ConflictsOK, PlanningOK, Planning, NoConflicts, RollbackRestores
<1>4. InventoryOK'
  BY <1>0, SamePlan DEF InventoryOK
<1> QED BY <1>1, <1>2, <1>3, <1>4 DEF TransformInv

(* Limbo stays as it is.                                                      *)
LEMMA LimboStays ==
  ASSUME LimboApart, layout' = layout, tt' = tt, limbo' = limbo
  PROVE  LimboApart'
<1> QED BY SamePlan DEF LimboApart, Inside, Limbo, NewContents, Gone, Ids

(* find_conflicts is called until nothing is found.                           *)
LEMMA LookKeeps ==
  ASSUME TransformInv, Look
  PROVE  TransformInv'
<1>0. /\ TTypeOK /\ TransformOK /\ LimboApart /\ PlanningOK /\ Planning
      /\ stage \in {"build", "resolve"}
      /\ tt' = tt /\ limbo' = limbo /\ disk' = disk /\ layout' = layout /\ past' = past
      /\ inventory' = inventory
      /\ layout \in Layouts /\ tt \in Transforms /\ limbo \in [Ids -> Places]
      /\ disk \in [Inodes -> Places] /\ past \in Seq([inode : Inodes, from : Places])
  BY DEF TransformInv, Planning, Look, TTypeOK
<1>1. CASE FindConflicts(tt) = {} /\ stage' = "remove" /\ todo' = Old \cap Known(tt)
  <2>1. Clean
    BY <1>0, <1>1, CleanThen
  <2>2. todo' = Old
    BY <1>0, <1>1, PathFacts
  <2>3. LimboApart'
    BY <1>0, LimboStays
  <2>4. /\ past = <<>>
        /\ \A t \in Old : disk[OldContents(t)] = Original(t)
        /\ \A t \in Ids \ {Root} : disk[NewContents(t)] = limbo[t]
        /\ \A t \in Ids : limbo[t] = Gone <=> tt.created[t] = None
    BY <1>0 DEF PlanningOK
  <2>5. RemoveOK'
    <3>1. \A t \in Old : layout'[t].up \in todo' \cup {Root}
      BY <1>0, <2>2, LayoutFacts
    <3>2. \A t \in Old : disk'[OldContents(t)] = Original(t)'
      BY <1>0, <2>4, SamePlan
    <3>3. \A t \in Ids : tt'.created[t] # None \/ (Moves(t)' /\ t \notin todo') =>
            limbo'[t] # Gone /\ disk'[Contents(t)'] = limbo'[t]
      <4> SUFFICES ASSUME NEW t \in Ids, tt'.created[t] # None \/ (Moves(t)' /\ t \notin todo')
                   PROVE  limbo'[t] # Gone /\ disk'[Contents(t)'] = limbo'[t]
        OBVIOUS
      <4>1. tt.created[t] # None
        BY <1>0, <2>2 DEF Moves
      <4>2. t # Root
        BY <1>0, <4>1 DEF TransformOK
      <4>3. Contents(t)' = NewContents(t)
        BY <1>0, <4>1 DEF Contents, NewContents
      <4> QED BY <1>0, <2>4, <4>1, <4>2, <4>3
    <3>4. \A t \in Ids : limbo'[t] # Gone => tt'.created[t] # None
      BY <1>0, <2>4
    <3>5. \A t \in Ids \ {Root} : tt'.created[t] = None => disk'[NewContents(t)] = Gone
      BY <1>0, <2>4
    <3> QED BY <2>2, <3>1, <3>2, <3>3, <3>4, <3>5 DEF RemoveOK, OldContents, NewContents, Gone, Ids, Root
  <2>6. InsertOK'
    BY <1>1 DEF InsertOK
  <2>7. JournalOK'
    <3>1. Len(past') = 0
      BY <1>0, <2>4
    <3>2. \A o \in Old : disk'[OldContents(o)] = Original(o)' /\ Renamings(o)' = {}
      BY <1>0, <2>4, <3>1, SamePlan DEF Renamings
    <3> QED BY <3>1, <3>2 DEF JournalOK, OldContents, Gone
  <2>8. StillThere' /\ OnlyOld'
    <3>1. StillThere /\ OnlyOld
      BY DEF TransformInv
    <3> QED BY <1>0, <3>1 DEF StillThere, OnlyOld, OldContents, Gone, Ids
  <2> QED BY <1>0, <1>1, <2>1, <2>3, <2>5, <2>6, <2>7, <2>8, ApplyingRest
<1>2. CASE stage' \in {"resolve", "malformed"} /\ (stage' = "resolve" => todo' = FindConflicts(tt))
  <2>1. TransformOK' /\ tt' \in Transforms /\ layout' \in Layouts
    BY <1>0, <1>2, PlanStays
  <2>2. TTypeOK'
    BY <1>0, <2>1 DEF TTypeOK, Transforms, Paths, NoPath, Ids, Inodes, Places, Dirs, Kinds
  <2>3. LimboApart'
    BY <1>0, LimboStays
  <2>4. PlanningOK'
    BY <1>0, SamePlan DEF PlanningOK, Planning, OldContents, NewContents, Gone, Ids
  <2>5. ConflictsOK'
    <3> SUFFICES ASSUME stage' = "resolve", NEW c \in todo' PROVE ConflictOK(c)'
      BY DEF ConflictsOK
    <3>1. ConflictOK(c)
      BY <1>0, <1>2, FoundOK
    <3> QED BY <1>0, <3>1, SamePlan DEF ConflictOK, Root
  <2> QED BY <1>0, <1>2, <2>1, <2>2, <2>3, <2>4, <2>5, PlanningRest
<1> QED BY <1>1, <1>2 DEF Look

-----------------------------------------------------------------------------
(* Renames and the journal of them *)

(* A rename to a place where nothing is.                                      *)
LEMMA RenameFree ==
  ASSUME disk \in [Inodes -> Places], NEW i \in Inodes, NEW place \in Places,
         \A j \in Inodes \ {i} : disk[j] # place, Rename(i, place)
  PROVE  /\ disk' \in [Inodes -> Places]
         /\ disk'[i] = place /\ \A j \in Inodes \ {i} : disk'[j] = disk[j]
<1>1. disk' = [j \in Inodes |-> IF j = i THEN place ELSE IF disk[j] = place THEN Gone ELSE disk[j]]
  BY DEF Rename
<1> QED BY <1>1

(* It is written down, and leads back to where things were.                   *)
LEMMA JournalStep ==
  ASSUME TTypeOK, JournalOK, StillThere, OnlyOld, stage \in {"remove", "insert"}, stage' = stage,
         layout' = layout, NEW i \in Inodes, NEW place \in Places,
         \A t \in Ids \ Old : i # OldContents(t), place # Gone, disk[i] # Gone,
         \A j \in Inodes \ {i} : disk[j] # place, Rename(i, place),
         past' = Append(past, [inode |-> i, from |-> disk[i]])
  PROVE  /\ JournalOK' /\ StillThere' /\ OnlyOld'
         /\ disk' \in [Inodes -> Places] /\ past' \in Seq([inode : Inodes, from : Places])
<1>0. /\ layout \in Layouts /\ disk \in [Inodes -> Places]
      /\ past \in Seq([inode : Inodes, from : Places])
  BY DEF TTypeOK
<1>1. /\ disk' \in [Inodes -> Places]
      /\ disk'[i] = place /\ \A j \in Inodes \ {i} : disk'[j] = disk[j]
  BY <1>0, RenameFree
<1> DEFINE last == Len(past) + 1
           entry == [inode |-> i, from |-> disk[i]]
<1>2. entry \in [inode : Inodes, from : Places] /\ entry.inode = i /\ entry.from = disk[i]
  BY <1>0
<1> HIDE DEF entry
<1>3. past' = Append(past, entry)
  BY DEF entry
<1>4. /\ past' \in Seq([inode : Inodes, from : Places]) /\ Len(past) \in Nat
      /\ Len(past') = last /\ past'[last] = entry
      /\ \A k \in 1 .. Len(past) : past'[k] = past[k]
  BY <1>0, <1>2, <1>3
<1>a. \A k \in 1 .. last : k \in 1 .. Len(past) \/ k = last
  BY <1>4
<1>5. /\ \A k \in 1 .. Len(past), t \in Ids \ Old : past[k].inode # OldContents(t)
      /\ \A o \in Old :
           /\ Renamings(o) = {} => disk[OldContents(o)] = Original(o)
           /\ \A k \in Renamings(o) :
                /\ past[k].from # Gone
                /\ (\A j \in Renamings(o) : k <= j) => past[k].from = Original(o)
  BY DEF JournalOK
<1>6. \A o \in Old : Original(o)' = Original(o)
  BY SameTree
<1>7. \A k \in 1 .. Len(past'), t \in Ids \ Old : past'[k].inode # OldContents(t)
  BY <1>2, <1>4, <1>5, <1>a
<1>8. ASSUME NEW o \in Old
      PROVE  /\ Renamings(o)' = {} => disk'[OldContents(o)] = Original(o)
             /\ \A k \in Renamings(o)' :
                  /\ past'[k].from # Gone
                  /\ (\A j \in Renamings(o)' : k <= j) => past'[k].from = Original(o)
  <2>0. OldContents(o) \in Inodes
    BY <1>0, InodeFacts, LayoutFacts
  <2>1. Renamings(o)' = {k \in 1 .. Len(past') : past'[k].inode = OldContents(o)}
    BY DEF Renamings, OldContents
  <2>2. Renamings(o) = {k \in 1 .. Len(past) : past[k].inode = OldContents(o)}
    BY DEF Renamings
  <2>3. CASE i = OldContents(o)
    <3>1. Renamings(o)' = Renamings(o) \cup {last}
      <4>1. \A k \in 1 .. Len(past) : k \in 1 .. last
        BY <1>4
      <4> QED BY <1>2, <1>4, <1>a, <2>1, <2>2, <2>3, <4>1
    <3>2. ASSUME NEW k \in Renamings(o)'
          PROVE  /\ past'[k].from # Gone
                 /\ (\A j \in Renamings(o)' : k <= j) => past'[k].from = Original(o)
      <4>1. CASE k \in Renamings(o)
        <5>1. past'[k] = past[k]
          BY <1>4, <2>2, <4>1
        <5> QED BY <1>5, <3>1, <4>1, <5>1
      <4>2. CASE k = last
        <5>1. past'[k].from = disk[i] /\ past'[k].from # Gone
          BY <1>2, <1>4, <4>2
        <5>2. ASSUME \A j \in Renamings(o)' : k <= j PROVE Renamings(o) = {}
          <6>1. ASSUME NEW j \in Renamings(o) PROVE FALSE
            <7>1. j \in 1 .. Len(past) /\ last <= j
              BY <2>2, <3>1, <4>2, <5>2, <6>1
            <7> QED BY <1>4, <7>1
          <6> QED BY <6>1
        <5> QED BY <1>5, <2>3, <5>1, <5>2
      <4> QED BY <3>1, <4>1, <4>2
    <3>3. Renamings(o)' # {}
      BY <3>1
    <3> QED BY <3>2, <3>3
  <2>4. CASE i # OldContents(o)
    <3>1. Renamings(o)' = Renamings(o)
      <4>1. \A k \in 1 .. Len(past) : k \in 1 .. last
        BY <1>4
      <4> QED BY <1>2, <1>4, <1>a, <2>1, <2>2, <2>4, <4>1
    <3>2. \A k \in Renamings(o) : past'[k] = past[k]
      BY <1>4, <2>2
    <3>3. disk'[OldContents(o)] = disk[OldContents(o)]
      BY <1>1, <2>0, <2>4
    <3> QED BY <1>5, <3>1, <3>2, <3>3
  <2> QED BY <2>3, <2>4
<1>9. JournalOK'
  BY <1>6, <1>7, <1>8 DEF JournalOK, OldContents, Gone, Ids
<1>10. StillThere'
  <2>1. ASSUME NEW o \in Old PROVE disk'[OldContents(o)] # Gone
    <3>1. OldContents(o) \in Inodes /\ disk[OldContents(o)] # Gone
      BY <1>0, InodeFacts, LayoutFacts DEF StillThere
    <3> QED BY <1>1, <3>1
  <2> QED BY <2>1 DEF StillThere, OldContents, Gone
<1>11. OnlyOld'
  <2>1. ASSUME NEW t \in Ids \ Old PROVE disk'[OldContents(t)] = Gone
    <3>1. OldContents(t) \in Inodes /\ disk[OldContents(t)] = Gone
      BY InodeFacts DEF OnlyOld
    <3> QED BY <1>1, <3>1
  <2> QED BY <2>1 DEF OnlyOld, OldContents, Gone, Ids
<1> QED BY <1>1, <1>4, <1>9, <1>10, <1>11

(* A rename that is not made.                                                 *)
LEMMA JournalStays ==
  ASSUME JournalOK, StillThere, OnlyOld, layout' = layout, disk' = disk, past' = past,
         stage' \in {"remove", "insert", "rollback"} => stage \in {"remove", "insert", "rollback"},
         stage \notin {"inventory", "done", "broken"}
  PROVE  JournalOK' /\ StillThere' /\ OnlyOld'
<1>1. \A o \in Old : Original(o)' = Original(o) /\ Renamings(o)' = Renamings(o)
  BY SameTree DEF Renamings, OldContents
<1> QED BY <1>1 DEF JournalOK, StillThere, OnlyOld, OldContents, Gone, Ids

-----------------------------------------------------------------------------
(* Removals *)

(* In limbo, nothing is inside an old directory or up for deletion.           *)
LEMMA LimboFacts ==
  ASSUME LimboApart, NEW v \in Ids
  PROVE  \A t, n : /\ limbo[v] # [dir |-> OldContents(t), name |-> n]
                   /\ limbo[v] # Deletion(t)
                   /\ t # v => limbo[v] # Limbo(t)
<1>1. limbo[v] \in {Gone, Limbo(v), Inside(v)}
  BY DEF LimboApart
<1>2. ASSUME NEW t, NEW n PROVE /\ Inside(v) # [dir |-> OldContents(t), name |-> n]
                                /\ Inside(v) # Deletion(t) /\ Inside(v) # Limbo(t)
  <2>1. Inside(v).dir # OldContents(t)
    BY InodeFacts DEF Inside
  <2> QED BY <2>1, PlaceFacts DEF Inside
<1> QED BY <1>1, <1>2, PlaceFacts

(* While removals are made: where everything is.                              *)
LEMMA RemoveFacts ==
  ASSUME TransformInv, stage = "remove"
  PROVE  /\ \A v \in Old :
              \/ disk[OldContents(v)] = Original(v) /\ (v \in todo \/ (v \notin tt.removed /\ ~PathChanged(tt, v)))
              \/ disk[OldContents(v)] = Deletion(v) /\ v \in tt.removed \ todo
              \/ disk[OldContents(v)] = limbo[v] /\ limbo[v] # Gone /\ Moves(v) /\ v \notin todo
         /\ \A v \in todo : disk[OldContents(v)] = Original(v) /\ v \in Old
                            /\ layout[v].up \in todo \cup {Root}
         /\ \A v \in Ids \ {Root} : disk[NewContents(v)] = IF tt.created[v] = None THEN Gone ELSE limbo[v]
         /\ \A v \in Old \ tt.removed : tt.created[v] = None
<1>0. RemoveOK /\ Clean /\ TTypeOK /\ TransformOK
  BY DEF TransformInv, NoConflicts
<1>1. \A v \in Old \ tt.removed : tt.created[v] = None
  BY <1>0 DEF Clean
<1>2. ASSUME NEW v \in Old
      PROVE  \/ disk[OldContents(v)] = Original(v) /\ (v \in todo \/ (v \notin tt.removed /\ ~PathChanged(tt, v)))
             \/ disk[OldContents(v)] = Deletion(v) /\ v \in tt.removed \ todo
             \/ disk[OldContents(v)] = limbo[v] /\ limbo[v] # Gone /\ Moves(v) /\ v \notin todo
  <2>1. CASE v \in todo \/ (v \notin tt.removed /\ ~PathChanged(tt, v))
    BY <1>0, <2>1 DEF RemoveOK
  <2>2. CASE v \in tt.removed \ todo
    BY <1>0, <2>2 DEF RemoveOK
  <2>3. CASE v \notin todo /\ v \notin tt.removed /\ PathChanged(tt, v)
    <3>1. Moves(v)
      BY <2>3 DEF Moves
    <3>2. Contents(v) = OldContents(v)
      BY <1>1, <2>3 DEF Contents
    <3>3. v \in Ids
      BY <1>0, LayoutFacts DEF TTypeOK
    <3>4. limbo[v] # Gone /\ disk[Contents(v)] = limbo[v]
      BY <1>0, <2>3, <3>1, <3>3 DEF RemoveOK
    <3> QED BY <2>3, <3>1, <3>2, <3>4
  <2> QED BY <2>1, <2>2, <2>3
<1>3. \A v \in todo : disk[OldContents(v)] = Original(v) /\ v \in Old /\ layout[v].up \in todo \cup {Root}
  BY <1>0 DEF RemoveOK
<1>4. \A v \in Ids \ {Root} : disk[NewContents(v)] = IF tt.created[v] = None THEN Gone ELSE limbo[v]
  BY <1>0 DEF RemoveOK, Contents
<1> QED BY <1>1, <1>2, <1>3, <1>4

(* by_parent and the reversed sort: the next entry has no children left.      *)
LEMMA DeepestIs ==
  ASSUME TransformInv, stage = "remove", todo # {}
  PROVE  Deepest(todo) \in todo /\ \A u \in todo : layout[u].up # Deepest(todo)
<1> DEFINE x == [tt EXCEPT !.path = [v \in Ids |-> NoPath]]
<1>0. layout \in Layouts /\ tt \in Transforms /\ None \notin Ids
  BY LayoutFacts DEF TransformInv, TTypeOK
<1>1. x.path = [v \in Ids |-> NoPath]
  BY <1>0 DEF Transforms
<1>2. Deepest(todo) = CHOOSE t \in todo : \A u \in todo : t \notin Above(x, u)
  BY DEF Deepest
<1> HIDE DEF x
<1>3. \A t \in Ids : ~PathChanged(x, t)
  BY <1>1 DEF PathChanged
<1>4. \A t \in Old : t \in Ids /\ Parent(x, t) = layout[t].up /\ layout[t].up \in Ids
  BY <1>0, <1>3, LayoutFacts DEF Parent, FinalPath, TreePath
<1>5. \A t \in Ids \ Old : Parent(x, t) = None
  BY <1>3 DEF Parent, FinalPath, TreePath, NoPath
<1>6. Upward(x)
  BY <1>4, <1>5 DEF Upward
<1>7. Free(x, Old)
  <2> SUFFICES ASSUME NEW S \in SUBSET Old, Trap(x, S) PROVE FALSE
    BY DEF Free
  <2>1. S # {} /\ \A t \in S : layout[t].up \in S
    BY <1>4 DEF Trap
  <2>2. \A T \in SUBSET Old : T # {} => \E t \in T : layout[t].up \notin T
    BY <1>0, LayoutFacts
  <2> QED BY <2>1, <2>2
<1>8. todo \subseteq Old /\ todo \subseteq Ids /\ Old \subseteq Ids
  BY <1>0, <1>4, RemoveFacts
<1>9. ASSUME NEW t \in todo PROVE t \notin Above(x, t)
  <2>1. \A u \in Above(x, t) : u \in Old \/ Parent(x, u) = None
    <3>1. Above(x, t) \subseteq Ids
      BY <1>6, <1>8, AboveFacts
    <3> QED BY <1>5, <3>1
  <2> QED BY <1>6, <1>7, <1>8, <2>1, Acyclic
<1>10. \E t \in todo : \A u \in todo : t \notin Above(x, u)
  BY <1>6, <1>8, <1>9, SomeEnd
<1>11. Deepest(todo) \in todo /\ \A u \in todo : Deepest(todo) \notin Above(x, u)
  BY <1>2, <1>10
<1>12. ASSUME NEW u \in todo PROVE layout[u].up \in Above(x, u)
  BY <1>0, <1>4, <1>6, <1>8, AboveFacts
<1> QED BY <1>11, <1>12

(* It is still where it was in the tree.                                      *)
LEMMA RemoveFrom ==
  ASSUME TransformInv, stage = "remove", NEW t \in todo
  PROVE  Walk(disk, [u \in Ids |-> TreePath(u)], t) = OldContents(t)
<1> DEFINE path == [u \in Ids |-> TreePath(u)]
           A == {Root} \cup todo
           c == [u \in Ids |-> OldContents(u)]
<1>0. /\ layout \in Layouts /\ tt \in Transforms /\ LimboApart /\ OnlyOld
      /\ disk \in [Inodes -> Places]
  BY DEF TransformInv, TTypeOK
<1>1. \A v \in todo : disk[OldContents(v)] = Original(v) /\ v \in Old
                      /\ layout[v].up \in todo \cup {Root}
  BY RemoveFacts
<1>2. \A v \in todo : v \in Ids /\ v # Root /\ path[v].up = layout[v].up /\ path[v].name = layout[v].name
  BY <1>0, <1>1, LayoutFacts DEF TreePath
<1>3. A \subseteq Ids /\ Root \in A /\ c[Root] = RootDir /\ \A u \in Ids : c[u] = OldContents(u)
  BY <1>2, IdsFinite, InodeFacts
<1>4. ASSUME NEW v \in todo, NEW j \in Inodes, disk[j] = Original(v) PROVE j = OldContents(v)
  <2>1. CASE \E u \in Ids : j = OldContents(u)
    <3>1. PICK u \in Ids : j = OldContents(u)
      BY <2>1
    <3>2. u \in Old
      <4>1. Original(v) # Gone
        BY PlaceFacts DEF Original
      <4> QED BY <1>0, <1>4, <3>1, <4>1 DEF OnlyOld
    <3>3. disk[OldContents(u)] = Original(u)
      <4>1. Original(v) # limbo[u] /\ Original(v) # Deletion(u)
        BY <1>0, <3>1, LimboFacts, PlaceFacts DEF Original
      <4> QED BY <1>4, <3>1, <3>2, <4>1, RemoveFacts
    <3>4. layout[u].up = layout[v].up /\ layout[u].name = layout[v].name
      <4>1. Original(u) = Original(v)
        BY <1>4, <3>1, <3>3
      <4>2. OldContents(layout[u].up) = OldContents(layout[v].up) /\ layout[u].name = layout[v].name
        BY <4>1 DEF Original
      <4> QED BY <4>2, InodeFacts
    <3> QED BY <1>0, <1>1, <3>1, <3>2, <3>4, LayoutFacts
  <2>2. CASE \E u \in Ids \ {Root} : j = NewContents(u)
    <3>1. PICK u \in Ids \ {Root} : j = NewContents(u)
      BY <2>2
    <3>2. disk[j] \in {Gone, limbo[u]}
      BY <3>1, RemoveFacts
    <3>3. Original(v) # Gone /\ Original(v) # limbo[u]
      BY <1>0, LimboFacts, PlaceFacts DEF Original
    <3> QED BY <1>4, <3>2, <3>3
  <2> QED BY <2>1, <2>2, InodeFacts
<1>5. ASSUME NEW u \in A \ {Root}
      PROVE  /\ path[u].up \in A
             /\ c[u] \in Inodes /\ disk[c[u]] = [dir |-> c[path[u].up], name |-> path[u].name]
             /\ \A j \in Inodes : disk[j] = disk[c[u]] => j = c[u]
  <2>0. u \in todo /\ u \in Ids
    BY <1>2
  <2>1. path[u].up = layout[u].up /\ path[u].name = layout[u].name /\ layout[u].up \in A
    BY <1>1, <1>2, <2>0
  <2>2. c[u] = OldContents(u) /\ c[path[u].up] = OldContents(layout[u].up) /\ c[u] \in Inodes
    BY <1>3, <2>0, <2>1, InodeFacts
  <2>3. disk[c[u]] = Original(u)
    BY <1>1, <2>0, <2>2
  <2> HIDE DEF path, A, c
  <2> QED BY <1>4, <2>0, <2>1, <2>2, <2>3 DEF Original
<1>6. \A S \in SUBSET (A \ {Root}) : S # {} => \E u \in S : path[u].up \notin S
  <2> SUFFICES ASSUME NEW S \in SUBSET (A \ {Root}), S # {} PROVE \E u \in S : path[u].up \notin S
    OBVIOUS
  <2>1. S \in SUBSET Old /\ \A u \in S : path[u].up = layout[u].up
    BY <1>1, <1>2
  <2>2. \E u \in S : layout[u].up \notin S
    BY <1>0, <2>1, LayoutFacts
  <2> QED BY <2>1, <2>2
<1>7. None \notin A /\ \A u \in A : c[u] # None
  <2>1. \A u \in A : c[u] \in Inodes
    BY <1>3, InodeFacts
  <2> HIDE DEF A, c
  <2>2. None \notin Ids
    BY <1>0, LayoutFacts
  <2>3. \A u \in A : c[u] # None
    BY <2>1, InodeAssumption
  <2> QED BY <1>3, <2>2, <2>3
<1> HIDE DEF path, A, c
<1>8. Findable(disk, path, A, c)
  BY <1>3, <1>5, <1>6, <1>7 DEF Findable
<1>9. t \in A
  BY DEF A
<1>10. Walk(disk, path, t) = c[t]
  BY <1>8, <1>9, WalkFinds
<1> QED BY <1>3, <1>9, <1>10 DEF path

(* Nothing is in the way of what is removed or moved to limbo.                *)
LEMMA RemoveTo ==
  ASSUME TransformInv, stage = "remove", NEW t \in todo, t \in tt.removed \/ PathChanged(tt, t)
  PROVE  /\ RemovalPlace(t) \in Places /\ RemovalPlace(t) # Gone
         /\ \A j \in Inodes \ {OldContents(t)} : disk[j] # RemovalPlace(t)
<1>0. /\ layout \in Layouts /\ tt \in Transforms /\ LimboApart /\ OnlyOld
      /\ disk \in [Inodes -> Places] /\ t \in Old /\ limbo \in [Ids -> Places]
  BY RemoveFacts DEF TransformInv, TTypeOK
<1>a. t \in Ids \ {Root}
  BY <1>0, LayoutFacts
<1>1. /\ RemovalPlace(t) \in Places /\ RemovalPlace(t) # Gone
      /\ \A u, n : RemovalPlace(t) # [dir |-> OldContents(u), name |-> n]
      /\ \A u \in Ids \ {t} : RemovalPlace(t) # limbo[u] /\ RemovalPlace(t) # Deletion(u)
  <2>1. CASE t \in tt.removed
    <3>1. RemovalPlace(t) = Deletion(t)
      BY <2>1 DEF RemovalPlace
    <3>2. \A u \in Ids : limbo[u] # Deletion(t)
      BY <1>0, LimboFacts
    <3>3. Deletion(t) \in Places /\ Deletion(t) # Gone
      BY <1>a, PlaceFacts
    <3>4. \A u, n : Deletion(t) # [dir |-> OldContents(u), name |-> n]
      BY PlaceFacts
    <3>5. \A u \in Ids \ {t} : Deletion(t) # limbo[u] /\ Deletion(t) # Deletion(u)
      BY <3>2, PlaceFacts
    <3> QED BY <3>1, <3>3, <3>4, <3>5
  <2>2. CASE t \notin tt.removed
    <3> DEFINE place == LimboPlace(tt, limbo, t)
    <3>1. RemovalPlace(t) = place
      BY <2>2 DEF RemovalPlace
    <3>2. /\ place \in Places /\ place # Gone
          /\ \/ place = Limbo(t)
             \/ /\ place = [dir |-> NewContents(tt.path[t].up), name |-> tt.path[t].name]
                /\ \A u \in Ids \ {t} : limbo[u] # place
      BY <1>0, <1>a, LimboPlaceFacts
    <3> HIDE DEF place
    <3>3. CASE place = Limbo(t)
      <4>1. \A u \in Ids \ {t} : limbo[u] # Limbo(t)
        BY <1>0, LimboFacts
      <4> QED BY <3>1, <3>2, <3>3, <4>1, PlaceFacts
    <3>4. CASE /\ place = [dir |-> NewContents(tt.path[t].up), name |-> tt.path[t].name]
               /\ \A u \in Ids \ {t} : limbo[u] # place
      <4>1. \A u, n : place # [dir |-> OldContents(u), name |-> n]
        <5>1. place.dir = NewContents(tt.path[t].up)
          BY <3>4
        <5> QED BY <5>1, InodeFacts
      <4>2. \A u : place # Deletion(u)
        BY <3>4, PlaceFacts
      <4> QED BY <3>1, <3>2, <3>4, <4>1, <4>2
    <3> QED BY <3>2, <3>3, <3>4
  <2> QED BY <2>1, <2>2
<1>2. ASSUME NEW j \in Inodes, j # OldContents(t) PROVE disk[j] # RemovalPlace(t)
  <2>1. CASE \E u \in Ids : j = OldContents(u)
    <3>1. PICK u \in Ids : j = OldContents(u)
      BY <2>1
    <3>2. u # t
      BY <1>2, <3>1
    <3>3. CASE u \in Old
      <4>1. disk[j] \in {Original(u), Deletion(u), limbo[u]}
        BY <3>1, <3>3, RemoveFacts
      <4>2. RemovalPlace(t) # Original(u)
        BY <1>1 DEF Original
      <4> QED BY <1>1, <3>2, <4>1, <4>2
    <3>4. CASE u \notin Old
      BY <1>0, <1>1, <3>1, <3>4 DEF OnlyOld
    <3> QED BY <3>3, <3>4
  <2>2. CASE \E u \in Ids \ {Root} : j = NewContents(u)
    <3>1. PICK u \in Ids \ {Root} : j = NewContents(u)
      BY <2>2
    <3>2. CASE tt.created[u] = None
      BY <1>1, <3>1, <3>2, RemoveFacts
    <3>3. CASE tt.created[u] # None
      <4>1. disk[j] = limbo[u]
        BY <3>1, <3>3, RemoveFacts
      <4>2. CASE u # t
        BY <1>1, <4>1, <4>2
      <4>3. CASE u = t
        <5>1. t \in tt.removed
          BY <1>0, <3>3, <4>3, RemoveFacts
        <5>2. RemovalPlace(t) = Deletion(t)
          BY <5>1 DEF RemovalPlace
        <5> QED BY <1>0, <4>1, <5>2, LimboFacts
      <4> QED BY <4>2, <4>3
    <3> QED BY <3>2, <3>3
  <2> QED BY <2>1, <2>2, InodeFacts
<1> QED BY <1>1, <1>2

(* _apply_removals.                                                           *)
LEMMA RemoveKeeps ==
  ASSUME TransformInv, RemoveNext
  PROVE  TransformInv'
<1> DEFINE t == Deepest(todo)
           to == RemovalPlace(t)
<1>0. /\ stage = "remove" /\ todo # {} /\ todo' = todo \ {t}
      /\ layout' = layout /\ tt' = tt /\ inventory' = inventory /\ stage' = stage
  BY DEF RemoveNext
<1>1. t \in todo /\ \A u \in todo : layout[u].up # t
  BY <1>0, DeepestIs
<1>2. /\ TTypeOK /\ TransformOK /\ LimboApart /\ RemoveOK /\ JournalOK /\ StillThere
      /\ OnlyOld /\ Clean
      /\ layout \in Layouts /\ tt \in Transforms /\ limbo \in [Ids -> Places]
      /\ disk \in [Inodes -> Places] /\ past \in Seq([inode : Inodes, from : Places])
  BY <1>0 DEF TransformInv, TTypeOK, NoConflicts
<1>3. /\ \A v \in todo : disk[OldContents(v)] = Original(v) /\ v \in Old
                        /\ layout[v].up \in todo \cup {Root}
      /\ \A v \in Old \ tt.removed : tt.created[v] = None
  BY <1>0, RemoveFacts
<1>4. t \in Old /\ t \in Ids \ {Root} /\ OldContents(t) \in Inodes
  BY <1>1, <1>2, <1>3, LayoutFacts, InodeFacts
<1>5. Walk(disk, [u \in Ids |-> TreePath(u)], t) = OldContents(t)
  BY <1>0, <1>1, RemoveFrom
<1>6. OldContents(t) # None
  BY <1>4, InodeAssumption
<1>a. \/ /\ t \notin tt.removed /\ ~PathChanged(tt, t) /\ UNCHANGED <<disk, past, limbo>>
      \/ /\ t \in tt.removed \/ PathChanged(tt, t)
         /\ Rename(OldContents(t), to)
         /\ past' = Append(past, [inode |-> OldContents(t), from |-> disk[OldContents(t)]])
         /\ limbo' = IF t \in tt.removed THEN limbo ELSE [limbo EXCEPT ![t] = to]
  BY <1>5, <1>6 DEF RemoveNext
<1> HIDE DEF t
<1>b. InsertOK'
  BY <1>0 DEF InsertOK
<1>c. /\ todo' \subseteq Old /\ \A v \in todo' : layout'[v].up \in todo' \cup {Root}
  BY <1>0, <1>1, <1>3
<1>7. CASE t \notin tt.removed /\ ~PathChanged(tt, t) /\ UNCHANGED <<disk, past, limbo>>
  <2>1. RemoveOK'
    <3>1. \A v \in Old : v \in todo' \/ (v \notin tt'.removed /\ ~PathChanged(tt, v)') =>
            disk'[OldContents(v)] = Original(v)'
      BY <1>0, <1>2, <1>7, SamePlan DEF RemoveOK
    <3>2. \A v \in Old : v \in tt'.removed \ todo' => disk'[OldContents(v)] = Deletion(v)
      BY <1>0, <1>2, <1>7 DEF RemoveOK
    <3>3. ~Moves(t)
      BY <1>7 DEF Moves
    <3>4. \A v \in Ids : tt'.created[v] # None \/ (Moves(v)' /\ v \notin todo') =>
            limbo'[v] # Gone /\ disk'[Contents(v)'] = limbo'[v]
      BY <1>0, <1>2, <1>7, <3>3, SamePlan DEF RemoveOK
    <3>5. \A v \in Ids : limbo'[v] # Gone => tt'.created[v] # None \/ (Moves(v)' /\ v \notin todo')
      BY <1>0, <1>2, <1>7, SamePlan DEF RemoveOK
    <3>6. \A v \in Ids \ {Root} : tt'.created[v] = None => disk'[NewContents(v)] = Gone
      BY <1>0, <1>2, <1>7 DEF RemoveOK
    <3> QED BY <1>c, <3>1, <3>2, <3>4, <3>5, <3>6
            DEF RemoveOK, OldContents, NewContents, Gone, Ids, Root, Deletion
  <2>2. LimboApart'
    BY <1>0, <1>2, <1>7, LimboStays
  <2>3. JournalOK' /\ StillThere' /\ OnlyOld'
    BY <1>0, <1>2, <1>7, JournalStays
  <2> QED BY <1>0, <1>2, <1>7, <1>b, <2>1, <2>2, <2>3, ApplyingRest
<1>8. CASE /\ t \in tt.removed \/ PathChanged(tt, t)
           /\ Rename(OldContents(t), to)
           /\ past' = Append(past, [inode |-> OldContents(t), from |-> disk[OldContents(t)]])
           /\ limbo' = IF t \in tt.removed THEN limbo ELSE [limbo EXCEPT ![t] = to]
  <2>1. /\ to \in Places /\ to # Gone
        /\ \A j \in Inodes \ {OldContents(t)} : disk[j] # to
    BY <1>0, <1>1, <1>8, RemoveTo
  <2>2. /\ disk' \in [Inodes -> Places]
        /\ disk'[OldContents(t)] = to
        /\ \A j \in Inodes \ {OldContents(t)} : disk'[j] = disk[j]
    BY <1>2, <1>4, <1>8, <2>1, RenameFree
  <2>a. to = IF t \in tt.removed THEN Deletion(t) ELSE LimboPlace(tt, limbo, t)
    BY DEF RemovalPlace
  <2> HIDE DEF to
  <2>3. /\ JournalOK' /\ StillThere' /\ OnlyOld'
        /\ past' \in Seq([inode : Inodes, from : Places])
    <3>1. disk[OldContents(t)] # Gone
      BY <1>2, <1>0, <1>4 DEF StillThere
    <3>2. \A u \in Ids \ Old : OldContents(t) # OldContents(u)
      BY <1>4, InodeFacts
    <3> QED BY <1>0, <1>2, <1>4, <1>8, <2>1, <3>1, <3>2, JournalStep
  <2>4. limbo' \in [Ids -> Places]
    BY <1>2, <1>4, <1>8, <2>1
  <2>5. LimboApart'
    <3>1. TTypeOK'
      BY <1>0, <1>2, <2>2, <2>3, <2>4
         DEF TTypeOK, Transforms, Paths, NoPath, Ids, Inodes, Places, Dirs, Kinds
    <3>2. CASE t \in tt.removed
      BY <1>0, <1>2, <1>8, <3>2, LimboStays
    <3>3. CASE t \notin tt.removed
      <4>1. limbo' = [limbo EXCEPT ![t] = LimboPlace(tt', limbo, t)]
        <5>1. LimboPlace(tt', limbo, t) = LimboPlace(tt, limbo, t)
          BY <1>0
        <5> QED BY <1>8, <2>a, <3>3, <5>1
      <4> QED BY <1>0, <1>2, <1>4, <3>1, <4>1, LimboStep
    <3> QED BY <3>2, <3>3
  <2>6. \A v \in Old : v # t => /\ disk'[OldContents(v)] = disk[OldContents(v)]
                               /\ OldContents(v) # OldContents(t)
    BY <1>2, <2>2, LayoutFacts, InodeFacts
  <2>7. \A v \in Ids \ {Root} : disk'[NewContents(v)] = disk[NewContents(v)]
    BY <2>2, InodeFacts
  <2>8. RemoveOK'
    <3>1. \A v \in Old : v \in todo' \/ (v \notin tt'.removed /\ ~PathChanged(tt, v)') =>
            disk'[OldContents(v)] = Original(v)'
      BY <1>0, <1>2, <1>8, <2>6, SamePlan DEF RemoveOK
    <3>2. \A v \in Old : v \in tt'.removed \ todo' => disk'[OldContents(v)] = Deletion(v)
      BY <1>0, <1>2, <2>2, <2>6, <2>a DEF RemoveOK
    <3>3. ASSUME NEW v \in Ids, tt'.created[v] # None \/ (Moves(v)' /\ v \notin todo')
          PROVE  limbo'[v] # Gone /\ disk'[Contents(v)'] = limbo'[v]
      <4>1. Contents(v)' = Contents(v) /\ Moves(v)' = Moves(v)
        BY <1>0, SamePlan
      <4>2. CASE v = t
        <5>1. CASE t \in tt.removed
          <6>1. tt.created[t] # None
            BY <1>0, <3>3, <4>1, <4>2, <5>1 DEF Moves
          <6>2. Contents(t) = NewContents(t)
            BY <6>1 DEF Contents
          <6>3. limbo[t] # Gone /\ disk[Contents(t)] = limbo[t]
            BY <1>2, <1>0, <1>4, <6>1 DEF RemoveOK
          <6> QED BY <1>4, <1>8, <2>7, <4>1, <4>2, <5>1, <6>2, <6>3
        <5>2. CASE t \notin tt.removed
          <6>1. Contents(t) = OldContents(t)
            BY <1>3, <1>4, <5>2 DEF Contents
          <6>2. limbo'[t] = to
            BY <1>2, <1>4, <1>8, <5>2
          <6> QED BY <2>1, <2>2, <4>1, <4>2, <6>1, <6>2
        <5> QED BY <5>1, <5>2
      <4>3. CASE v # t
        <5>1. limbo[v] # Gone /\ disk[Contents(v)] = limbo[v] /\ limbo'[v] = limbo[v]
          BY <1>0, <1>2, <1>8, <3>3, <4>1, <4>3 DEF RemoveOK
        <5>2. Contents(v) # OldContents(t) /\ Contents(v) \in Inodes
          <6>1. tt.created[v] # None => v # Root
            BY <1>2 DEF TransformOK
          <6> QED BY <4>3, <6>1, InodeFacts DEF Contents
        <5> QED BY <2>2, <4>1, <5>1, <5>2
      <4> QED BY <4>2, <4>3
    <3>4. \A v \in Ids : limbo'[v] # Gone => tt'.created[v] # None \/ (Moves(v)' /\ v \notin todo')
      <4>1. ASSUME NEW v \in Ids, limbo'[v] # Gone
            PROVE  tt.created[v] # None \/ (Moves(v) /\ v \notin todo')
        <5>1. CASE limbo'[v] = limbo[v]
          BY <1>0, <1>2, <4>1, <5>1 DEF RemoveOK
        <5>2. CASE limbo'[v] # limbo[v]
          <6>1. v = t /\ t \notin tt.removed
            BY <1>2, <1>8, <5>2
          <6> QED BY <1>0, <1>4, <1>8, <6>1 DEF Moves
        <5> QED BY <5>1, <5>2
      <4> QED BY <1>0, <4>1, SamePlan
    <3>5. \A v \in Ids \ {Root} : tt'.created[v] = None => disk'[NewContents(v)] = Gone
      BY <1>0, <1>2, <2>7 DEF RemoveOK
    <3> QED BY <1>c, <3>1, <3>2, <3>3, <3>4, <3>5
            DEF RemoveOK, OldContents, NewContents, Gone, Ids, Root, Deletion
  <2> QED BY <1>0, <1>2, <1>b, <2>2, <2>3, <2>4, <2>5, <2>8, ApplyingRest
<1> QED BY <1>7, <1>8, <1>a

-----------------------------------------------------------------------------
(* Insertions *)

(* What there will be is in a directory that there will be, at a place of its *)
(* own.                                                                       *)
LEMMA RealFacts ==
  ASSUME TTypeOK, TransformOK, Clean
  PROVE  /\ \A t \in Real :
              /\ t \in Ids \ {Root} /\ t \in Known(tt) /\ Contents(t) \in Inodes
              /\ Placed(t) \in Places
              /\ \A u : Placed(t) # Limbo(u) /\ Placed(t) # Deletion(u)
              /\ Placed(t) # Gone
              /\ Parent(tt, t) \in Real \cup {Root}
         /\ \A t, u \in Real : Placed(t) = Placed(u) => t = u
         /\ \A t, u : Contents(t) = Contents(u) => t = u
         /\ \A t \in Ids : tt.created[t] # None => t \in Real
         /\ \A t \in Old \ tt.removed : t \in Real /\ tt.created[t] = None
<1>0. layout \in Layouts /\ tt \in Transforms
  BY DEF TTypeOK
<1>a. "directory" # None
  BY <1>0, LayoutFacts
<1>1. \A t, u : Contents(t) = Contents(u) => t = u
  <2>1. ASSUME NEW t PROVE Contents(t)[1] = t
    BY InodeFacts DEF Contents
  <2> QED BY <2>1
<1>2. ASSUME NEW t \in Real
      PROVE  /\ t \in Ids \ {Root} /\ t \in Known(tt) /\ Contents(t) \in Inodes
             /\ Placed(t) \in Places
             /\ \A u : Placed(t) # Limbo(u) /\ Placed(t) # Deletion(u)
             /\ Placed(t) # Gone
             /\ Parent(tt, t) \in Real \cup {Root}
             /\ FinalPath(tt, t) = [up |-> FinalPath(tt, t).up, name |-> FinalPath(tt, t).name]
  <2>1. t \in Known(tt) \ {Root} /\ FinalKind(tt, t) # None /\ t \in Ids
    BY <1>0, PathFacts DEF Real
  <2>2. Contents(t) \in Inodes
    BY <2>1, InodeFacts DEF Contents
  <2>3. Parent(tt, t) \in Known(tt) /\ FinalKind(tt, Parent(tt, t)) = "directory"
    BY <2>1, ParentKnown DEF Clean
  <2>4. Parent(tt, t) \in Real \cup {Root} /\ Parent(tt, t) \in Ids
    BY <1>0, <1>a, <2>3, PathFacts DEF Real
  <2>5. Contents(Parent(tt, t)) \in {OldContents(Parent(tt, t)), NewContents(Parent(tt, t))}
    BY DEF Contents
  <2>6. FinalPath(tt, t).name \in Seq(Words)
    BY <1>0, <2>1, PathFacts
  <2>7. Placed(t) \in Places /\ Placed(t) # Gone
    BY <2>4, <2>5, <2>6, PlaceFacts DEF Placed
  <2>8. \A u : Placed(t) # Limbo(u) /\ Placed(t) # Deletion(u)
    <3> DEFINE p == Parent(tt, t)
               n == FinalPath(tt, t).name
    <3>1. \/ Placed(t) = [dir |-> OldContents(p), name |-> n]
          \/ Placed(t) = [dir |-> NewContents(p), name |-> n]
      BY <2>5 DEF Placed
    <3> HIDE DEF p, n
    <3>2. \A u : [dir |-> OldContents(p), name |-> n] \notin {Limbo(u), Deletion(u)}
      BY PlaceFacts
    <3>3. \A u : [dir |-> NewContents(p), name |-> n] \notin {Limbo(u), Deletion(u)}
      BY PlaceFacts
    <3> QED BY <3>1, <3>2, <3>3
  <2>9. FinalPath(tt, t) = [up |-> FinalPath(tt, t).up, name |-> FinalPath(tt, t).name]
    <3>1. CASE PathChanged(tt, t)
      <4>1. tt.path[t] \in [up : Ids, name : Seq(Words)]
        BY <1>0, <2>1, <3>1 DEF Transforms, Paths, PathChanged
      <4> QED BY <1>0, <2>1, <3>1, <4>1, PathFacts
    <3>2. CASE ~PathChanged(tt, t)
      BY <1>0, <2>1, <3>2, PathFacts
    <3> QED BY <3>1, <3>2
  <2> QED BY <2>1, <2>2, <2>4, <2>7, <2>8, <2>9
<1>3. ASSUME NEW t \in Real, NEW u \in Real, Placed(t) = Placed(u) PROVE t = u
  <2>1. /\ Placed(t).dir = Contents(Parent(tt, t)) /\ Placed(u).dir = Contents(Parent(tt, u))
        /\ Placed(t).name = FinalPath(tt, t).name /\ Placed(u).name = FinalPath(tt, u).name
    BY DEF Placed
  <2>2. Parent(tt, t) = Parent(tt, u) /\ FinalPath(tt, t).name = FinalPath(tt, u).name
    BY <1>1, <1>3, <2>1
  <2> HIDE DEF Placed, Contents
  <2>3. FinalPath(tt, t) = FinalPath(tt, u)
    <3>1. FinalPath(tt, t).up = FinalPath(tt, u).up
      BY <2>2 DEF Parent
    <3>2. FinalPath(tt, t) = [up |-> FinalPath(tt, t).up, name |-> FinalPath(tt, t).name]
      BY <1>2
    <3>3. FinalPath(tt, u) = [up |-> FinalPath(tt, u).up, name |-> FinalPath(tt, u).name]
      BY <1>2
    <3> QED BY <2>2, <3>1, <3>2, <3>3
  <2>4. Exists(tt, t) /\ Exists(tt, u) /\ t \in Known(tt) \ {Root} /\ u \in Known(tt) \ {Root}
    BY DEF Real, Exists
  <2> QED BY <2>3, <2>4 DEF Clean
<1>4. ASSUME NEW t \in Ids, tt.created[t] # None PROVE t \in Real
  <2>1. t \in Known(tt) /\ t # Root
    BY <1>4 DEF TransformOK
  <2> QED BY <1>4, <2>1 DEF Real, FinalKind
<1>5. ASSUME NEW t \in Old \ tt.removed PROVE t \in Real /\ tt.created[t] = None
  <2>1. tt.created[t] = None
    BY DEF Clean
  <2>2. t \in Known(tt) \ {Root}
    BY <1>0, PathFacts, LayoutFacts
  <2>3. FinalKind(tt, t) = layout[t].kind
    BY <1>0, <2>1, <2>2 DEF FinalKind, TreeKind
  <2>4. layout[t].kind # None
    BY <1>0, LayoutFacts
  <2> QED BY <2>1, <2>2, <2>3, <2>4 DEF Real
<1> HIDE DEF Placed, Contents
<1> QED BY <1>1, <1>2, <1>3, <1>4, <1>5

(* Every inode is of what there will be, or of what is removed, or of nothing *)
(* there is.                                                                  *)
LEMMA InodeCases ==
  ASSUME TTypeOK, TransformOK, Clean, NEW i \in Inodes
  PROVE  \/ \E v \in Real : i = Contents(v)
         \/ \E v \in tt.removed : i = OldContents(v)
         \/ \E v \in Ids \ {Root} : tt.created[v] = None /\ i = NewContents(v)
         \/ \E v \in Ids \ Old : i = OldContents(v)
<1>1. CASE \E v \in Ids : i = OldContents(v)
  <2>1. PICK v \in Ids : i = OldContents(v)
    BY <1>1
  <2>2. CASE v \in Old \ tt.removed
    <3>1. v \in Real /\ tt.created[v] = None
      BY <2>2, RealFacts
    <3> QED BY <2>1, <3>1 DEF Contents
  <2> QED BY <2>1, <2>2
<1>2. CASE \E v \in Ids \ {Root} : i = NewContents(v)
  <2>1. PICK v \in Ids \ {Root} : i = NewContents(v)
    BY <1>2
  <2>2. CASE tt.created[v] # None
    <3>1. v \in Real
      BY <2>2, RealFacts
    <3> QED BY <2>1, <2>2, <3>1 DEF Contents
  <2> QED BY <2>1, <2>2
<1> QED BY <1>1, <1>2, InodeFacts

(* What is not moved or replaced is in a directory that is not replaced.      *)
LEMMA UnmovedPlaced ==
  ASSUME TTypeOK, TransformOK, Clean, NEW t \in Old \ tt.removed, ~PathChanged(tt, t)
  PROVE  Placed(t) = Original(t)
<1>0. layout \in Layouts /\ tt \in Transforms
  BY DEF TTypeOK
<1> DEFINE p == layout[t].up
<1>1. t \in Real /\ t \in Known(tt) \ {Root} /\ FinalKind(tt, t) # None
  BY RealFacts DEF Real
<1>2. FinalPath(tt, t) = [up |-> p, name |-> layout[t].name]
  BY <1>0, PathFacts
<1>3. Parent(tt, t) = p
  BY <1>2 DEF Parent
<1>4. FinalKind(tt, p) = "directory"
  BY <1>1, <1>3 DEF Clean
<1>5. tt.created[p] = None
  <2>1. p \in {Root} \cup Old /\ (p \in Old => layout[p].kind = "directory")
    BY <1>0, LayoutFacts
  <2>2. CASE p = Root
    BY <2>2 DEF TransformOK
  <2>3. CASE p \in Old
    <3> SUFFICES ASSUME tt.created[p] # None PROVE FALSE
      OBVIOUS
    <3>1. tt.created[p] = "directory"
      BY <1>4 DEF FinalKind
    <3>2. p \in tt.removed
      BY <2>3 DEF Clean
    <3> QED BY <2>1, <2>3, <3>1, <3>2 DEF TransformOK
  <2> QED BY <2>1, <2>2, <2>3
<1>6. Contents(p) = OldContents(p)
  BY <1>5 DEF Contents
<1> QED BY <1>2, <1>3, <1>6 DEF Placed, Original

(* The removals are made: then come the insertions.                           *)
LEMMA StartInsertionsKeeps ==
  ASSUME TransformInv, StartInsertions
  PROVE  TransformInv'
<1>0. /\ stage = "remove" /\ todo = {} /\ stage' = "insert"
      /\ todo' = {t \in Ids : limbo[t] = Limbo(t)}
      /\ layout' = layout /\ tt' = tt /\ limbo' = limbo /\ disk' = disk /\ past' = past
      /\ inventory' = inventory
  BY DEF StartInsertions
<1>1. /\ TTypeOK /\ TransformOK /\ LimboApart /\ RemoveOK /\ JournalOK /\ StillThere
      /\ OnlyOld /\ Clean
      /\ layout \in Layouts /\ tt \in Transforms /\ limbo \in [Ids -> Places]
      /\ disk \in [Inodes -> Places] /\ past \in Seq([inode : Inodes, from : Places])
  BY <1>0 DEF TransformInv, TTypeOK, NoConflicts
<1>2. \A t \in Ids : limbo[t] # Gone => t \in Real /\ (tt.created[t] # None \/ Moves(t))
  <2>1. \A t \in Ids : limbo[t] # Gone => tt.created[t] # None \/ Moves(t)
    BY <1>0, <1>1 DEF RemoveOK
  <2>2. \A t \in Ids : tt.created[t] # None \/ Moves(t) => t \in Real
    BY <1>1, RealFacts DEF Moves
  <2> QED BY <2>1, <2>2
<1>3. todo' \subseteq Real
  BY <1>0, <1>2, PlaceFacts
<1>4. ASSUME NEW t \in Real
      PROVE  disk[Contents(t)] = IF t \in todo' THEN Limbo(t) ELSE Placed(t)
  <2>0. t \in Ids \ {Root} /\ t \in Known(tt) /\ FinalKind(tt, t) # None
    BY <1>1, RealFacts DEF Real
  <2>1. CASE tt.created[t] # None \/ Moves(t)
    <3>1. limbo[t] # Gone /\ disk[Contents(t)] = limbo[t]
      BY <1>0, <1>1, <2>0, <2>1 DEF RemoveOK
    <3>2. CASE limbo[t] = Limbo(t)
      BY <1>0, <2>0, <3>1, <3>2
    <3>3. CASE limbo[t] # Limbo(t)
      <4>1. PathChanged(tt, t) /\ tt.created[tt.path[t].up] = "directory" /\ limbo[t] = Inside(t)
        BY <1>1, <2>0, <3>1, <3>3 DEF LimboApart
      <4>2. FinalPath(tt, t) = tt.path[t] /\ Parent(tt, t) = tt.path[t].up
        BY <1>1, <2>0, <4>1, PathFacts DEF Parent
      <4>3. Contents(tt.path[t].up) = NewContents(tt.path[t].up)
        <5>1. "directory" # None
          BY <1>1, LayoutFacts
        <5> QED BY <4>1, <5>1 DEF Contents
      <4>4. Placed(t) = Inside(t)
        BY <4>2, <4>3 DEF Placed, Inside
      <4> QED BY <1>0, <3>1, <3>3, <4>1, <4>4
    <3> QED BY <3>2, <3>3
  <2>2. CASE tt.created[t] = None /\ ~Moves(t)
    <3>1. t \in Old \ tt.removed
      <4>1. t \notin tt.removed /\ TreeKind(t) # None
        BY <2>0, <2>2 DEF FinalKind
      <4> QED BY <2>0, <4>1 DEF TreeKind
    <3>2. ~PathChanged(tt, t)
      BY <2>2, <3>1 DEF Moves
    <3>3. disk[OldContents(t)] = Original(t)
      BY <1>0, <1>1, <3>1, <3>2 DEF RemoveOK
    <3>4. Placed(t) = Original(t)
      BY <1>1, <3>1, <3>2, UnmovedPlaced
    <3>5. limbo[t] = Gone
      BY <1>2, <2>0, <2>2
    <3>6. t \notin todo'
      BY <1>0, <3>5, PlaceFacts
    <3>7. Contents(t) = OldContents(t)
      BY <2>2 DEF Contents
    <3> QED BY <3>3, <3>4, <3>6, <3>7
  <2> QED BY <2>1, <2>2
<1>5. InsertOK'
  <2>1. \A t \in Real' : disk'[Contents(t)'] = IF stage' = "insert" /\ t \in todo' THEN Limbo(t) ELSE Placed(t)'
    BY <1>0, <1>4, SamePlan
  <2>2. \A t \in tt'.removed : disk'[OldContents(t)] = Deletion(t)
    <3>1. tt.removed \subseteq Old
      BY <1>1 DEF Transforms
    <3> QED BY <1>0, <1>1, <3>1 DEF RemoveOK
  <2>3. \A t \in Ids \ {Root} : tt'.created[t] = None => disk'[NewContents(t)] = Gone
    BY <1>0, <1>1 DEF RemoveOK
  <2>4. Real' = Real
    BY <1>0, SamePlan
  <2> QED BY <1>0, <1>3, <2>1, <2>2, <2>3, <2>4
          DEF InsertOK, OldContents, NewContents, Gone, Ids, Root, Deletion, Limbo
<1>6. RemoveOK'
  BY <1>0 DEF RemoveOK
<1>7. LimboApart'
  BY <1>0, <1>1, LimboStays
<1>8. JournalOK' /\ StillThere' /\ OnlyOld'
  BY <1>0, <1>1, JournalStays
<1> QED BY <1>0, <1>1, <1>5, <1>6, <1>7, <1>8, ApplyingRest

(* While insertions are made: where everything is.                            *)
LEMMA InsertFacts ==
  ASSUME TransformInv, stage = "insert"
  PROVE  /\ TTypeOK /\ TransformOK /\ Clean /\ todo \subseteq Real
         /\ \A v \in Real : disk[Contents(v)] = IF v \in todo THEN Limbo(v) ELSE Placed(v)
         /\ \A j \in Inodes : \/ disk[j] = Gone
                              \/ \E v \in Ids : disk[j] = Deletion(v)
                              \/ \E v \in Real : j = Contents(v)
<1>1. TTypeOK /\ TransformOK /\ Clean /\ InsertOK /\ OnlyOld
  BY DEF TransformInv, NoConflicts
<1>2. tt.removed \subseteq Old /\ Old \subseteq Ids
  BY <1>1, LayoutFacts DEF TTypeOK, Transforms
<1>3. /\ todo \subseteq Real
      /\ \A v \in Real : disk[Contents(v)] = IF v \in todo THEN Limbo(v) ELSE Placed(v)
      /\ \A v \in tt.removed : disk[OldContents(v)] = Deletion(v)
      /\ \A v \in Ids \ {Root} : tt.created[v] = None => disk[NewContents(v)] = Gone
  BY <1>1 DEF InsertOK
<1>4. ASSUME NEW j \in Inodes
      PROVE  \/ disk[j] = Gone
             \/ \E v \in Ids : disk[j] = Deletion(v)
             \/ \E v \in Real : j = Contents(v)
  <2>1. CASE \E v \in tt.removed : j = OldContents(v)
    BY <1>2, <1>3, <2>1
  <2>2. CASE \E v \in Ids \ {Root} : tt.created[v] = None /\ j = NewContents(v)
    BY <1>3, <2>2
  <2>3. CASE \E v \in Ids \ Old : j = OldContents(v)
    BY <1>1, <2>3 DEF OnlyOld
  <2> QED BY <1>1, <2>1, <2>2, <2>3, InodeCases
<1> QED BY <1>1, <1>3, <1>4

(* What is above what there will be, is a part of that, too.                  *)
LEMMA AboveReal ==
  ASSUME TTypeOK, TransformOK, Clean, NEW t \in Real
  PROVE  /\ Above(tt, t) \subseteq Real \cup {Root} /\ t \notin Above(tt, t)
         /\ Upward(tt) /\ Parent(tt, t) \in Above(tt, t) /\ Parent(tt, t) # None
<1>0. layout \in Layouts /\ tt \in Transforms
  BY DEF TTypeOK
<1>1. Upward(tt) /\ t \in Ids /\ None \notin Ids /\ Real \subseteq Ids
  BY <1>0, PathFacts, LayoutFacts, RealFacts
<1>2. /\ Parent(tt, Root) = None
      /\ \A u \in Real : Parent(tt, u) \in Real \cup {Root}
  BY RootFacts, RealFacts
<1>3. Closed(tt, Real \cup {Root})
  BY <1>2 DEF Closed
<1>4. Above(tt, t) \subseteq Real \cup {Root}
  BY <1>1, <1>2, <1>3, AboveFacts
<1>5. Parent(tt, t) # None
  <2>1. Root \in Ids
    BY <1>0, LayoutFacts
  <2> QED BY <1>1, <1>2, <2>1
<1>6. Free(tt, Real)
  <2>1. Real \subseteq Known(tt) \ {Root}
    BY DEF Real
  <2>2. ASSUME NEW S \in SUBSET Real, Trap(tt, S) PROVE FALSE
    <3>1. S \in SUBSET (Known(tt) \ {Root}) /\ S # {} /\ \A u \in S : Parent(tt, u) \in S
      BY <2>1, <2>2 DEF Trap
    <3> QED BY <3>1 DEF Clean
  <2> QED BY <2>2 DEF Free
<1>7. t \notin Above(tt, t)
  BY <1>1, <1>2, <1>4, <1>6, Acyclic
<1> QED BY <1>1, <1>4, <1>5, <1>7, AboveFacts

(* Insertions go from the root down: the next entry's parents are in place.   *)
LEMMA HighestIs ==
  ASSUME TTypeOK, TransformOK, Clean, todo \subseteq Real, todo # {}
  PROVE  Highest(todo) \in todo /\ \A u \in todo : u \notin Above(tt, Highest(todo))
<1>1. \A t \in todo : t \notin Above(tt, t) /\ Upward(tt) /\ t \in Ids
  BY AboveReal, RealFacts
<1>2. \E t \in todo : \A u \in todo : u \notin Above(tt, t)
  BY <1>1, SomeEnd
<1> QED BY <1>2 DEF Highest

(* What is to be inserted is where limbo has it, and nothing is where it goes.*)
LEMMA InsertFrom ==
  ASSUME TransformInv, stage = "insert", NEW t \in todo
  PROVE  /\ At(disk, Limbo(t)) = Contents(t)
         /\ \A j \in Inodes : disk[j] # Placed(t)
<1>1. /\ TTypeOK /\ TransformOK /\ Clean /\ todo \subseteq Real /\ t \in Real
      /\ \A v \in Real : disk[Contents(v)] = IF v \in todo THEN Limbo(v) ELSE Placed(v)
  BY InsertFacts
<1>2. /\ Contents(t) \in Inodes /\ Placed(t) # Gone
      /\ \A u : Placed(t) # Limbo(u) /\ Placed(t) # Deletion(u)
      /\ \A u \in Real : Placed(u) # Limbo(t)
      /\ \A u \in Real : Placed(t) = Placed(u) => t = u
  BY <1>1, RealFacts
<1>3. ASSUME NEW j \in Inodes
      PROVE  /\ disk[j] = Limbo(t) => j = Contents(t)
             /\ disk[j] # Placed(t)
  <2>1. CASE disk[j] = Gone
    BY <1>2, <2>1, PlaceFacts
  <2>2. CASE \E v \in Ids : disk[j] = Deletion(v)
    BY <1>2, <2>2, PlaceFacts
  <2>3. CASE \E v \in Real : j = Contents(v)
    <3>1. PICK v \in Real : j = Contents(v)
      BY <2>3
    <3>2. CASE v \in todo
      <4>1. disk[j] = Limbo(v)
        BY <1>1, <3>1, <3>2
      <4> QED BY <1>2, <3>1, <4>1, PlaceFacts
    <3>3. CASE v \notin todo
      <4>1. disk[j] = Placed(v)
        BY <1>1, <3>1, <3>3
      <4> QED BY <1>2, <3>3, <4>1
    <3> QED BY <3>2, <3>3
  <2> QED BY <2>1, <2>2, <2>3, InsertFacts
<1>4. disk[Contents(t)] = Limbo(t)
  BY <1>1
<1> QED BY <1>2, <1>3, <1>4 DEF At

(* The way from the root to its directory is there.                           *)
LEMMA InsertWay ==
  ASSUME TransformInv, stage = "insert", NEW t \in todo, \A u \in todo : u \notin Above(tt, t)
  PROVE  Walk(disk, [u \in Ids |-> FinalPath(tt, u)], Parent(tt, t)) = Contents(Parent(tt, t))
<1> DEFINE path == [u \in Ids |-> FinalPath(tt, u)]
           A == {Root} \cup Above(tt, t)
           c == [u \in Ids |-> Contents(u)]
<1>1. /\ TTypeOK /\ TransformOK /\ Clean /\ t \in Real
      /\ \A v \in Real : disk[Contents(v)] = IF v \in todo THEN Limbo(v) ELSE Placed(v)
  BY InsertFacts
<1>2. /\ Above(tt, t) \subseteq Real \cup {Root} /\ Upward(tt) /\ Parent(tt, t) \in Above(tt, t)
  BY <1>1, AboveReal
<1>3. /\ Real \subseteq Ids \ {Root} /\ Root \in Ids /\ None \notin Ids
      /\ layout \in Layouts /\ tt \in Transforms
  BY <1>1, RealFacts, LayoutFacts DEF TTypeOK
<1>4. A \subseteq Ids /\ Root \in A /\ c[Root] = RootDir /\ \A u \in Ids : c[u] = Contents(u)
  <2>1. Contents(Root) = RootDir
    BY <1>1, InodeFacts DEF Contents, TransformOK
  <2> QED BY <1>2, <1>3, <2>1
<1>5. \A u \in Ids : path[u].up = Parent(tt, u) /\ path[u].name = FinalPath(tt, u).name
  BY DEF Parent
<1>a. \A u \in A \ {Root} : u \in Real /\ u \notin todo /\ Parent(tt, u) \in A
  <2> SUFFICES ASSUME NEW u \in A \ {Root} PROVE u \in Real /\ u \notin todo /\ Parent(tt, u) \in A
    OBVIOUS
  <2>1. u \in Above(tt, t) /\ u \in Real /\ u \notin todo
    BY <1>2
  <2>2. Parent(tt, u) # None
    BY <1>1, <2>1, AboveReal
  <2>3. Closed(tt, Above(tt, t))
    BY <1>2, <1>3, <1>1, AboveFacts
  <2> QED BY <2>1, <2>2, <2>3 DEF Closed
<1> HIDE DEF path, A, c
<1>6. ASSUME NEW u \in Real, u \notin todo, NEW j \in Inodes, disk[j] = Placed(u) PROVE j = Contents(u)
  <2>1. /\ Placed(u) # Gone /\ \A v : Placed(u) # Limbo(v) /\ Placed(u) # Deletion(v)
        /\ \A v \in Real : Placed(u) = Placed(v) => u = v
    BY <1>1, <1>6, RealFacts
  <2>2. PICK v \in Real : j = Contents(v)
    BY <1>6, <2>1, InsertFacts
  <2> QED BY <1>1, <1>6, <2>1, <2>2
<1>7. ASSUME NEW u \in A \ {Root}
      PROVE  /\ path[u].up \in A
             /\ c[u] \in Inodes /\ disk[c[u]] = [dir |-> c[path[u].up], name |-> path[u].name]
             /\ \A j \in Inodes : disk[j] = disk[c[u]] => j = c[u]
  <2>1. u \in Real /\ u \notin todo /\ Parent(tt, u) \in A /\ u \in Ids /\ Parent(tt, u) \in Ids
    BY <1>a, <1>4
  <2>2. c[u] = Contents(u) /\ path[u].up = Parent(tt, u) /\ path[u].name = FinalPath(tt, u).name
        /\ c[path[u].up] = Contents(Parent(tt, u))
    BY <1>4, <1>5, <2>1
  <2>3. Contents(u) \in Inodes /\ disk[Contents(u)] = Placed(u)
    BY <1>1, <2>1, RealFacts
  <2> QED BY <1>6, <2>1, <2>2, <2>3 DEF Placed
<1>8. \A S \in SUBSET (A \ {Root}) : S # {} => \E u \in S : path[u].up \notin S
  <2> SUFFICES ASSUME NEW S \in SUBSET (A \ {Root}), S # {} PROVE \E u \in S : path[u].up \notin S
    OBVIOUS
  <2>1. S \in SUBSET (Known(tt) \ {Root}) /\ S \subseteq Ids
    BY <1>a, <1>4 DEF Real
  <2>2. \E u \in S : Parent(tt, u) \notin S
    BY <1>1, <2>1 DEF Clean
  <2> QED BY <1>5, <2>1, <2>2
<1>9. None \notin A /\ \A u \in A : c[u] # None
  <2>1. \A u \in A : c[u] \in Inodes
    <3>1. RootDir \in Inodes
      BY InodeFacts, IdsFinite
    <3> QED BY <1>4, <1>7, <3>1
  <2> QED BY <1>3, <1>4, <2>1, InodeAssumption
<1>10. Findable(disk, path, A, c)
  BY <1>4, <1>7, <1>8, <1>9 DEF Findable
<1>11. Parent(tt, t) \in A
  BY <1>2 DEF A
<1>12. Walk(disk, path, Parent(tt, t)) = c[Parent(tt, t)]
  BY <1>10, <1>11, WalkFinds
<1> QED BY <1>4, <1>11, <1>12 DEF path

(* _apply_insertions.                                                         *)
LEMMA InsertKeeps ==
  ASSUME TransformInv, InsertNext
  PROVE  TransformInv'
<1> DEFINE t == Highest(todo)
<1>0. /\ stage = "insert" /\ todo # {} /\ todo' = todo \ {t}
      /\ layout' = layout /\ tt' = tt /\ limbo' = limbo /\ inventory' = inventory /\ stage' = stage
  BY DEF InsertNext
<1>1. /\ TTypeOK /\ TransformOK /\ Clean /\ todo \subseteq Real
      /\ \A v \in Real : disk[Contents(v)] = IF v \in todo THEN Limbo(v) ELSE Placed(v)
  BY <1>0, InsertFacts
<1>2. t \in todo /\ \A u \in todo : u \notin Above(tt, t)
  BY <1>0, <1>1, HighestIs
<1>3. /\ At(disk, Limbo(t)) = Contents(t)
      /\ \A j \in Inodes : disk[j] # Placed(t)
      /\ Walk(disk, [u \in Ids |-> FinalPath(tt, u)], Parent(tt, t)) = Contents(Parent(tt, t))
  BY <1>0, <1>2, InsertFrom, InsertWay
<1>4. /\ t \in Real /\ Contents(t) \in Inodes /\ Contents(Parent(tt, t)) \in Inodes
      /\ Placed(t) \in Places /\ Placed(t) # Gone
  <2>1. t \in Real /\ Contents(t) \in Inodes /\ Parent(tt, t) \in Real \cup {Root}
        /\ Placed(t) \in Places /\ Placed(t) # Gone
    BY <1>1, <1>2, RealFacts
  <2>2. Contents(Root) \in Inodes
    BY <1>1, InodeFacts, IdsFinite DEF Contents, TransformOK
  <2> QED BY <1>1, <2>1, <2>2, RealFacts
<1>5. Contents(t) # None /\ Contents(Parent(tt, t)) # None
  BY <1>4, InodeAssumption
<1>6. /\ Rename(Contents(t), Placed(t))
      /\ past' = Append(past, [inode |-> Contents(t), from |-> disk[Contents(t)]])
  BY <1>3, <1>5 DEF InsertNext, Placed
<1> HIDE DEF t
<1>7. /\ JournalOK /\ StillThere /\ OnlyOld /\ InsertOK /\ LimboApart
      /\ limbo \in [Ids -> Places] /\ disk \in [Inodes -> Places]
      /\ layout \in Layouts /\ tt \in Transforms
  BY DEF TransformInv, TTypeOK
<1>8. /\ disk' \in [Inodes -> Places]
      /\ disk'[Contents(t)] = Placed(t)
      /\ \A j \in Inodes \ {Contents(t)} : disk'[j] = disk[j]
  BY <1>3, <1>4, <1>6, <1>7, RenameFree
<1>9. /\ JournalOK' /\ StillThere' /\ OnlyOld'
      /\ past' \in Seq([inode : Inodes, from : Places])
  <2>1. \A u \in Ids \ Old : Contents(t) # OldContents(u)
    <3>1. CASE tt.created[t] # None
      BY <3>1, InodeFacts DEF Contents
    <3>2. CASE tt.created[t] = None
      <4>1. t # Root /\ TreeKind(t) # None
        BY <1>4, <3>2 DEF Real, FinalKind
      <4>2. t \in Old
        BY <4>1 DEF TreeKind
      <4> QED BY <3>2, <4>2, InodeFacts DEF Contents
    <3> QED BY <3>1, <3>2
  <2>2. disk[Contents(t)] = Limbo(t) /\ disk[Contents(t)] # Gone
    BY <1>1, <1>2, <1>4, PlaceFacts
  <2> QED BY <1>0, <1>1, <1>3, <1>4, <1>6, <1>7, <2>1, <2>2, JournalStep
<1>10. InsertOK'
  <2>1. ASSUME NEW v \in Real
        PROVE  disk'[Contents(v)] = IF v \in todo' THEN Limbo(v) ELSE Placed(v)
    <3>1. CASE v = t
      BY <1>0, <1>8, <3>1
    <3>2. CASE v # t
      <4>1. Contents(v) \in Inodes \ {Contents(t)}
        BY <1>1, <3>2, RealFacts
      <4> QED BY <1>0, <1>1, <1>8, <3>2, <4>1
    <3> QED BY <3>1, <3>2
  <2>2. ASSUME NEW v \in tt.removed PROVE disk'[OldContents(v)] = Deletion(v)
    <3>1. disk[OldContents(v)] = Deletion(v)
      BY <1>0, <1>7 DEF InsertOK
    <3>2. OldContents(v) \in Inodes
      BY <1>7, LayoutFacts, InodeFacts DEF Transforms
    <3>3. OldContents(v) # Contents(t)
      BY <1>1, <1>2, <1>4, <3>1, PlaceFacts
    <3> QED BY <1>8, <3>1, <3>2, <3>3
  <2>3. ASSUME NEW v \in Ids \ {Root}, tt.created[v] = None PROVE disk'[NewContents(v)] = Gone
    <3>1. disk[NewContents(v)] = Gone
      BY <1>0, <1>7, <2>3 DEF InsertOK
    <3>2. NewContents(v) \in Inodes
      BY <2>3, InodeFacts
    <3>3. NewContents(v) # Contents(t)
      BY <1>1, <1>2, <1>4, <3>1, PlaceFacts
    <3> QED BY <1>8, <3>1, <3>2, <3>3
  <2>4. Real' = Real /\ \A v : Contents(v)' = Contents(v) /\ Placed(v)' = Placed(v)
    BY <1>0, SamePlan
  <2>5. todo' \subseteq Real'
    BY <1>0, <1>1, <2>4
  <2>6. \A v \in Real' : disk'[Contents(v)'] = IF v \in todo' THEN Limbo(v) ELSE Placed(v)'
    BY <2>1, <2>4
  <2> QED BY <1>0, <2>2, <2>3, <2>5, <2>6
          DEF InsertOK, OldContents, NewContents, Gone, Ids, Root, Deletion, Limbo
<1>11. RemoveOK'
  BY <1>0 DEF RemoveOK
<1>12. LimboApart'
  BY <1>0, <1>7, LimboStays
<1> QED BY <1>0, <1>1, <1>7, <1>8, <1>9, <1>10, <1>11, <1>12, ApplyingRest

-----------------------------------------------------------------------------
(* Failure: renames are taken back, and limbo is deleted                      *)

(* A rename fails.                                                            *)
LEMMA RenameFailsKeeps ==
  ASSUME TransformInv, RenameFails
  PROVE  TransformInv'
<1>0. /\ stage \in {"remove", "insert", "rollback"} /\ stage' \in {"rollback", "half"}
      /\ layout' = layout /\ tt' = tt /\ limbo' = limbo /\ disk' = disk /\ inventory' = inventory
      /\ past' = past
  BY DEF RenameFails, Fault
<1>1. /\ TTypeOK /\ JournalOK /\ StillThere /\ OnlyOld /\ LimboApart
  BY DEF TransformInv
<1>2. RemoveOK' /\ InsertOK'
  BY <1>0 DEF RemoveOK, InsertOK
<1>3. JournalOK' /\ StillThere' /\ OnlyOld'
  BY <1>0, <1>1, JournalStays
<1>4. LimboApart'
  BY <1>0, <1>1, LimboStays
<1> QED BY <1>0, <1>1, <1>2, <1>3, <1>4, ApplyingRest DEF TTypeOK

(* A sequence without its last element.                                       *)
LEMMA FrontFacts ==
  ASSUME NEW S, NEW s \in Seq(S), s # <<>>
  PROVE  /\ Len(s) \in Nat \ {0} /\ Len(s) \in 1 .. Len(s) /\ \A k \in 1 .. Len(s) : s[k] \in S
         /\ SubSeq(s, 1, Len(s) - 1) \in Seq(S) /\ Len(SubSeq(s, 1, Len(s) - 1)) = Len(s) - 1
         /\ \A k \in 1 .. Len(s) - 1 : SubSeq(s, 1, Len(s) - 1)[k] = s[k]
<1> DEFINE n == Len(s)
<1>1. n \in Nat /\ n # 0 /\ \A k \in 1 .. n : s[k] \in S
  OBVIOUS
<1>2. n \in 1 .. n /\ \A k \in 1 .. n - 1 : k \in 1 .. n
  BY <1>1
<1>3. SubSeq(s, 1, n - 1) = [k \in 1 .. n - 1 |-> s[k]]
  BY <1>1
<1> HIDE DEF n
<1>4. /\ SubSeq(s, 1, n - 1) \in Seq(S) /\ Len(SubSeq(s, 1, n - 1)) = n - 1
      /\ \A k \in 1 .. n - 1 : SubSeq(s, 1, n - 1)[k] = s[k]
  <2>1. n - 1 \in Nat
    BY <1>1
  <2> QED BY <1>1, <1>2, <1>3, <2>1
<1> QED BY <1>1, <1>2, <1>4 DEF n

(* _FileMover.rollback, one rename of it.                                     *)
LEMMA RollbackKeeps ==
  ASSUME TransformInv, Rollback
  PROVE  TransformInv'
<1> DEFINE n == Len(past)
           last == past[n]
<1>0. /\ stage = "rollback" /\ past # <<>> /\ stage' = stage
      /\ disk' = [disk EXCEPT ![last.inode] = last.from] /\ past' = SubSeq(past, 1, n - 1)
      /\ layout' = layout /\ tt' = tt /\ limbo' = limbo /\ inventory' = inventory
  BY DEF Rollback, Last, Front
<1>1. /\ TTypeOK /\ JournalOK /\ StillThere /\ OnlyOld /\ LimboApart
      /\ layout \in Layouts /\ limbo \in [Ids -> Places] /\ disk \in [Inodes -> Places]
      /\ past \in Seq([inode : Inodes, from : Places])
  BY DEF TransformInv, TTypeOK
<1>2. n \in Nat \ {0} /\ n \in 1 .. n /\ \A k \in 1 .. n : past[k] \in [inode : Inodes, from : Places]
  BY <1>0, <1>1, FrontFacts
<1>3. last.inode \in Inodes /\ last.from \in Places
  BY <1>2
<1>4. /\ past' \in Seq([inode : Inodes, from : Places]) /\ Len(past') = n - 1
      /\ \A k \in 1 .. n - 1 : past'[k] = past[k]
  BY <1>0, <1>1, FrontFacts
<1> HIDE DEF n, last
<1>a. n = Len(past) /\ last = past[n]
  BY DEF n, last
<1>5. /\ disk' \in [Inodes -> Places] /\ disk'[last.inode] = last.from
      /\ \A j \in Inodes \ {last.inode} : disk'[j] = disk[j]
  BY <1>0, <1>1, <1>3
<1>6. /\ \A k \in 1 .. n, t \in Ids \ Old : past[k].inode # OldContents(t)
      /\ \A o \in Old :
           /\ Renamings(o) = {} => disk[OldContents(o)] = Original(o)
           /\ \A k \in Renamings(o) :
                /\ past[k].from # Gone
                /\ (\A j \in Renamings(o) : k <= j) => past[k].from = Original(o)
  BY <1>0, <1>1, <1>a DEF JournalOK
<1>7. \A k \in 1 .. n - 1 : k \in 1 .. n
  BY <1>2
<1>b. \A k \in 1 .. n : k \in 1 .. n - 1 \/ k = n
  BY <1>2
<1>8. ASSUME NEW o \in Old
      PROVE  /\ disk'[OldContents(o)] # Gone
             /\ Renamings(o)' = {} => disk'[OldContents(o)] = Original(o)
             /\ \A k \in Renamings(o)' :
                  /\ past'[k].from # Gone
                  /\ (\A j \in Renamings(o)' : k <= j) => past'[k].from = Original(o)
  <2>0. OldContents(o) \in Inodes /\ disk[OldContents(o)] # Gone
    BY <1>0, <1>1, InodeFacts, LayoutFacts DEF StillThere
  <2>1. Renamings(o) = {k \in 1 .. n : past[k].inode = OldContents(o)}
    BY <1>a DEF Renamings
  <2>2. Renamings(o)' = {k \in 1 .. n - 1 : past[k].inode = OldContents(o)}
    <3>1. Renamings(o)' = {k \in 1 .. Len(past') : past'[k].inode = OldContents(o)}
      BY DEF Renamings, OldContents
    <3> QED BY <1>4, <3>1
  <2>3. Renamings(o)' = Renamings(o) \ {n}
    BY <1>2, <1>7, <1>b, <2>1, <2>2
  <2>4. \A k \in Renamings(o)' : past'[k] = past[k] /\ k <= n
    BY <1>2, <1>4, <2>2
  <2>5. ASSUME NEW k \in Renamings(o)', \A j \in Renamings(o)' : k <= j
        PROVE  \A j \in Renamings(o) : k <= j
    BY <2>3, <2>4, <2>5
  <2>6. \A k \in Renamings(o)' :
          /\ past'[k].from # Gone
          /\ (\A j \in Renamings(o)' : k <= j) => past'[k].from = Original(o)
    BY <1>6, <2>3, <2>4, <2>5
  <2>7. CASE last.inode = OldContents(o)
    <3>1. n \in Renamings(o) /\ disk'[OldContents(o)] = last.from
      BY <1>2, <1>5, <1>a, <2>1, <2>7
    <3>2. last.from # Gone
      BY <1>6, <1>a, <3>1
    <3>3. ASSUME Renamings(o)' = {} PROVE last.from = Original(o)
      <4>1. \A j \in Renamings(o) : j = n
        BY <2>3, <3>3
      <4>2. \A j \in Renamings(o) : n <= j
        BY <1>2, <4>1
      <4> QED BY <1>6, <1>a, <3>1, <4>2
    <3> QED BY <2>6, <3>1, <3>2, <3>3
  <2>8. CASE last.inode # OldContents(o)
    <3>1. Renamings(o)' = Renamings(o)
      BY <1>a, <2>1, <2>3, <2>8
    <3>2. disk'[OldContents(o)] = disk[OldContents(o)]
      BY <1>5, <2>0, <2>8
    <3> QED BY <1>6, <2>0, <2>6, <3>1, <3>2
  <2> QED BY <2>7, <2>8
<1>9. \A o \in Old : Original(o)' = Original(o)
  BY <1>0, SameTree
<1>10. JournalOK'
  <2>1. \A k \in 1 .. Len(past'), t \in Ids \ Old : past'[k].inode # OldContents(t)
    BY <1>4, <1>6, <1>7
  <2> QED BY <1>8, <1>9, <2>1 DEF JournalOK, OldContents, Gone, Ids
<1>11. StillThere'
  BY <1>8 DEF StillThere, OldContents, Gone
<1>12. OnlyOld'
  <2>1. ASSUME NEW t \in Ids \ Old PROVE disk'[OldContents(t)] = Gone
    <3>1. OldContents(t) \in Inodes /\ disk[OldContents(t)] = Gone
      BY <1>1, InodeFacts DEF OnlyOld
    <3>2. last.inode # OldContents(t)
      BY <1>2, <1>6, <1>a
    <3> QED BY <1>5, <3>1, <3>2
  <2> QED BY <2>1 DEF OnlyOld, OldContents, Gone, Ids
<1>13. RemoveOK' /\ InsertOK'
  BY <1>0 DEF RemoveOK, InsertOK
<1>14. LimboApart'
  BY <1>0, <1>1, LimboStays
<1> QED BY <1>0, <1>1, <1>4, <1>5, <1>10, <1>11, <1>12, <1>13, <1>14, ApplyingRest

-----------------------------------------------------------------------------
(* What is in limbo *)

InLimboBody(g, n, j) ==
  \/ disk[j].dir[2] = "limbo"
  \/ n > 0 /\ disk[j].dir \in Inodes /\ g[n - 1][disk[j].dir]
Limbos(n, g) == g = [i \in 0 .. n |-> [j \in Inodes |-> InLimboBody(g, i, j)]]

(* The recursion in InLimbo has a solution.                                   *)
LEMMA LimbosExist ==
  ASSUME NEW N \in Nat
  PROVE  \E g : Limbos(N, g)
<1> DEFINE S == {n \in Nat : \E g : Limbos(n, g)}
<1>1. 0 \in S
  <2> DEFINE g == [i \in 0 .. 0 |-> [j \in Inodes |-> InLimboBody(<<>>, 0, j)]]
  <2>1. ASSUME NEW i \in 0 .. 0, NEW j \in Inodes
        PROVE  InLimboBody(<<>>, 0, j) = InLimboBody(g, i, j)
    <3>1. i = 0 /\ ~(0 > 0)
      OBVIOUS
    <3> HIDE DEF g
    <3> QED BY <3>1, Zenon DEF InLimboBody
  <2>2. ASSUME NEW i \in 0 .. 0 PROVE g[i] = [j \in Inodes |-> InLimboBody(g, i, j)]
    <3>1. g[i] = [j \in Inodes |-> InLimboBody(<<>>, 0, j)]
      OBVIOUS
    <3> HIDE DEF g
    <3> QED BY <2>1, <3>1, Zenon
  <2>3. Limbos(0, g)
    BY <2>2 DEF Limbos
  <2> HIDE DEF g
  <2> QED BY <2>3
<1>2. ASSUME NEW n \in Nat, n \in S PROVE n + 1 \in S
  <2>1. PICK g : Limbos(n, g)
    BY <1>2
  <2> DEFINE Row(i) == [j \in Inodes |-> InLimboBody(g, i, j)]
             h == [i \in 0 .. n + 1 |-> IF i <= n THEN g[i] ELSE Row(i)]
  <2>2. ASSUME NEW i \in 0 .. n + 1 PROVE h[i] = [j \in Inodes |-> InLimboBody(h, i, j)]
    <3>1. h[i] = Row(i)
      BY <2>1 DEF Limbos
    <3>2. i > 0 => h[i - 1] = g[i - 1]
      OBVIOUS
    <3> HIDE DEF h
    <3>3. ASSUME NEW j \in Inodes PROVE InLimboBody(g, i, j) = InLimboBody(h, i, j)
      BY <3>2, Zenon DEF InLimboBody
    <3> QED BY <3>1, <3>3, Zenon
  <2>3. Limbos(n + 1, h)
    BY <2>2 DEF Limbos
  <2> HIDE DEF h
  <2> QED BY <2>3
<1> HIDE DEF S
<1>3. \A n \in Nat : n \in S
  BY <1>1, <1>2, NatSetInduction
<1> QED BY <1>3 DEF S

(* The tree, where it was, is not in limbo.                                   *)
LEMMA TreeNotInLimbo ==
  ASSUME layout \in Layouts, OnlyOld, \A t \in Old : disk[OldContents(t)] = Original(t)
  PROVE  \A t \in Old : ~InLimbo(OldContents(t))
<1> DEFINE N == Cardinality(Ids)
           L == CHOOSE g : Limbos(N, g)
<1>0. N \in Nat
  BY IdsFinite
<1>1. \A i : InLimbo(i) = L[N][i]
  BY DEF InLimbo, Limbos, InLimboBody
<1>2. Limbos(N, L)
  BY <1>0, LimbosExist
<1> HIDE DEF L, N
<1>3. \A n \in 0 .. N : L[n] = [j \in Inodes |-> InLimboBody(L, n, j)]
  BY <1>2 DEF Limbos
<1>4. \A n \in 0 .. N : \A j \in Inodes : L[n][j] = InLimboBody(L, n, j)
  <2>1. ASSUME NEW n \in 0 .. N, NEW j \in Inodes PROVE L[n][j] = InLimboBody(L, n, j)
    <3>1. L[n] = [k \in Inodes |-> InLimboBody(L, n, k)]
      BY <1>3
    <3> QED BY <3>1, Zenon
  <2> QED BY <2>1
<1> DEFINE T == {Root} \cup Old
           S == {n \in Nat : n <= N => \A t \in T : ~L[n][OldContents(t)]}
<1>5. ASSUME NEW t \in T
      PROVE  /\ OldContents(t) \in Inodes /\ disk[OldContents(t)].dir[2] # "limbo"
             /\ disk[OldContents(t)].dir \in Inodes =>
                  \E u \in T : disk[OldContents(t)].dir = OldContents(u)
  <2>1. OldContents(t) \in Inodes
    BY InodeFacts, LayoutFacts
  <2>2. CASE t = Root
    <3>1. disk[OldContents(t)] = Gone
      BY <2>2, LayoutFacts DEF OnlyOld
    <3>2. Gone.dir = <<Root, "gone">>
      BY DEF Gone
    <3>3. <<Root, "gone">> \notin Inodes
      <4>1. ASSUME <<Root, "gone">> \in Inodes PROVE FALSE
        <5>1. <<Root, "gone">>[2] \in {"old", "new"}
          BY <4>1, InodeFacts
        <5> QED BY <5>1
      <4> QED BY <4>1
    <3> QED BY <2>1, <3>1, <3>2, <3>3
  <2>3. CASE t \in Old
    <3>1. disk[OldContents(t)].dir = OldContents(layout[t].up) /\ layout[t].up \in T
      <4>1. disk[OldContents(t)] = Original(t)
        BY <2>3
      <4>2. Original(t).dir = OldContents(layout[t].up)
        BY DEF Original
      <4> QED BY <2>3, <4>1, <4>2, LayoutFacts
    <3>2. OldContents(layout[t].up)[2] # "limbo"
      BY InodeFacts
    <3> QED BY <2>1, <3>1, <3>2
  <2> QED BY <2>2, <2>3
<1>6. 0 \in S
  <2>1. 0 \in 0 .. N /\ ~(0 > 0)
    BY <1>0
  <2>2. ASSUME NEW t \in T PROVE ~InLimboBody(L, 0, OldContents(t))
    <3>1. disk[OldContents(t)].dir[2] # "limbo"
      BY <1>5
    <3> QED BY <2>1, <3>1, Zenon DEF InLimboBody
  <2> QED BY <1>4, <1>5, <2>1, <2>2
<1>7. ASSUME NEW n \in Nat, n \in S PROVE n + 1 \in S
  <2> SUFFICES ASSUME n + 1 <= N, NEW t \in T, L[n + 1][OldContents(t)] PROVE FALSE
    OBVIOUS
  <2>1. n + 1 \in 0 .. N /\ (n + 1) - 1 = n /\ n <= N
    BY <1>0
  <2>2. InLimboBody(L, n + 1, OldContents(t))
    BY <1>4, <1>5, <2>1
  <2>3. disk[OldContents(t)].dir \in Inodes /\ L[n][disk[OldContents(t)].dir]
    BY <1>5, <2>1, <2>2 DEF InLimboBody
  <2> QED BY <1>5, <1>7, <2>1, <2>3
<1> HIDE DEF S
<1>8. \A n \in Nat : n \in S
  BY <1>6, <1>7, NatSetInduction
<1>9. \A t \in T : ~L[N][OldContents(t)]
  BY <1>0, <1>8 DEF S
<1> QED BY <1>1, <1>9

(* A transform that has ended without being applied.                          *)
LEMMA FinalizeKeeps ==
  ASSUME TransformInv, Finalize
  PROVE  TransformInv'
<1>0. /\ \/ stage = "rollback" /\ past = <<>> /\ stage' = "failed"
         \/ stage = "half" /\ stage' = "broken"
         \/ stage \in {"malformed", "error"} /\ stage' = "refused"
      /\ disk' = [i \in Inodes |-> IF InLimbo(i) THEN Gone ELSE disk[i]]
      /\ layout' = layout /\ tt' = tt /\ limbo' = limbo /\ inventory' = inventory /\ past' = past
  BY DEF Finalize
<1>1. /\ TTypeOK /\ TransformOK /\ JournalOK /\ PlanningOK /\ StillThere /\ OnlyOld /\ LimboApart
      /\ layout \in Layouts /\ limbo \in [Ids -> Places] /\ disk \in [Inodes -> Places]
      /\ past \in Seq([inode : Inodes, from : Places]) /\ inventory = OldInventory
  BY <1>0 DEF TransformInv, TTypeOK, InventoryOK
<1>2. ASSUME stage' \in {"failed", "refused"}
      PROVE  \A t \in Old : disk[OldContents(t)] = Original(t) /\ disk'[OldContents(t)] = Original(t)
  <2>1. \A t \in Old : disk[OldContents(t)] = Original(t)
    <3>1. CASE stage = "rollback" /\ past = <<>>
      <4>1. \A t \in Old : Renamings(t) = {}
        BY <3>1 DEF Renamings
      <4> QED BY <1>1, <3>1, <4>1 DEF JournalOK
    <3>2. CASE stage \in {"malformed", "error"}
      BY <1>1, <3>2 DEF PlanningOK, Planning
    <3> QED BY <1>0, <1>2, <3>1, <3>2
  <2>2. \A t \in Old : ~InLimbo(OldContents(t)) /\ OldContents(t) \in Inodes
    BY <1>1, <2>1, TreeNotInLimbo, InodeFacts, LayoutFacts
  <2> QED BY <1>0, <2>1, <2>2
<1>3. disk' \in [Inodes -> Places]
  BY <1>0, <1>1, PlaceFacts
<1>4. TransformOK' /\ tt' \in Transforms /\ layout' \in Layouts
  BY <1>0, <1>1, PlanStays
<1>5. TTypeOK'
  BY <1>0, <1>1, <1>3, <1>4
     DEF TTypeOK, Transforms, Paths, NoPath, Ids, Inodes, Places, Dirs, Kinds
<1>6. \A t : Original(t)' = Original(t)
  BY <1>0, SamePlan
<1>7. RollbackRestores'
  BY <1>2, <1>6 DEF RollbackRestores, OldContents
<1>8. StillThere'
  <2>1. CASE stage' = "broken"
    BY <2>1 DEF StillThere
  <2>2. CASE stage' \in {"failed", "refused"}
    <3>1. \A t \in Old : Original(t) # Gone
      BY PlaceFacts DEF Original
    <3> QED BY <1>2, <2>2, <3>1 DEF StillThere, OldContents, Gone
  <2> QED BY <1>0, <2>1, <2>2
<1>9. OnlyOld'
  <2>1. \A t \in Ids \ Old : OldContents(t) \in Inodes /\ disk'[OldContents(t)] = Gone
    BY <1>0, <1>1, InodeFacts DEF OnlyOld
  <2> QED BY <2>1 DEF OnlyOld, OldContents, Gone, Ids
<1>10. LimboApart'
  BY <1>0, <1>1, LimboStays
<1>11. ConflictsOK' /\ PlanningOK' /\ NoConflicts' /\ RemoveOK' /\ InsertOK' /\ JournalOK'
  BY <1>0 DEF ConflictsOK, PlanningOK, Planning, NoConflicts, RemoveOK, InsertOK, JournalOK
<1>12. InventoryOK'
  BY <1>0, <1>1, SamePlan DEF InventoryOK
<1> QED BY <1>4, <1>5, <1>7, <1>8, <1>9, <1>10, <1>11, <1>12 DEF TransformInv

-----------------------------------------------------------------------------
(* Deletions *)

(* apply_deletions: what is pending is deleted, and only that.                *)
LEMMA ApplyDeletionsKeeps ==
  ASSUME TransformInv, ApplyDeletions
  PROVE  TransformInv'
<1>0. /\ stage = "insert" /\ todo = {} /\ stage' = "inventory"
      /\ disk' = [i \in Inodes |-> IF disk[i].dir[2] = "pending-deletion" THEN Gone ELSE disk[i]]
      /\ layout' = layout /\ tt' = tt /\ limbo' = limbo /\ inventory' = inventory /\ past' = past
  BY DEF ApplyDeletions
<1>1. /\ TTypeOK /\ TransformOK /\ Clean /\ InsertOK /\ OnlyOld /\ LimboApart
      /\ layout \in Layouts /\ limbo \in [Ids -> Places] /\ disk \in [Inodes -> Places]
      /\ past \in Seq([inode : Inodes, from : Places]) /\ tt.removed \subseteq Old
  BY <1>0 DEF TransformInv, TTypeOK, NoConflicts, Transforms
<1>2. disk' \in [Inodes -> Places]
  BY <1>0, <1>1, PlaceFacts
<1>3. ASSUME NEW t \in Real PROVE disk'[Contents(t)] = Placed(t)
  <2>1. disk[Contents(t)] = Placed(t) /\ Contents(t) \in Inodes
    BY <1>0, <1>1, RealFacts DEF InsertOK
  <2>2. Placed(t).dir[2] # "pending-deletion"
    <3>1. Placed(t).dir \in {OldContents(Parent(tt, t)), NewContents(Parent(tt, t))}
      BY DEF Placed, Contents
    <3> QED BY <3>1, InodeFacts
  <2> QED BY <1>0, <2>1, <2>2
<1>4. ASSUME NEW t \in tt.removed PROVE disk'[OldContents(t)] = Gone
  <2>1. disk[OldContents(t)] = Deletion(t) /\ OldContents(t) \in Inodes
    BY <1>0, <1>1, InodeFacts, LayoutFacts DEF InsertOK
  <2> QED BY <1>0, <2>1, PlaceFacts
<1>5. ASSUME NEW i \in Inodes, disk[i] = Gone PROVE disk'[i] = Gone
  BY <1>0, <1>5
<1>6. InsertOK'
  <2>1. \A t \in Ids \ {Root} : tt.created[t] = None => disk'[NewContents(t)] = Gone
    BY <1>0, <1>1, <1>5, InodeFacts DEF InsertOK
  <2>2. \A t \in Real' : disk'[Contents(t)'] = Placed(t)'
    BY <1>0, <1>3, SamePlan
  <2>3. \A t \in tt'.removed : disk'[OldContents(t)] = Gone
    BY <1>0, <1>4
  <2> QED BY <1>0, <2>1, <2>2, <2>3
          DEF InsertOK, OldContents, NewContents, Gone, Ids, Root, Deletion, Limbo
<1>7. OnlyOld'
  <2>1. \A t \in Ids \ Old : disk'[OldContents(t)] = Gone
    BY <1>1, <1>5, InodeFacts DEF OnlyOld
  <2> QED BY <2>1 DEF OnlyOld, OldContents, Gone, Ids
<1>8. RemoveOK' /\ JournalOK' /\ StillThere'
  BY <1>0 DEF RemoveOK, JournalOK, StillThere
<1>9. LimboApart'
  BY <1>0, <1>1, LimboStays
<1> QED BY <1>0, <1>1, <1>2, <1>6, <1>7, <1>8, <1>9, ApplyingRest

-----------------------------------------------------------------------------
(* The inventory *)

(* A file id is that of one entry.                                            *)
LEMMA OneFile ==
  ASSUME TTypeOK, TransformOK, Clean, NEW t \in Known(tt) \ {Root}, NEW u \in Known(tt) \ {Root},
         FinalFile(tt, t) = FinalFile(tt, u), FinalFile(tt, t) # None
  PROVE  t = u
<1>0. layout \in Layouts /\ tt \in Transforms /\ Known(tt) \subseteq Ids
  BY PathFacts DEF TTypeOK
<1>1. ASSUME NEW v \in Known(tt) \ {Root}, FinalFile(tt, v) # None, tt.file[v] = None
      PROVE  v \in Old /\ FinalFile(tt, v) = v /\ TreeFile(v) = v /\ v \notin tt.unversioned
  <2>1. v \notin tt.unversioned /\ FinalFile(tt, v) = TreeFile(v)
    BY <1>1 DEF FinalFile
  <2>2. v \in Old /\ TreeFile(v) = layout[v].file
    BY <1>1, <2>1 DEF TreeFile
  <2> QED BY <1>0, <1>1, <2>1, <2>2, LayoutFacts
<1>2. ASSUME NEW v \in Known(tt) \ {Root}, NEW w \in Known(tt) \ {Root},
             FinalFile(tt, v) = FinalFile(tt, w), FinalFile(tt, v) # None,
             tt.file[v] = None, tt.file[w] # None
      PROVE  FALSE
  <2>1. v \in Old /\ FinalFile(tt, v) = v /\ TreeFile(v) = v /\ v \notin tt.unversioned
    BY <1>1, <1>2
  <2>2. tt.file[w] = v
    BY <1>2, <2>1 DEF FinalFile
  <2>3. TreeFile(tt.file[w]) # None
    BY <1>2, <2>1, <2>2
  <2> QED BY <1>0, <2>1, <2>2, <2>3 DEF Clean
<1>3. CASE tt.file[t] = None /\ tt.file[u] = None
  BY <1>1, <1>3
<1>4. CASE tt.file[t] # None /\ tt.file[u] # None
  BY <1>0, <1>4 DEF FinalFile, TransformOK
<1> QED BY <1>2, <1>3, <1>4

(* What a part of the inventory is planned to be.                             *)
LEMMA PlannedIs ==
  ASSUME TTypeOK, TransformOK, Clean, NEW ids, ids \subseteq Known(tt) \ {Root}
  PROVE  /\ Planned(ids) = [f \in {FinalFile(tt, u) : u \in ids} \ {None} |-> Planned(ids)[f]]
         /\ \A t \in ids : FinalFile(tt, t) # None => Planned(ids)[FinalFile(tt, t)] = Entry(t)
<1> DEFINE who(f) == CHOOSE u \in ids : FinalFile(tt, u) = f
           F == {FinalFile(tt, u) : u \in ids} \ {None}
<1>1. Planned(ids) = [f \in F |-> Entry(who(f))]
  BY DEF Planned
<1>2. ASSUME NEW t \in ids, FinalFile(tt, t) # None PROVE who(FinalFile(tt, t)) = t
  <2>1. who(FinalFile(tt, t)) \in ids /\ FinalFile(tt, who(FinalFile(tt, t))) = FinalFile(tt, t)
    OBVIOUS
  <2> HIDE DEF who
  <2> QED BY <1>2, <2>1, OneFile
<1>3. \A t \in ids : FinalFile(tt, t) # None => FinalFile(tt, t) \in F
  OBVIOUS
<1> HIDE DEF who, F
<1>4. Planned(ids) = [f \in F |-> Planned(ids)[f]]
  BY <1>1
<1>5. ASSUME NEW t \in ids, FinalFile(tt, t) # None PROVE Planned(ids)[FinalFile(tt, t)] = Entry(t)
  <2>1. Planned(ids)[FinalFile(tt, t)] = Entry(who(FinalFile(tt, t)))
    BY <1>1, <1>3, <1>5
  <2> QED BY <1>2, <1>5, <2>1
<1> QED BY <1>4, <1>5 DEF F

(* What is altered, and that the rest is in the old inventory as it will be.  *)
LEMMA AlteredFacts ==
  ASSUME TTypeOK, TransformOK, Clean
  PROVE  /\ Altered \subseteq Known(tt) \ {Root}
         /\ \A u \in Known(tt) \ {Root} : u \notin Altered /\ FinalFile(tt, u) # None =>
              /\ FinalFile(tt, u) = u /\ u \in Old /\ layout[u].file # None /\ u \notin Removed
              /\ Entry(u) = [up |-> layout[u].up, name |-> layout[u].name, kind |-> layout[u].kind]
<1>0. layout \in Layouts /\ tt \in Transforms /\ tt.removed \subseteq Old /\ tt.unversioned \subseteq Ids
  BY DEF TTypeOK, Transforms
<1> DEFINE newFiles == {t \in Ids : tt.file[t] # None /\ tt.file[t] # TreeFile(t)}
<1>1. Altered = {t \in Ids : PathChanged(tt, t)} \cup newFiles
                \cup {t \in tt.removed : tt.created[t] \notin {None, TreeKind(t)}}
                \cup {t \in Old : layout[t].up \in newFiles}
  BY DEF Altered
<1>2. Altered \subseteq Known(tt) \ {Root}
  <2>1. \A t \in Ids : PathChanged(tt, t) => t \in Known(tt) /\ t # Root
    BY <1>0, PathFacts DEF TransformOK, PathChanged
  <2>2. \A t \in Ids : tt.file[t] # None => t \in Known(tt) /\ t # Root
    BY DEF TransformOK
  <2>3. \A t \in Old : t \in Known(tt) /\ t # Root
    BY <1>0, PathFacts, LayoutFacts
  <2> QED BY <1>0, <1>1, <2>1, <2>2, <2>3
<1>3. ASSUME NEW p \in Old, p \notin newFiles, FinalFile(tt, p) # None
      PROVE  FinalFile(tt, p) = p /\ layout[p].file = p /\ TreeFile(p) = p
  <2>1. p \in Ids /\ TreeFile(p) = layout[p].file /\ layout[p].file \in {p, None}
    BY <1>0, LayoutFacts DEF TreeFile
  <2>2. FinalFile(tt, p) = TreeFile(p)
    BY <1>3, <2>1 DEF FinalFile
  <2> QED BY <1>3, <2>1, <2>2
<1>4. ASSUME NEW u \in Known(tt) \ {Root}, u \notin Altered, FinalFile(tt, u) # None
      PROVE  /\ FinalFile(tt, u) = u /\ u \in Old /\ layout[u].file # None /\ u \notin Removed
             /\ Entry(u) = [up |-> layout[u].up, name |-> layout[u].name, kind |-> layout[u].kind]
  <2>1. u \in Ids /\ ~PathChanged(tt, u) /\ u \notin newFiles
    BY <1>0, <1>1, <1>4, PathFacts
  <2>2. u \in Old
    BY <1>0, <2>1, PathFacts
  <2>3. FinalFile(tt, u) = u /\ layout[u].file = u /\ TreeFile(u) = u
    BY <1>3, <1>4, <2>1, <2>2
  <2>4. u # None
    BY <1>0, <2>1, LayoutFacts
  <2> DEFINE p == layout[u].up
  <2>5. FinalPath(tt, u) = [up |-> p, name |-> layout[u].name] /\ Parent(tt, u) = p
    BY <1>0, <2>1, <2>2, PathFacts DEF Parent
  <2>6. FinalFile(tt, p) = p
    <3>1. FinalFile(tt, p) # None
      BY <1>4, <2>5 DEF Clean
    <3>2. p \in {Root} \cup Old
      BY <1>0, <2>2, LayoutFacts
    <3>3. CASE p = Root
      BY <3>3, RootFacts
    <3>4. CASE p \in Old
      <4>1. p \notin newFiles
        BY <1>1, <1>4, <2>2
      <4> QED BY <1>3, <3>1, <3>4, <4>1
    <3> QED BY <3>2, <3>3, <3>4
  <2>7. FinalKind(tt, u) = layout[u].kind
    <3>1. TreeKind(u) = layout[u].kind
      BY <1>0, <2>2, LayoutFacts DEF TreeKind
    <3>2. CASE tt.created[u] # None
      <4>1. u \in tt.removed
        BY <2>2, <3>2 DEF Clean
      <4>2. tt.created[u] = TreeKind(u)
        BY <1>1, <1>4, <3>2, <4>1
      <4> QED BY <3>1, <3>2, <4>2 DEF FinalKind
    <3>3. CASE tt.created[u] = None
      <4>1. u \notin tt.removed
        <5> SUFFICES ASSUME u \in tt.removed PROVE FALSE
          OBVIOUS
        <5>1. u \in tt.unversioned
          BY <3>3 DEF TransformOK
        <5>2. tt.file[u] # None
          BY <1>4, <5>1 DEF FinalFile
        <5>3. FinalKind(tt, u) # None
          BY <2>1, <5>2 DEF Clean
        <5> QED BY <3>3, <5>3 DEF FinalKind
      <4> QED BY <3>1, <3>3, <4>1 DEF FinalKind
    <3> QED BY <3>2, <3>3
  <2>8. Entry(u) = [up |-> p, name |-> layout[u].name, kind |-> layout[u].kind]
    BY <2>5, <2>6, <2>7 DEF Entry
  <2>9. u \notin Removed
    <3> SUFFICES ASSUME u \in Removed PROVE FALSE
      OBVIOUS
    <3>1. PICK t \in tt.unversioned : TreeFile(t) = u
      BY DEF Removed
    <3>2. \A v \in Ids : tt.file[v] # u
      BY DEF Removed
    <3>3. t = u
      <4>1. CASE t = Root
        <5>1. Root # u
          BY <1>4
        <5>2. TreeFile(Root) = Root
          BY <1>0, LayoutFacts DEF TreeFile
        <5> QED BY <3>1, <4>1, <5>1, <5>2
      <4>2. CASE t \in Old /\ t # Root
        <5>1. TreeFile(t) = layout[t].file
          BY <4>2 DEF TreeFile
        <5> QED BY <1>0, <2>4, <3>1, <4>2, <5>1, LayoutFacts
      <4>3. CASE t \notin Old /\ t # Root
        <5>1. TreeFile(t) = None
          BY <4>3 DEF TreeFile
        <5> QED BY <2>4, <3>1, <5>1
      <4> QED BY <4>1, <4>2, <4>3
    <3>4. tt.file[u] # None
      BY <1>4, <3>1, <3>3 DEF FinalFile
    <3> QED BY <2>1, <2>3, <3>2, <3>4
  <2> QED BY <2>2, <2>3, <2>4, <2>8, <2>9
<1> QED BY <1>2, <1>4

(* What is in the old inventory and not removed from it, stays versioned.     *)
LEMMA KeptFile ==
  ASSUME TTypeOK, TransformOK, NEW f \in Old, layout[f].file # None, f \notin Removed
  PROVE  \E t \in Known(tt) \ {Root} : FinalFile(tt, t) = f
<1>0. layout \in Layouts /\ tt \in Transforms
  BY DEF TTypeOK
<1>1. f \in Ids /\ f \in Known(tt) \ {Root} /\ TreeFile(f) = f /\ f # None
  BY <1>0, PathFacts, LayoutFacts DEF TreeFile
<1>2. CASE f \notin tt.unversioned \/ tt.file[f] # None
  <2>1. tt.file[f] \in {f, None}
    BY DEF TransformOK
  <2>2. FinalFile(tt, f) = f
    BY <1>1, <1>2, <2>1 DEF FinalFile
  <2> QED BY <1>1, <2>2
<1>3. CASE f \in tt.unversioned
  <2>1. PICK t \in Ids : tt.file[t] = f
    BY <1>1, <1>3 DEF Removed
  <2>2. t \in Known(tt) \ {Root}
    BY <1>1, <2>1 DEF TransformOK
  <2>3. FinalFile(tt, t) = f
    BY <1>1, <2>1 DEF FinalFile
  <2> QED BY <2>2, <2>3
<1> QED BY <1>2, <1>3

(* So the new inventory is that of the whole tree.                            *)
LEMMA NewInventoryTells ==
  ASSUME TTypeOK, TransformOK, Clean, inventory = OldInventory
  PROVE  /\ NewInventory = [f \in {FinalFile(tt, t) : t \in Known(tt) \ {Root}} \ {None} |-> NewInventory[f]]
         /\ \A t \in Known(tt) \ {Root} :
              FinalFile(tt, t) # None => NewInventory[FinalFile(tt, t)] = Entry(t)
<1> DEFINE changed == Planned(Altered)
           D == (DOMAIN inventory \ Removed) \cup DOMAIN changed
           K == Known(tt) \ {Root}
           F == {FinalFile(tt, t) : t \in K} \ {None}
<1>1. NewInventory = [f \in D |-> IF f \in DOMAIN changed THEN changed[f] ELSE inventory[f]]
  BY DEF NewInventory
<1>2. /\ Altered \subseteq K
      /\ \A u \in K : u \notin Altered /\ FinalFile(tt, u) # None =>
           /\ FinalFile(tt, u) = u /\ u \in Old /\ layout[u].file # None /\ u \notin Removed
           /\ Entry(u) = [up |-> layout[u].up, name |-> layout[u].name, kind |-> layout[u].kind]
  BY AlteredFacts
<1>3. /\ changed = [f \in {FinalFile(tt, u) : u \in Altered} \ {None} |-> changed[f]]
      /\ \A t \in Altered : FinalFile(tt, t) # None => changed[FinalFile(tt, t)] = Entry(t)
  BY <1>2, PlannedIs
<1> HIDE DEF changed
<1>4. DOMAIN changed = {FinalFile(tt, u) : u \in Altered} \ {None}
  BY <1>3
<1>5. /\ DOMAIN inventory = {u \in Old : layout[u].file # None}
      /\ \A u \in DOMAIN inventory :
           inventory[u] = [up |-> layout[u].up, name |-> layout[u].name, kind |-> layout[u].kind]
  BY DEF OldInventory
<1>6. ASSUME NEW t \in K, FinalFile(tt, t) # None
      PROVE  FinalFile(tt, t) \in D /\ NewInventory[FinalFile(tt, t)] = Entry(t)
  <2>1. CASE t \in Altered
    <3>1. FinalFile(tt, t) \in DOMAIN changed
      BY <1>4, <1>6, <2>1
    <3> QED BY <1>1, <1>3, <1>6, <2>1, <3>1
  <2>2. CASE t \notin Altered
    <3>1. /\ FinalFile(tt, t) = t /\ t \in Old /\ layout[t].file # None /\ t \notin Removed
          /\ Entry(t) = [up |-> layout[t].up, name |-> layout[t].name, kind |-> layout[t].kind]
      BY <1>2, <1>6, <2>2
    <3>2. FinalFile(tt, t) \notin DOMAIN changed
      <4> SUFFICES ASSUME FinalFile(tt, t) \in DOMAIN changed PROVE FALSE
        OBVIOUS
      <4>1. PICK u \in Altered : FinalFile(tt, u) = FinalFile(tt, t)
        BY <1>4
      <4>2. u = t
        BY <1>2, <1>6, <4>1, OneFile
      <4> QED BY <2>2, <4>1, <4>2
    <3>3. t \in DOMAIN inventory \ Removed
      BY <1>5, <3>1
    <3> QED BY <1>1, <1>5, <3>1, <3>2, <3>3
  <2> QED BY <2>1, <2>2
<1>7. D = F
  <2>1. ASSUME NEW f \in D PROVE f \in F
    <3>1. CASE f \in DOMAIN changed
      BY <1>2, <1>4, <3>1
    <3>2. CASE f \in DOMAIN inventory \ Removed
      <4>1. f \in Old /\ layout[f].file # None /\ f \notin Removed
        BY <1>5, <3>2
      <4>2. f # None
        <5>1. layout \in Layouts
          BY DEF TTypeOK
        <5> QED BY <4>1, <5>1, LayoutFacts
      <4>3. \E t \in K : FinalFile(tt, t) = f
        BY <4>1, KeptFile
      <4> QED BY <4>2, <4>3
    <3> QED BY <3>1, <3>2
  <2>2. ASSUME NEW f \in F PROVE f \in D
    BY <1>6
  <2> QED BY <2>1, <2>2
<1> HIDE DEF D
<1>8. NewInventory = [f \in D |-> NewInventory[f]]
  BY <1>1
<1> QED BY <1>6, <1>7, <1>8

(* The inventory follows the disk.                                            *)
LEMMA ApplyInventoryKeeps ==
  ASSUME TransformInv, ApplyInventory
  PROVE  TransformInv'
<1>0. /\ stage = "inventory" /\ stage' = "done" /\ inventory' = NewInventory
      /\ layout' = layout /\ tt' = tt /\ limbo' = limbo /\ disk' = disk /\ past' = past
  BY DEF ApplyInventory
<1>1. /\ TTypeOK /\ TransformOK /\ Clean /\ InsertOK /\ OnlyOld /\ LimboApart
      /\ inventory = OldInventory
  BY <1>0 DEF TransformInv, NoConflicts, InventoryOK
<1>2. TransformOK' /\ Clean' /\ tt' \in Transforms /\ layout' \in Layouts
  BY <1>0, <1>1, PlanStays
<1>3. TTypeOK'
  BY <1>0, <1>1, <1>2
     DEF TTypeOK, Transforms, Paths, NoPath, Ids, Inodes, Places, Dirs, Kinds
<1>4. LimboApart'
  BY <1>0, <1>1, LimboStays
<1>5. InsertOK'
  <2>1. /\ Real' = Real /\ \A t : Contents(t)' = Contents(t) /\ Placed(t)' = Placed(t)
    BY <1>0, SamePlan
  <2>2. /\ \A t \in Real : disk[Contents(t)] = Placed(t)
        /\ \A t \in tt.removed : disk[OldContents(t)] = Gone
        /\ \A t \in Ids \ {Root} : tt.created[t] = None => disk[NewContents(t)] = Gone
    BY <1>0, <1>1 DEF InsertOK
  <2>3. \A t \in Real' : disk'[Contents(t)'] = Placed(t)'
    BY <1>0, <2>1, <2>2
  <2> QED BY <1>0, <2>2, <2>3 DEF InsertOK, OldContents, NewContents, Gone, Ids, Root
<1>6. OnlyOld'
  BY <1>0, <1>1 DEF OnlyOld, OldContents, Gone, Ids
<1>7. InventoryOK'
  <2>1. Known(tt)' = Known(tt) /\ \A t : FinalFile(tt, t)' = FinalFile(tt, t) /\ Entry(t)' = Entry(t)
    BY <1>0, SamePlan
  <2>2. /\ inventory' = [f \in {FinalFile(tt, t) : t \in Known(tt) \ {Root}} \ {None} |-> inventory'[f]]
        /\ \A t \in Known(tt) \ {Root} :
             FinalFile(tt, t) # None => inventory'[FinalFile(tt, t)] = Entry(t)
    BY <1>0, <1>1, NewInventoryTells
  <2>3. {FinalFile(tt, t)' : t \in (Known(tt) \ {Root})'} = {FinalFile(tt, t) : t \in Known(tt) \ {Root}}
    BY <2>1 DEF Root
  <2>4. \A t \in (Known(tt) \ {Root})' :
          FinalFile(tt, t)' # None => inventory'[FinalFile(tt, t)'] = Entry(t)'
    BY <2>1, <2>2 DEF Root
  <2>5. Tells(Known(tt) \ {Root})'
    BY <2>2, <2>3, <2>4 DEF Tells
  <2> QED BY <1>0, <2>5 DEF InventoryOK
<1>8. ConflictsOK' /\ PlanningOK' /\ NoConflicts' /\ RemoveOK' /\ JournalOK' /\ StillThere' /\ RollbackRestores'
  BY <1>0, <1>2
     DEF ConflictsOK, PlanningOK, Planning, NoConflicts, RemoveOK, JournalOK, StillThere, RollbackRestores
<1> QED BY <1>2, <1>3, <1>4, <1>5, <1>6, <1>7, <1>8 DEF TransformInv

-----------------------------------------------------------------------------
(* The invariant holds *)

(* When the transform begins.                                                 *)
LEMMA InitKeeps ==
  ASSUME TransformInit
  PROVE  TransformInv
<1>0. /\ layout \in Layouts
      /\ tt = [path |-> [t \in Ids |-> NoPath], removed |-> {}, created |-> [t \in Ids |-> None],
               unversioned |-> {}, file |-> [t \in Ids |-> None]]
      /\ limbo = [t \in Ids |-> Gone] /\ inventory = OldInventory
      /\ stage = "build" /\ past = <<>>
  BY DEF TransformInit, OldInventory
<1>1. disk = [i \in Inodes |->
               IF i \in Old \X {"old"}
               THEN [dir |-> OldContents(layout[i[1]].up), name |-> layout[i[1]].name]
               ELSE Gone]
  BY DEF TransformInit
<1>2. /\ tt.path = [t \in Ids |-> NoPath] /\ tt.removed = {} /\ tt.created = [t \in Ids |-> None]
      /\ tt.unversioned = {} /\ tt.file = [t \in Ids |-> None]
  BY <1>0
<1>3. ASSUME NEW t \in Old PROVE disk[OldContents(t)] = Original(t) /\ Original(t) # Gone
  <2>1. OldContents(t) \in Old \X {"old"} /\ OldContents(t)[1] = t
    BY DEF OldContents
  <2>2. OldContents(t) \in Inodes
    BY <1>0, InodeFacts, LayoutFacts
  <2> QED BY <1>1, <2>1, <2>2, PlaceFacts DEF Original
<1>4. ASSUME NEW t \in Ids \ Old PROVE disk[OldContents(t)] = Gone
  <2>1. OldContents(t) \notin Old \X {"old"}
    BY DEF OldContents
  <2> QED BY <1>1, <2>1, InodeFacts
<1>5. ASSUME NEW t \in Ids \ {Root} PROVE disk[NewContents(t)] = Gone
  <2>1. NewContents(t) \notin Old \X {"old"}
    BY DEF NewContents
  <2> QED BY <1>1, <2>1, InodeFacts
<1>6. TTypeOK
  <2>1. tt \in Transforms
    BY <1>0 DEF Transforms, Paths
  <2>2. ASSUME NEW i \in Inodes PROVE disk[i] \in Places
    <3>1. CASE \E t \in Ids : i = OldContents(t)
      <4>1. PICK t \in Ids : i = OldContents(t)
        BY <3>1
      <4>2. CASE t \in Old
        <5>1. layout[t].up \in Ids /\ layout[t].name \in Seq(Words)
          BY <1>0, <4>2, LayoutFacts
        <5>2. Original(t) \in Places
          BY <5>1, PlaceFacts DEF Original
        <5> QED BY <1>3, <4>1, <4>2, <5>2
      <4>3. CASE t \notin Old
        BY <1>4, <4>1, <4>3, PlaceFacts
      <4> QED BY <4>2, <4>3
    <3>2. CASE \E t \in Ids \ {Root} : i = NewContents(t)
      BY <1>5, <3>2, PlaceFacts
    <3> QED BY <3>1, <3>2, InodeFacts
  <2>3. disk \in [Inodes -> Places]
    <3>1. disk = [i \in Inodes |-> disk[i]]
      BY <1>1
    <3> QED BY <2>2, <3>1
  <2>4. limbo \in [Ids -> Places] /\ past \in Seq([inode : Inodes, from : Places])
    BY <1>0, PlaceFacts
  <2> QED BY <1>0, <2>1, <2>3, <2>4 DEF TTypeOK
<1>7. TransformOK
  BY <1>0, <1>2, IdsFinite, LayoutFacts DEF TransformOK, PathChanged
<1>8. LimboApart
  BY <1>0, IdsFinite DEF LimboApart
<1>9. PlanningOK
  BY <1>0, <1>2, <1>3, <1>5 DEF PlanningOK
<1>10. StillThere /\ OnlyOld
  BY <1>3, <1>4 DEF StillThere, OnlyOld
<1>11. /\ ConflictsOK /\ NoConflicts /\ RemoveOK /\ InsertOK /\ JournalOK /\ RollbackRestores
       /\ InventoryOK
  BY <1>0 DEF ConflictsOK, NoConflicts, RemoveOK, InsertOK, JournalOK, RollbackRestores, InventoryOK
<1> QED BY <1>6, <1>7, <1>8, <1>9, <1>10, <1>11 DEF TransformInv

(* While nothing happens.                                                     *)
LEMMA StutterKeeps ==
  ASSUME TransformInv, UNCHANGED tvars
  PROVE  TransformInv'
<1>0. /\ layout' = layout /\ tt' = tt /\ limbo' = limbo /\ disk' = disk /\ past' = past
      /\ inventory' = inventory /\ stage' = stage /\ todo' = todo
  BY DEF tvars
<1>1. /\ TTypeOK /\ TransformOK /\ ConflictsOK /\ LimboApart /\ PlanningOK /\ NoConflicts
      /\ RemoveOK /\ InsertOK /\ JournalOK /\ StillThere /\ OnlyOld /\ RollbackRestores
      /\ InventoryOK
  BY DEF TransformInv
<1>2. TTypeOK'
  BY <1>0, <1>1 DEF TTypeOK, Transforms, Paths, NoPath, Ids, Inodes, Places, Dirs, Kinds
<1>3. TransformOK'
  BY <1>0, <1>1, SamePlan DEF TransformOK, NoPath, Ids
<1>4. ConflictsOK'
  <2> SUFFICES ASSUME stage' = "resolve", NEW c \in todo' PROVE ConflictOK(c)'
    BY DEF ConflictsOK
  <2>1. ConflictOK(c)
    BY <1>0, <1>1 DEF ConflictsOK
  <2> QED BY <1>0, <2>1, SamePlan DEF ConflictOK, Root
<1>5. LimboApart'
  BY <1>0, <1>1, LimboStays
<1>6. PlanningOK'
  BY <1>0, <1>1, SamePlan DEF PlanningOK, Planning, OldContents, NewContents, Gone, Ids
<1>7. NoConflicts'
  BY <1>0, <1>1, PlanStays DEF NoConflicts
<1>8. RemoveOK'
  BY <1>0, <1>1, SamePlan DEF RemoveOK, OldContents, NewContents, Gone, Ids, Root, Deletion
<1>9. InsertOK'
  BY <1>0, <1>1, SamePlan DEF InsertOK, OldContents, NewContents, Gone, Ids, Root, Deletion, Limbo
<1>10. JournalOK' /\ StillThere' /\ OnlyOld'
  <2>1. \A o \in Old : Original(o)' = Original(o) /\ Renamings(o)' = Renamings(o)
    BY <1>0, SameTree DEF Renamings, OldContents
  <2> QED BY <1>0, <1>1, <2>1 DEF JournalOK, StillThere, OnlyOld, OldContents, Gone, Ids
<1>11. RollbackRestores'
  BY <1>0, <1>1, SamePlan DEF RollbackRestores, OldContents
<1>12. InventoryOK'
  <2>1. CASE stage = "done"
    <3>1. Known(tt)' = Known(tt) /\ \A t : FinalFile(tt, t)' = FinalFile(tt, t) /\ Entry(t)' = Entry(t)
      BY <1>0, SamePlan
    <3>2. Tells(Known(tt) \ {Root})
      BY <1>1, <2>1 DEF InventoryOK
    <3>3. {FinalFile(tt, t)' : t \in (Known(tt) \ {Root})'} = {FinalFile(tt, t) : t \in Known(tt) \ {Root}}
      BY <3>1 DEF Root
    <3>4. \A t \in (Known(tt) \ {Root})' :
            FinalFile(tt, t)' # None => inventory'[FinalFile(tt, t)'] = Entry(t)'
      BY <1>0, <3>1, <3>2 DEF Root, Tells
    <3>5. Tells(Known(tt) \ {Root})'
      BY <1>0, <3>2, <3>3, <3>4 DEF Tells
    <3> QED BY <1>0, <2>1, <3>5 DEF InventoryOK
  <2>2. CASE stage # "done"
    BY <1>0, <1>1, <2>2, SamePlan DEF InventoryOK
  <2> QED BY <2>1, <2>2
<1> QED BY <1>2, <1>3, <1>4, <1>5, <1>6, <1>7, <1>8, <1>9, <1>10, <1>11, <1>12 DEF TransformInv

(* TransformInv, an inductive invariant: what a transform is while changes    *)
(* are asked of it, while its conflicts are resolved, and while it is applied *)
(* or taken back, for every tree and whatever changes and failures.           *)
THEOREM TransformInvariant == TransformSpec => []TransformInv
<1>1. TransformInit => TransformInv
  BY InitKeeps
<1>2. ASSUME TransformInv, [TransformNext]_tvars PROVE TransformInv'
  <2>1. ASSUME NEW t \in Ids, NEW up \in Ids, NEW name \in Names, MoveTo(t, up, name)
        PROVE  TransformInv'
    BY <1>2, <2>1, MoveToKeeps
  <2>2. ASSUME NEW t \in Old, NEW contents \in BOOLEAN, Delete(t, contents) PROVE TransformInv'
    BY <1>2, <2>2, DeleteKeeps
  <2>3. ASSUME NEW t \in Old, NEW kind \in {"file", "directory"}, Replace(t, kind)
        PROVE  TransformInv'
    BY <1>2, <2>3, ReplaceKeeps DEF Kinds
  <2>4. ASSUME NEW up \in Ids, NEW name \in Names, NEW kind \in {"file", "directory", None},
               NEW file \in Ids \cup {None}, New(up, name, kind, file)
        PROVE  TransformInv'
    BY <1>2, <2>4, NewKeeps DEF Kinds
  <2>5. CASE Look
    BY <1>2, <2>5, LookKeeps
  <2>6. ASSUME NEW c \in todo, Resolve(c) PROVE TransformInv'
    BY <1>2, <2>6, ResolveKeeps
  <2>7. CASE RemoveNext
    BY <1>2, <2>7, RemoveKeeps
  <2>8. CASE StartInsertions
    BY <1>2, <2>8, StartInsertionsKeeps
  <2>9. CASE InsertNext
    BY <1>2, <2>9, InsertKeeps
  <2>10. CASE RenameFails
    BY <1>2, <2>10, RenameFailsKeeps
  <2>11. CASE Rollback
    BY <1>2, <2>11, RollbackKeeps
  <2>12. CASE Finalize
    BY <1>2, <2>12, FinalizeKeeps
  <2>13. CASE ApplyDeletions
    BY <1>2, <2>13, ApplyDeletionsKeeps
  <2>14. CASE ApplyInventory
    BY <1>2, <2>14, ApplyInventoryKeeps
  <2>15. CASE UNCHANGED tvars
    BY <1>2, <2>15, StutterKeeps
  <2> QED BY <1>2, <2>1, <2>2, <2>3, <2>4, <2>5, <2>6, <2>7, <2>8, <2>9, <2>10, <2>11, <2>12,
             <2>13, <2>14, <2>15 DEF TransformNext, TransformEnded
<1> QED BY <1>1, <1>2, PTL DEF TransformSpec

-----------------------------------------------------------------------------
(* What follows *)

(* _FileMover deletes nothing of the tree before every rename has succeeded,  *)
(* but after a rollback that failed.                                          *)
THEOREM TransformDeletesLate == TransformSpec => []NothingDeletedEarly
<1>1. ASSUME TransformInv PROVE NothingDeletedEarly
  <2> SUFFICES ASSUME NEW t \in Old, disk[OldContents(t)] = Gone, stage # "broken"
               PROVE  t \in tt.removed /\ stage \in {"inventory", "done"}
    BY DEF NothingDeletedEarly
  <2>1. stage \in {"inventory", "done"}
    BY <1>1 DEF TransformInv, StillThere
  <2>2. TTypeOK /\ TransformOK /\ Clean /\ InsertOK
    BY <1>1, <2>1 DEF TransformInv, NoConflicts
  <2>3. CASE t \notin tt.removed
    <3>1. t \in Real /\ tt.created[t] = None
      BY <2>2, <2>3, RealFacts
    <3>2. Contents(t) = OldContents(t)
      BY <3>1 DEF Contents
    <3>3. disk[Contents(t)] = Placed(t)
      BY <2>1, <2>2, <3>1 DEF InsertOK
    <3>4. Placed(t) # Gone
      BY <2>2, <3>1, RealFacts
    <3> QED BY <3>2, <3>3, <3>4
  <2> QED BY <2>1, <2>3
<1> QED BY <1>1, TransformInvariant, PTL

(* _FileMover.rollback and finalize leave the tree as it was.                 *)
THEOREM TransformRestores == TransformSpec => []RollbackRestores
<1>1. TransformInv => RollbackRestores
  BY DEF TransformInv
<1> QED BY <1>1, TransformInvariant, PTL

(* apply() of a transform without conflicts leaves the disk and the inventory *)
(* as they were planned, whatever its changes.                                *)
THEOREM TransformApplies == TransformSpec => []AppliedAsPlanned
<1>1. ASSUME TransformInv PROVE AppliedAsPlanned
  <2> SUFFICES ASSUME stage = "done"
               PROVE  /\ \A t \in Known(tt) \ {Root} :
                           FinalKind(tt, t) # None =>
                             disk[Contents(t)] = [dir |-> Contents(Parent(tt, t)), name |-> FinalPath(tt, t).name]
                      /\ \A t \in Old : (t \in tt.removed \/ tt.created[t] # None) => disk[OldContents(t)] = Gone
                      /\ inventory = Planned(Known(tt) \ {Root})
    BY DEF AppliedAsPlanned
  <2>1. TTypeOK /\ TransformOK /\ Clean /\ InsertOK /\ Tells(Known(tt) \ {Root})
    BY <1>1 DEF TransformInv, NoConflicts, InventoryOK
  <2>2. ASSUME NEW t \in Known(tt) \ {Root}, FinalKind(tt, t) # None
        PROVE  disk[Contents(t)] = [dir |-> Contents(Parent(tt, t)), name |-> FinalPath(tt, t).name]
    <3>1. t \in Real
      BY <2>2 DEF Real
    <3> QED BY <2>1, <3>1 DEF InsertOK, Placed
  <2>3. ASSUME NEW t \in Old, t \in tt.removed \/ tt.created[t] # None
        PROVE  disk[OldContents(t)] = Gone
    <3>1. t \in tt.removed
      BY <2>1, <2>3 DEF Clean
    <3> QED BY <2>1, <3>1 DEF InsertOK
  <2>4. inventory = Planned(Known(tt) \ {Root})
    <3> DEFINE K == Known(tt) \ {Root}
               F == {FinalFile(tt, t) : t \in K} \ {None}
    <3>1. /\ inventory = [f \in F |-> inventory[f]]
          /\ \A t \in K : FinalFile(tt, t) # None => inventory[FinalFile(tt, t)] = Entry(t)
      BY <2>1 DEF Tells
    <3>2. /\ Planned(K) = [f \in F |-> Planned(K)[f]]
          /\ \A t \in K : FinalFile(tt, t) # None => Planned(K)[FinalFile(tt, t)] = Entry(t)
      BY <2>1, PlannedIs
    <3>3. ASSUME NEW f \in F PROVE inventory[f] = Planned(K)[f]
      <4>1. PICK t \in K : FinalFile(tt, t) = f
        OBVIOUS
      <4>2. f # None
        OBVIOUS
      <4> HIDE DEF K, F
      <4> QED BY <3>1, <3>2, <4>1, <4>2
    <3> HIDE DEF K, F
    <3>4. inventory = Planned(K)
      BY <3>1, <3>2, <3>3
    <3> QED BY <3>4 DEF K
  <2> QED BY <2>2, <2>3, <2>4
<1> QED BY <1>1, TransformInvariant, PTL
=============================================================================
