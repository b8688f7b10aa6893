----------------------------- MODULE Transform -----------------------------
(***************************************************************************)
(* TreeTransform (bzrlib/transform.py): a set of changes to a working tree *)
(* is collected, its conflicts are resolved, and it is applied by renaming *)
(* what goes to pending-deletion, what moves to limbo and from there to    *)
(* its new place.  A rename that fails rolls all others back; nothing is   *)
(* deleted before.  All entries of the tree are known to the transform.    *)
(***************************************************************************)
EXTENDS Integers, Sequences, FiniteSets, SequencesExt

CONSTANTS
  Old,        \* trans_ids of the entries of the tree: numbers from 1; 0 is the root
  Fresh,      \* trans_ids of new entries: greater numbers
  Layouts,    \* the trees: for each entry its parent, name, kind, and file id or None
  Names,      \* the names that entries may be given
  MaxChanges, \* bound: changes asked of one transform
  MaxFaults,  \* bound: renames that fail
  None

Root == 0
Ids == {Root} \cup Old \cup Fresh
ASSUME TransformAssumption ==
  /\ Old \subseteq Nat \ {Root} /\ Fresh \subseteq Nat \ {Root}
  /\ IsFiniteSet(Old) /\ IsFiniteSet(Fresh)
  /\ \A o \in Old, n \in Fresh : o < n
  /\ None \notin Ids /\ None \notin {"file", "directory"}
  /\ Names \subseteq Seq(STRING)
  /\ MaxChanges \in Nat /\ MaxFaults \in Nat

\* A tree: what is in something is in a directory, under a name of its own there, and
\* from everywhere the way up ends at the root.
ASSUME LayoutAssumption ==
  \A l \in Layouts :
    /\ DOMAIN l = Old
    /\ \A t \in Old :
         /\ l[t].up \in {Root} \cup Old /\ l[t].name \in Seq(STRING)
         /\ l[t].kind \in {"file", "directory"} /\ l[t].file \in {t, None}
         /\ l[t].up \in Old => l[l[t].up].kind = "directory"
         /\ \A u \in Old : l[t].up = l[u].up /\ l[t].name = l[u].name => t = u
    /\ \A S \in SUBSET Old : S # {} => \E t \in S : l[t].up \notin S

Passes == 10     \* resolve_conflicts

VARIABLES
  layout,     \* the tree as it was when the transform began
  tt,         \* what is scheduled: _new_name and _new_parent, _removed_contents, ...
  limbo,      \* _limbo_files: where in limbo the new contents of an entry are
  disk,       \* where each file or directory is
  inventory,  \* the versioned entries: parent, name and kind by file id
  stage,      \* what the caller is doing
  todo,       \* what is left of that: conflicts of a pass, or entries to rename
  past,       \* past_renames
  passes, changes, faults

tvars == <<layout, tt, limbo, disk, inventory, stage, todo, past, passes, changes, faults>>

-----------------------------------------------------------------------------
(* The transform *)

NoPath == [up |-> None, name |-> <<>>]
TreeKind(t) == CASE t = Root -> "directory" [] t \in Old -> layout[t].kind [] OTHER -> None
TreeFile(t) == CASE t = Root -> Root [] t \in Old -> layout[t].file [] OTHER -> None
TreePath(t) == IF t \in Old THEN [up |-> layout[t].up, name |-> layout[t].name] ELSE NoPath

PathChanged(x, t) == x.path[t] # NoPath
FinalPath(x, t) == IF PathChanged(x, t) THEN x.path[t] ELSE TreePath(t)
Parent(x, t) == FinalPath(x, t).up
FinalKind(x, t) ==
  IF x.created[t] # None THEN x.created[t]
  ELSE IF t \in x.removed THEN None ELSE TreeKind(t)
FinalFile(x, t) ==
  IF x.file[t] # None THEN x.file[t]
  ELSE IF t \in x.unversioned THEN None ELSE TreeFile(t)

Known(x) == {t \in Ids : t = Root \/ FinalPath(x, t) # NoPath}
Children(x, p) == {t \in Known(x) \ {Root} : Parent(x, t) = p}

\* The entries on the way up from t, t left out.
Above(x, t) ==
  LET Up[i \in 0 .. Cardinality(Ids)] ==
        IF i = 0 THEN {Parent(x, t)} \ {None}
        ELSE LET found == Up[i - 1]
             IN found \cup ({Parent(x, u) : u \in found} \ {None})
  IN Up[Cardinality(Ids)]

-----------------------------------------------------------------------------
(* The disk: inodes of old and new contents, and where they are *)

OldContents(t) == <<t, "old">>
NewContents(t) == <<t, "new">>
Inodes == (Ids \X {"old"}) \cup (Fresh \cup Old) \X {"new"}
ASSUME InodeAssumption == None \notin Inodes
RootDir == OldContents(Root)
Limbo(t) == [dir |-> <<t, "limbo">>, name |-> <<>>]
Deletion(t) == [dir |-> <<t, "pending-deletion">>, name |-> <<>>]
Gone == [dir |-> <<Root, "gone">>, name |-> <<>>]

KindOf(x, i) == IF i[2] = "old" THEN TreeKind(i[1]) ELSE x.created[i[1]]

\* _limbo_name: inside the directory it will be in when that is new, too, and the name
\* is free there.
LimboPlace(x, where, t) ==
  LET p == x.path[t]
      inside == [dir |-> NewContents(p.up), name |-> p.name]
  IN IF PathChanged(x, t) /\ x.created[p.up] = "directory"
        /\ \A u \in Ids \ {t} : where[u] # inside
     THEN inside ELSE Limbo(t)

\* What is at a path, and the directory of a place that an entry goes to.
At(d, place) ==
  LET there == {i \in Inodes : d[i] = place}
  IN IF there = {} THEN None ELSE CHOOSE i \in there : TRUE
\* The path of an entry by its names, from the root down.
Walk(d, path, t) ==
  LET Down[i \in 0 .. Cardinality(Ids)] == [u \in Ids |->
        IF u = Root THEN RootDir
        ELSE IF i = 0 \/ path[u].up = None THEN None
        ELSE LET dir == Down[i - 1][path[u].up]
             IN IF dir = None THEN None ELSE At(d, [dir |-> dir, name |-> path[u].name])]
  IN Down[Cardinality(Ids)][t]

-----------------------------------------------------------------------------
TransformInit ==
  /\ layout \in Layouts
  /\ tt = [path |-> [t \in Ids |-> NoPath], removed |-> {}, created |-> [t \in Ids |-> None],
           unversioned |-> {}, file |-> [t \in Ids |-> None]]
  /\ limbo = [t \in Ids |-> Gone]
  /\ disk = [i \in Inodes |->
               IF i \in Old \X {"old"}
               THEN [dir |-> OldContents(layout[i[1]].up), name |-> layout[i[1]].name]
               ELSE Gone]
  /\ inventory = [t \in {u \in Old : layout[u].file # None} |->
                    [up |-> layout[t].up, name |-> layout[t].name, kind |-> layout[t].kind]]
  /\ stage = "build" /\ todo = {} /\ past = <<>>
  /\ passes = 0 /\ changes = 0 /\ faults = 0

\* adjust_path, and _rename_in_limbo when the new contents were in the right place.
Adjusted(x, t, up, name) == [x EXCEPT !.path[t] = [up |-> up, name |-> name]]
Adjust(x, t) ==
  IF limbo[t] \notin {Gone, Limbo(t)}
  THEN /\ limbo' = [limbo EXCEPT ![t] = LimboPlace(x, limbo, t)]
       /\ disk' = [disk EXCEPT ![NewContents(t)] = limbo'[t]]
  ELSE UNCHANGED <<limbo, disk>>

\* create_file and create_directory write the contents to limbo.
Create(x, t) ==
  /\ limbo' = [limbo EXCEPT ![t] = LimboPlace(x, limbo, t)]
  /\ disk' = [disk EXCEPT ![NewContents(t)] = limbo'[t]]

-----------------------------------------------------------------------------
(* The changes that merge, revert and update ask for *)

Change ==
  /\ stage = "build" /\ changes < MaxChanges
  /\ changes' = changes + 1
  /\ UNCHANGED <<layout, inventory, stage, todo, past, passes, faults>>

MoveTo(t, up, name) ==
  /\ Change
  /\ up \in Known(tt) \ {t} /\ t \in Known(tt) \ {Root}
  /\ tt' = Adjusted(tt, t, up, name)
  /\ Adjust(tt', t)

\* delete_versioned, or unversion_file alone.
Delete(t, contents) ==
  /\ Change
  /\ t \in Old /\ TreeFile(t) # None /\ t \notin tt.unversioned
  /\ t \notin tt.removed
  /\ tt' = [tt EXCEPT !.unversioned = @ \cup {t},
                      !.removed = IF contents THEN @ \cup {t} ELSE @]
  /\ UNCHANGED <<limbo, disk>>

\* New contents; a directory is not replaced by another one.
Replace(t, kind) ==
  /\ Change
  /\ t \in Old /\ t \notin tt.removed /\ {TreeKind(t), kind} # {"directory"}
  /\ tt' = [tt EXCEPT !.removed = @ \cup {t}, !.created[t] = kind]
  /\ Create(tt', t)

Unused(x) == Fresh \ Known(x)
Lowest(ids) == CHOOSE t \in ids : \A u \in ids : t <= u

\* An entry, perhaps versioned, perhaps (a conflict) without contents.  Its file id is
\* one of its own or one that the tree has.
New(up, name, kind, file) ==
  /\ Change
  /\ Unused(tt) # {} /\ up \in Known(tt)
  /\ LET t == Lowest(Unused(tt)) IN
     /\ file \in (({t} \cup Old) \ {tt.file[u] : u \in Ids}) \cup {None}
     /\ (kind = None => file # None)
     /\ tt' = [Adjusted(tt, t, up, name) EXCEPT !.created[t] = kind, !.file[t] = file]
     /\ IF kind = None THEN UNCHANGED <<limbo, disk>> ELSE Create(tt', t)

-----------------------------------------------------------------------------
(* find_conflicts, in its order *)

Conflict(rank, type, t, u) == [rank |-> rank, type |-> type, t |-> t, u |-> u]

Exists(x, t) == FinalKind(x, t) # None \/ FinalFile(x, t) # None
\* Neighbours in the sorted list of the entries of one name.
Duplicates(x) ==
  {c \in (Known(x) \ {Root}) \X (Known(x) \ {Root}) :
     /\ c[1] < c[2] /\ FinalPath(x, c[1]) = FinalPath(x, c[2])
     /\ Exists(x, c[1]) /\ Exists(x, c[2])
     /\ ~\E t \in Known(x) : /\ c[1] < t /\ t < c[2] /\ Exists(x, t)
                             /\ FinalPath(x, t) = FinalPath(x, c[1])}

Looping(x) == {t \in Known(x) : PathChanged(x, t) /\ t \in Above(x, t)}

FindConflicts(x) ==
  {Conflict(1, "unversioned parent", p, None) : p \in
     {q \in Known(x) : FinalFile(x, q) = None
                       /\ \E t \in Children(x, q) : FinalFile(x, t) # None}} \cup
  {Conflict(2, "parent loop", t, None) : t \in Looping(x)} \cup
  {Conflict(3, "duplicate", c[1], c[2]) : c \in
     IF \A t \in Ids : ~PathChanged(x, t) THEN {} ELSE Duplicates(x)} \cup
  {Conflict(4, "duplicate id", x.file[t], t) : t \in
     {u \in Ids : x.file[u] \in Old /\ TreeFile(x.file[u]) # None
                  /\ x.file[u] \notin x.unversioned}} \cup
  {Conflict(5, IF FinalKind(x, p) = None THEN "missing parent" ELSE "non-directory parent",
            p, None) : p \in
     {q \in Known(x) : FinalKind(x, q) # "directory"
                       /\ \E t \in Children(x, q) : FinalKind(x, t) # None}} \cup
  {Conflict(6, "versioning no contents", t, None) : t \in
     {u \in Ids : x.file[u] # None /\ FinalKind(x, u) = None}} \cup
  {Conflict(7, "overwrite", t, None) : t \in
     {u \in Old : x.created[u] # None /\ u \notin x.removed}}

\* The next pass of resolve_conflicts looks for conflicts; after the last pass
\* MalformedTransform is raised, whether that has resolved them or not.
Look ==
  /\ \/ stage = "build"
     \/ stage = "resolve" /\ todo = {}
  /\ LET found == FindConflicts(tt) IN
     \/ /\ passes = Passes
        /\ stage' = "malformed" /\ UNCHANGED <<todo, passes>>
     \/ /\ passes < Passes /\ found = {}
        /\ stage' = "remove" /\ todo' = Old \cap Known(tt) /\ UNCHANGED passes
     \/ /\ passes < Passes /\ found # {}
        /\ stage' = "resolve" /\ todo' = found /\ passes' = passes + 1
  /\ UNCHANGED <<layout, tt, limbo, disk, inventory, past, changes, faults>>

-----------------------------------------------------------------------------
(* conflict_pass: the conflicts of a pass are resolved in turn *)

Raise == stage' = "error" /\ UNCHANGED <<tt, limbo, disk>>

\* version_file refuses an id that is None, or given already.
Version(x, t, file) ==
  IF x.file[t] # None \/ file \in {x.file[u] : u \in Ids} \cup {None} THEN {}
  ELSE {[x EXCEPT !.file[t] = file]}

\* The entry that gives way to one that was moved there.
Loser(c) == IF PathChanged(tt, c.t) THEN c.u ELSE c.t
MutMoved(name) == name
Moved(name) == Append(name, "moved")

\* Up from an entry of a loop to one that was moved.
FirstMoved(t) ==
  LET Up[i \in 0 .. Cardinality(Ids)] == [u \in Ids |->
        IF PathChanged(tt, u) \/ u = Root \/ i = 0 THEN u ELSE Up[i - 1][Parent(tt, u)]]
  IN Up[Cardinality(Ids)][t]

\* All children of a file go into a new directory beside it.
Beside(t, n) ==
  LET dir == [Adjusted(tt, n, Parent(tt, t), Append(FinalPath(tt, t).name, "new"))
                EXCEPT !.created[n] = "directory"]
      file == FinalFile(tt, t)
      moved(x) == [x EXCEPT !.path = [u \in Ids |->
                     IF u \in Children(tt, t) THEN [up |-> n, name |-> FinalPath(tt, u).name]
                     ELSE @[u]]]
  IN IF file = None THEN {moved(dir)}
     ELSE {[moved(x) EXCEPT !.unversioned = @ \cup {t}] : x \in Version(dir, n, file)}
BesideLimbo(x, t, n) ==
  LET place == LimboPlace(x, limbo, n)
      inside(u) == u \in Children(tt, t) /\ limbo[u] \notin {Gone, Limbo(u)}
  IN [u \in Ids |-> IF u = n THEN place
                    ELSE IF inside(u) THEN [dir |-> NewContents(n), name |-> x.path[u].name]
                    ELSE limbo[u]]

Resolve(c) ==
  /\ stage = "resolve" /\ c \in todo
  /\ \A d \in todo : c.rank <= d.rank
  /\ todo' = todo \ {c}
  /\ UNCHANGED <<layout, inventory, past, passes, changes, faults>>
  /\ \/ /\ c.type = "unversioned parent"
        /\ LET versioned == Version(tt, c.t, TreeFile(c.t)) IN
           IF versioned = {} THEN Raise
           ELSE tt' \in versioned /\ UNCHANGED <<stage, limbo, disk>>
     \/ /\ c.type = "parent loop"
        /\ LET t == FirstMoved(c.t) IN
           IF t \in Fresh THEN Raise
           ELSE /\ tt' = Adjusted(tt, t, layout[t].up, FinalPath(tt, t).name)
                /\ Adjust(tt', t) /\ UNCHANGED stage
     \/ /\ c.type = "duplicate"
        /\ tt' = Adjusted(tt, Loser(c), Parent(tt, c.t), Moved(FinalPath(tt, Loser(c)).name))
        /\ Adjust(tt', Loser(c)) /\ UNCHANGED stage
     \/ /\ c.type = "duplicate id"
        /\ tt' = [tt EXCEPT !.unversioned = @ \cup {c.t}]
        /\ UNCHANGED <<stage, limbo, disk>>
     \/ /\ c.type = "missing parent"
        /\ IF c.t \in tt.removed
           THEN /\ tt' = [tt EXCEPT !.removed = @ \ {c.t}]
                /\ UNCHANGED <<stage, limbo, disk>>
           ELSE /\ tt' = [tt EXCEPT !.created[c.t] = "directory"]
                /\ Create(tt', c.t) /\ UNCHANGED stage
     \/ /\ c.type = "non-directory parent" /\ Unused(tt) # {}
        /\ LET n == Lowest(Unused(tt)) IN
           IF Beside(c.t, n) = {} THEN Raise
           ELSE /\ tt' \in Beside(c.t, n)
                /\ limbo' = BesideLimbo(tt', c.t, n)
                /\ disk' = [i \in Inodes |-> IF i[2] = "new" /\ limbo'[i[1]] # limbo[i[1]]
                                             THEN limbo'[i[1]] ELSE disk[i]]
                /\ UNCHANGED stage
     \/ /\ c.type = "versioning no contents"
        /\ tt' = [tt EXCEPT !.file[c.t] = None]
        /\ UNCHANGED <<stage, limbo, disk>>
     \/ c.type = "overwrite" /\ UNCHANGED <<tt, limbo, disk, stage>>

-----------------------------------------------------------------------------
(* apply: _FileMover renames *)

Fault ==
  /\ faults < MaxFaults /\ faults' = faults + 1
  /\ stage' = IF stage = "rollback" THEN "half" ELSE "rollback"
  /\ UNCHANGED <<layout, tt, limbo, disk, inventory, todo, past, passes, changes>>

\* A file takes the place of another one; nothing else can be in the way.
Blocked(i, place) ==
  /\ At(disk, place) \notin {None, i}
  /\ "directory" \in {KindOf(tt, i), KindOf(tt, At(disk, place))}
Rename(i, place) ==
  disk' = [j \in Inodes |-> IF j = i THEN place
                            ELSE IF disk[j] = place THEN Gone ELSE disk[j]]

\* _apply_removals, children before their parents; _limbo_name of what moves.
Deepest(ids) == CHOOSE t \in ids : \A u \in ids : t \notin Above([tt EXCEPT !.path = [v \in Ids |-> NoPath]], u)
RemovalPlace(t) == IF t \in tt.removed THEN Deletion(t) ELSE LimboPlace(tt, limbo, t)
RemoveNext ==
  /\ stage = "remove" /\ todo # {}
  /\ LET t == Deepest(todo)
         from == Walk(disk, [u \in Ids |-> TreePath(u)], t)
         to == RemovalPlace(t)
     IN /\ todo' = todo \ {t}
        /\ IF t \notin tt.removed /\ ~PathChanged(tt, t)
           THEN UNCHANGED <<disk, past, limbo>>
           ELSE IF from = None THEN t \notin tt.removed /\ UNCHANGED <<disk, past, limbo>>
           ELSE /\ ~Blocked(from, to) /\ Rename(from, to)
                /\ past' = Append(past, [inode |-> from, from |-> disk[from]])
                /\ limbo' = IF t \in tt.removed THEN limbo ELSE [limbo EXCEPT ![t] = to]
  /\ UNCHANGED <<layout, tt, inventory, stage, passes, changes, faults>>

\* _apply_insertions, parents before their children: what has a limbo name of its own.
Highest(ids) == CHOOSE t \in ids : \A u \in ids : u \notin Above(tt, t)
MutStartInsertions ==
  /\ stage = "remove" /\ todo = {}
  /\ stage' = "insert" /\ todo' = {t \in Ids : limbo[t] = Limbo(t)}
  /\ disk' = [i \in Inodes |-> IF disk[i].dir[2] = "pending-deletion" THEN Gone ELSE disk[i]]
  /\ UNCHANGED <<layout, tt, limbo, inventory, past, passes, changes, faults>>
StartInsertions ==
  /\ stage = "remove" /\ todo = {}
  /\ stage' = "insert" /\ todo' = {t \in Ids : limbo[t] = Limbo(t)}
  /\ UNCHANGED <<layout, tt, limbo, disk, inventory, past, passes, changes, faults>>
InsertNext ==
  /\ stage = "insert" /\ todo # {}
  /\ LET t == Highest(todo)
         i == At(disk, Limbo(t))
         dir == Walk(disk, [u \in Ids |-> FinalPath(tt, u)], Parent(tt, t))
         to == [dir |-> dir, name |-> FinalPath(tt, t).name]
     IN /\ todo' = todo \ {t}
        /\ IF i = None \/ dir = None THEN UNCHANGED <<disk, past>>
           ELSE /\ ~Blocked(i, to) /\ Rename(i, to)
                /\ past' = Append(past, [inode |-> i, from |-> disk[i]])
  /\ UNCHANGED <<layout, tt, limbo, inventory, stage, passes, changes, faults>>

\* Any of these renames may fail.
RenameFails == stage \in {"remove", "insert", "rollback"} /\ (stage = "rollback" => past # <<>>) /\ Fault

\* rollback, last rename first; then finalize() deletes what is in limbo.
MutRollback ==
  /\ stage = "rollback" /\ past # <<>>
  /\ disk' = [disk EXCEPT ![Head(past).inode] = Head(past).from]
  /\ past' = Tail(past)
  /\ UNCHANGED <<layout, tt, limbo, inventory, stage, todo, passes, changes, faults>>
Rollback ==
  /\ stage = "rollback" /\ past # <<>>
  /\ disk' = [disk EXCEPT ![Last(past).inode] = Last(past).from]
  /\ past' = Front(past)
  /\ UNCHANGED <<layout, tt, limbo, inventory, stage, todo, passes, changes, faults>>

InLimbo(i) ==
  LET Up[n \in 0 .. Cardinality(Ids)] == [j \in Inodes |->
        \/ disk[j].dir[2] = "limbo"
        \/ n > 0 /\ disk[j].dir \in Inodes /\ Up[n - 1][disk[j].dir]]
  IN Up[Cardinality(Ids)][i]
Finalize ==
  /\ \/ stage = "rollback" /\ past = <<>> /\ stage' = "failed"
     \/ stage = "half" /\ stage' = "broken"
     \/ stage \in {"malformed", "error"} /\ stage' = "refused"
  /\ disk' = [i \in Inodes |-> IF InLimbo(i) THEN Gone ELSE disk[i]]
  /\ UNCHANGED <<layout, tt, limbo, inventory, todo, past, passes, changes, faults>>

\* apply_deletions, then the inventory follows.
ApplyDeletions ==
  /\ stage = "insert" /\ todo = {}
  /\ stage' = "inventory"
  /\ disk' = [i \in Inodes |-> IF disk[i].dir[2] = "pending-deletion" THEN Gone ELSE disk[i]]
  /\ UNCHANGED <<layout, tt, limbo, inventory, todo, past, passes, changes, faults>>

\* _generate_inventory_delta: of the entries that are altered.
Altered ==
  LET newFiles == {t \in Ids : tt.file[t] # None /\ tt.file[t] # TreeFile(t)}
  IN {t \in Ids : PathChanged(tt, t)} \cup newFiles
     \cup {t \in tt.removed : tt.created[t] \notin {None, TreeKind(t)}}
     \cup {t \in Old : layout[t].up \in newFiles}
Removed == {TreeFile(t) : t \in tt.unversioned} \ {tt.file[t] : t \in Ids}
Entry(t) == [up |-> FinalFile(tt, Parent(tt, t)), name |-> FinalPath(tt, t).name,
             kind |-> FinalKind(tt, t)]
Planned(ids) ==
  LET t(f) == CHOOSE u \in ids : FinalFile(tt, u) = f
  IN [f \in {FinalFile(tt, u) : u \in ids} \ {None} |-> Entry(t(f))]
MutNewInventory == [f \in DOMAIN inventory \ Removed |-> inventory[f]]
NewInventory ==
  LET changed == Planned(Altered)
  IN [f \in (DOMAIN inventory \ Removed) \cup DOMAIN changed |->
        IF f \in DOMAIN changed THEN changed[f] ELSE inventory[f]]
ApplyInventory ==
  /\ stage = "inventory"
  /\ stage' = "done" /\ inventory' = NewInventory
  /\ UNCHANGED <<layout, tt, limbo, disk, todo, past, passes, changes, faults>>

TransformEnded == stage \in {"done", "failed", "broken", "refused"} /\ UNCHANGED tvars

TransformNext ==
  \/ \E t \in Ids, up \in Ids, name \in Names : MoveTo(t, up, name)
  \/ \E t \in Old, contents \in BOOLEAN : Delete(t, contents)
  \/ \E t \in Old, kind \in {"file", "directory"} : Replace(t, kind)
  \/ \E up \in Ids, name \in Names, kind \in {"file", "directory", None}, file \in Ids \cup {None} :
       New(up, name, kind, file)
  \/ Look \/ (\E c \in todo : Resolve(c))
  \/ RemoveNext \/ StartInsertions \/ InsertNext \/ RenameFails \/ Rollback \/ Finalize
  \/ ApplyDeletions \/ ApplyInventory \/ TransformEnded
TransformSpec == TransformInit /\ [][TransformNext]_tvars

-----------------------------------------------------------------------------
(* Properties *)

(* A transform that has no conflicts left can be applied: apply() leaves the  *)
(* disk as planned, and the inventory says the same of every versioned entry. *)
Contents(t) == IF tt.created[t] # None THEN NewContents(t) ELSE OldContents(t)
AppliedAsPlanned ==
  stage = "done" =>
    /\ \A t \in Known(tt) \ {Root} :
         FinalKind(tt, t) # None =>
           disk[Contents(t)] = [dir |-> Contents(Parent(tt, t)), name |-> FinalPath(tt, t).name]
    /\ \A t \in Old : (t \in tt.removed \/ tt.created[t] # None) => disk[OldContents(t)] = Gone
    /\ inventory = Planned(Known(tt) \ {Root})

(* "FileMover does not delete files until it is sure that a rollback will not *)
(* happen" (TreeTransform): the contents of the tree exist until every rename *)
(* has succeeded, also after one that failed; only a rollback that fails      *)
(* itself is followed by the loss of what is in limbo then.                   *)
NothingDeletedEarly ==
  \A t \in Old : disk[OldContents(t)] = Gone =>
    (t \in tt.removed /\ stage \in {"inventory", "done"}) \/ stage = "broken"

(* _FileMover.rollback: after a rename has failed, and after a transform was  *)
(* refused, every file and directory is where it was before.                  *)
Original(t) == [dir |-> OldContents(layout[t].up), name |-> layout[t].name]
RollbackRestores ==
  stage \in {"failed", "refused"} => \A t \in Old : disk[OldContents(t)] = Original(t)

(* resolve_conflicts finds no conflict left in one of its ten passes: no set  *)
(* of changes ends in MalformedTransform because one resolution undoes        *)
(* another, or because the last one is not looked at again.                   *)
ResolutionSucceeds == stage # "malformed"
=============================================================================
