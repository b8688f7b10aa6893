------------------------------ MODULE DirState ------------------------------
(***************************************************************************)
(* The dirstate of a working tree as several processes use it: the trees   *)
(* of bzrlib/workingtree_4.py, their DirState objects (bzrlib/dirstate.py) *)
(* and the fcntl locks of bzrlib/lock.py below them.  A writer holds the   *)
(* lock directory of the tree and then an exclusive lock on the dirstate   *)
(* file, a reader a shared one; the file is rewritten in place, also by a  *)
(* reader that has learnt hashes and can upgrade its lock to do so.  What  *)
(* is in the file is the set of changes it shows.  A kernel lock belongs   *)
(* to a process, not to the object that asked for it, and any close of the *)
(* file by the process ends it.                                            *)
(***************************************************************************)
EXTENDS Integers, FiniteSets

CONSTANTS
  Procs,     \* processes
  Objs,      \* the tree objects they use
  Owners,    \* the ways in which objects may belong to processes
  RevTrees,  \* the objects that are DirStateRevisionTrees, not WorkingTrees
  Mods,      \* changes to what is versioned, or to the parents
  Hashes,    \* files whose sha1 may be cached
  Limit,     \* bzr.workingtree.worth_saving_limit
  MaxOpen,   \* bound: refused readers that a process goes on counting
  Mortals,   \* processes that may be killed
  NoOne

ASSUME DirStateAssumption ==
  /\ Owners \subseteq [Objs -> Procs]
  /\ RevTrees \subseteq Objs /\ Mortals \subseteq Procs
  /\ NoOne \notin Objs /\ Mods \cap Hashes = {}
  /\ Limit \in Int

VARIABLES
  owner,     \* the process of each object; never changes
  file,      \* the dirstate file: the changes it has, and whether it is whole
  treelock,  \* the object that holds the lock directory of the tree
  os,        \* per process: its kernel lock, and what _open_locks says
  pc,        \* what each object is about to do
  token,     \* its _lock_token: "none", "r", "w" or "t" (a temporary write lock)
  state,     \* its _dirblock_state
  mem,       \* the changes it has in memory, and whether they make sense
  known,     \* _known_hash_changes
  aborted,   \* _changes_aborted
  dead       \* the processes that were killed

memory == <<state, mem, known, aborted>>
dvars == <<owner, file, treelock, os, pc, token, state, mem, known, aborted, dead>>

Content == [has : SUBSET (Mods \cup Hashes), whole : BOOLEAN]
Nothing == [has |-> {}, whole |-> TRUE]
Unlocked == [lock |-> "none", w |-> FALSE, r |-> 0]

DInit ==
  /\ owner \in Owners
  /\ file = Nothing /\ treelock = NoOne
  /\ os = [p \in Procs |-> Unlocked]
  /\ pc = [o \in Objs |-> "idle"] /\ token = [o \in Objs |-> "none"]
  /\ state = [o \in Objs |-> "NOT_IN_MEMORY"] /\ mem = [o \in Objs |-> Nothing]
  /\ known = [o \in Objs |-> {}] /\ aborted = [o \in Objs |-> FALSE]
  /\ dead = {}

At(o, label) == owner[o] \notin dead /\ pc[o] = label
Goto(o, label) == pc' = [pc EXCEPT ![o] = label]

-----------------------------------------------------------------------------
(* fcntl.lockf, LOCK_NB, on the dirstate file *)

MutCanShare(p) == TRUE
CanShare(p) == \A q \in Procs \ {p} : os[q].lock # "ex"
CanExclude(p) == \A q \in Procs \ {p} : os[q].lock = "none"

\* A new lock of the process replaces the one it has.
TakeShared(p) == os' = [os EXCEPT ![p].lock = "sh", ![p].r = @ + 1]
TakeExclusive(p) == os' = [os EXCEPT ![p].lock = "ex", ![p].w = TRUE]

\* A reader that was refused has been counted, and stays counted.
ShareRefused(p) == os' = [os EXCEPT ![p].lock = "none", ![p].r = @ + 1]
\* Whatever was opened for the attempt is closed.
ExcludeRefused(p) == os' = [os EXCEPT ![p].lock = "none"]

\* unlock() of a read lock, of a write lock, and restore_read_lock().
DropShared(p) == os' = [os EXCEPT ![p].lock = "none", ![p].r = @ - 1]
DropExclusive(p) == os' = [os EXCEPT ![p].lock = "none", ![p].w = FALSE]

-----------------------------------------------------------------------------
(* Locking a tree *)

MutWipe(o) == UNCHANGED memory
Wipe(o) ==
  /\ state' = [state EXCEPT ![o] = "NOT_IN_MEMORY"] /\ mem' = [mem EXCEPT ![o] = Nothing]
  /\ known' = [known EXCEPT ![o] = {}] /\ aborted' = [aborted EXCEPT ![o] = FALSE]

\* lock_read; LockContention leaves the tree unlocked.
LockRead(o) ==
  LET p == owner[o] IN
  /\ At(o, "idle")
  /\ \/ /\ CanShare(p) /\ TakeShared(p) /\ Goto(o, "open")
        /\ token' = [token EXCEPT ![o] = "r"]
     \/ /\ ~CanShare(p) /\ os[p].r < MaxOpen
        /\ ShareRefused(p) /\ UNCHANGED <<pc, token>>
  /\ Wipe(o)
  /\ UNCHANGED <<owner, file, treelock, dead>>

\* lock_tree_write or lock_write takes the lock directory first ...
LockTree(o) ==
  /\ At(o, "idle") /\ o \notin RevTrees /\ treelock = NoOne
  /\ treelock' = o /\ Goto(o, "tree")
  /\ UNCHANGED <<owner, file, os, token, memory, dead>>

\* control_files.unlock: the lock directory may have been broken meanwhile.
ReleaseTreeLock(o) == treelock' = IF treelock = o THEN NoOne ELSE treelock

\* ... then the dirstate; without that it gives back the lock directory.
LockDirstate(o) ==
  LET p == owner[o] IN
  /\ At(o, "tree")
  /\ \/ /\ ~os[p].w /\ CanExclude(p) /\ TakeExclusive(p)
        /\ Goto(o, "open") /\ token' = [token EXCEPT ![o] = "w"]
        /\ UNCHANGED treelock
     \/ /\ ~os[p].w /\ ~CanExclude(p) /\ ExcludeRefused(p)
        /\ Goto(o, "idle") /\ ReleaseTreeLock(o) /\ UNCHANGED token
     \/ /\ os[p].w
        /\ Goto(o, "idle") /\ ReleaseTreeLock(o) /\ UNCHANGED <<os, token>>
  /\ Wipe(o)
  /\ UNCHANGED <<owner, file, dead>>

-----------------------------------------------------------------------------
(* Work under the lock *)

Loaded(o) == state[o] # "NOT_IN_MEMORY"

\* _read_dirblocks_if_needed
Read(o) ==
  /\ At(o, "open") /\ ~Loaded(o)
  /\ mem' = [mem EXCEPT ![o] = file]
  /\ state' = [state EXCEPT ![o] = "IN_MEMORY_UNMODIFIED"]
  /\ UNCHANGED <<owner, file, treelock, os, pc, token, known, aborted, dead>>

\* Parsing what is not whole raises.
Usable(o) == At(o, "open") /\ Loaded(o) /\ (mem[o].whole \/ aborted[o])

\* add, unversion, set_parent_trees and the like; only ids that are new.
Modify(o, m) ==
  /\ Usable(o) /\ token[o] = "w"
  /\ m \notin file.has /\ \A x \in Objs : m \notin mem[x].has
  /\ mem' = [mem EXCEPT ![o].has = @ \cup {m}]
  /\ state' = [state EXCEPT ![o] = "IN_MEMORY_MODIFIED"]
  /\ UNCHANGED <<owner, file, treelock, os, pc, token, known, aborted, dead>>

\* A delta turns out to be inconsistent when part of it has been applied.
FailDelta(o) ==
  /\ Usable(o) /\ token[o] = "w"
  /\ mem' = [mem EXCEPT ![o].whole = FALSE]
  /\ state' = [state EXCEPT ![o] = "IN_MEMORY_MODIFIED"]
  /\ aborted' = [aborted EXCEPT ![o] = TRUE]
  /\ UNCHANGED <<owner, file, treelock, os, pc, token, known, dead>>

\* update_entry and _observed_sha1 learn the hash of a file.
LearnHash(o, h) ==
  /\ Usable(o) /\ o \notin RevTrees
  /\ h \notin mem[o].has
  /\ mem' = [mem EXCEPT ![o].has = @ \cup {h}]
  /\ known' = [known EXCEPT ![o] = @ \cup {h}]
  /\ state' = [state EXCEPT ![o] =
                 IF @ = "IN_MEMORY_UNMODIFIED" THEN "IN_MEMORY_HASH_MODIFIED" ELSE @]
  /\ UNCHANGED <<owner, file, treelock, os, pc, token, aborted, dead>>

-----------------------------------------------------------------------------
(* DirState.save, within flush() or unlock(); "then" is what comes after it *)

MutWorthSaving(o) ==
  /\ state[o] \in {"IN_MEMORY_MODIFIED", "IN_MEMORY_HASH_MODIFIED"}
  /\ Limit # -1 /\ Cardinality(known[o]) >= Limit
WorthSaving(o) ==
  \/ state[o] = "IN_MEMORY_MODIFIED"
  \/ /\ state[o] = "IN_MEMORY_HASH_MODIFIED"
     /\ Limit # -1 /\ Cardinality(known[o]) >= Limit
MutWillSave(o) == WorthSaving(o)
WillSave(o) == ~aborted[o] /\ WorthSaving(o)

\* get_lines goes to the start of the file; until its end it is not whole.
StartWriting(o) == file' = [mem[o] EXCEPT !.whole = FALSE]

SaveAsWriter(o, label) ==
  /\ token[o] = "w" /\ StartWriting(o)
  /\ Goto(o, label) /\ UNCHANGED <<os, token>>

\* temporary_write_lock: granted, ...
MutMayUpgrade(p) == os[p].r = 1
MayUpgrade(p) == os[p].r = 1 /\ CanExclude(p)
SaveAsReader(o) ==
  LET p == owner[o] IN
  /\ token[o] = "r" /\ ~os[p].w /\ MayUpgrade(p)
  /\ TakeExclusive(p) /\ token' = [token EXCEPT ![o] = "t"]
  /\ StartWriting(o) /\ Goto(o, "save_then_unlock")

\* ... refused because of a reader, here or elsewhere (then its file is closed), ...
UpgradeRefused(o) ==
  LET p == owner[o] IN
  /\ token[o] = "r" /\ ~os[p].w /\ ~MayUpgrade(p)
  /\ IF os[p].r > 1 THEN UNCHANGED os ELSE ExcludeRefused(p)
  /\ Goto(o, "unlock") /\ UNCHANGED <<file, token>>

\* ... or it raises AssertionError out of unlock(), which leaves the tree locked.
UpgradeRaises(o) ==
  /\ token[o] = "r" /\ os[owner[o]].w
  /\ Goto(o, "stuck") /\ UNCHANGED <<file, token, os>>

Flush(o) ==
  /\ At(o, "open") /\ token[o] = "w" /\ WillSave(o)
  /\ SaveAsWriter(o, "save")
  /\ UNCHANGED <<owner, treelock, memory, dead>>

\* WorkingTree.unlock, or DirStateRevisionTree.unlock, which saves nothing.
Unlock(o) ==
  /\ At(o, "open")
  /\ \/ /\ o \notin RevTrees /\ WillSave(o)
        /\ \/ SaveAsWriter(o, "save_then_unlock")
           \/ SaveAsReader(o) \/ UpgradeRefused(o) \/ UpgradeRaises(o)
     \/ /\ o \in RevTrees \/ ~WillSave(o)
        /\ Goto(o, "unlock") /\ UNCHANGED <<file, os, token>>
  /\ UNCHANGED <<owner, treelock, memory, dead>>

\* The file is complete, flushed and synced; restore_read_lock.
FinishSave(o) ==
  /\ At(o, "save") \/ At(o, "save_then_unlock")
  /\ file' = mem[o]
  /\ state' = [state EXCEPT ![o] = "IN_MEMORY_UNMODIFIED"]
  /\ known' = [known EXCEPT ![o] = {}]
  /\ Goto(o, IF pc[o] = "save" THEN "open" ELSE "unlock")
  /\ IF token[o] = "t"
     THEN DropExclusive(owner[o]) /\ token' = [token EXCEPT ![o] = "r"]
     ELSE UNCHANGED <<os, token>>
  /\ UNCHANGED <<owner, treelock, mem, aborted, dead>>

\* DirState.unlock; the WorkingTree forgets its DirState ...
UnlockDirstate(o) ==
  /\ At(o, "unlock")
  /\ IF token[o] = "w" THEN DropExclusive(owner[o]) ELSE DropShared(owner[o])
  /\ Goto(o, IF token[o] = "w" THEN "unlock_tree" ELSE "idle")
  /\ token' = [token EXCEPT ![o] = "none"]
  /\ Wipe(o)
  /\ UNCHANGED <<owner, file, treelock, dead>>

\* ... and a writer gives back the lock directory.
UnlockTree(o) ==
  /\ At(o, "unlock_tree") /\ Goto(o, "idle")
  /\ ReleaseTreeLock(o)
  /\ UNCHANGED <<owner, file, os, token, memory, dead>>

-----------------------------------------------------------------------------
(* break_lock, and kills *)

\* Only when nobody has the dirstate locked does break_lock go on ...
Probe(o) ==
  LET p == owner[o] IN
  /\ At(o, "idle") /\ o \notin RevTrees /\ treelock # NoOne /\ ~os[p].w
  /\ ExcludeRefused(p)
  /\ IF CanExclude(p) THEN Goto(o, "probed") ELSE UNCHANGED pc
  /\ UNCHANGED <<owner, file, treelock, token, memory, dead>>

\* ... to the lock directory; the user may decline.
BreakTree(o) ==
  /\ At(o, "probed") /\ Goto(o, "idle")
  /\ treelock' \in {treelock, NoOne}
  /\ UNCHANGED <<owner, file, os, token, memory, dead>>

\* The kernel ends the locks of a process, not its lock directory.
Kill(p) ==
  /\ p \in Mortals \ dead /\ dead' = dead \cup {p}
  /\ os' = [os EXCEPT ![p] = Unlocked]
  /\ UNCHANGED <<owner, file, treelock, pc, token, memory>>

Step(o) ==
  \/ LockRead(o) \/ LockTree(o) \/ LockDirstate(o) \/ Read(o)
  \/ \E m \in Mods : Modify(o, m)
  \/ \E h \in Hashes : LearnHash(o, h)
  \/ FailDelta(o) \/ Flush(o) \/ Unlock(o) \/ FinishSave(o)
  \/ UnlockDirstate(o) \/ UnlockTree(o) \/ Probe(o) \/ BreakTree(o)
DNext == (\E o \in Objs : Step(o)) \/ \E p \in Procs : Kill(p)
DSpec == DInit /\ [][DNext]_dvars

-----------------------------------------------------------------------------
(* Properties *)

Alive(o) == owner[o] \notin dead
\* No process has the tree open twice.
Apart == \A x, y \in Objs : owner[x] = owner[y] => x = y
Saving == {"save", "save_then_unlock"}

\* The types, and what the counts of lock.py have to do with the objects.
DTypeOK ==
  /\ owner \in [Objs -> Procs] /\ file \in Content /\ treelock \in Objs \cup {NoOne}
  /\ os \in [Procs -> [lock : {"none", "sh", "ex"}, w : BOOLEAN, r : Nat]]
  /\ pc \in [Objs -> {"idle", "tree", "open", "save", "save_then_unlock", "unlock",
                      "unlock_tree", "probed", "stuck"}]
  /\ token \in [Objs -> {"none", "r", "w", "t"}]
  /\ state \in [Objs -> {"NOT_IN_MEMORY", "IN_MEMORY_UNMODIFIED",
                         "IN_MEMORY_HASH_MODIFIED", "IN_MEMORY_MODIFIED"}]
  /\ mem \in [Objs -> Content] /\ known \in [Objs -> SUBSET Hashes]
  /\ aborted \in [Objs -> BOOLEAN] /\ dead \subseteq Procs

\* As long as no process has the tree open twice, what an object has in memory is
\* never behind the file while it is locked, so that it may decide on it and write
\* it back (DirState.save: "use oslocks on it to prevent concurrent modification
\* and reads").
MemoryIsCurrent ==
  Apart => \A o \in Objs : Alive(o) /\ pc[o] = "open" /\ Loaded(o)
             => file.has \subseteq mem[o].has

\* Nor does anybody parse a file that another process is in the middle of writing,
\* unless that process died there.
ReadsAreWhole ==
  Apart => \A o \in Objs : Alive(o) /\ Loaded(o) /\ ~mem[o].whole /\ ~aborted[o]
             => \E x \in Objs : pc[x] \in Saving /\ ~Alive(x)

\* Nor does a save undo a change that an earlier one has made, whatever processes
\* read, upgrade their locks, break locks or die in between.
NoLostUpdateApart == [][Apart => file.has \subseteq file'.has]_dvars

\* Unless someone is writing it, or was killed while writing it, the file makes
\* sense: what a failed delta left in memory is never saved.
FileSound == Apart /\ ~file.whole => \E o \in Objs : pc[o] \in Saving

\* A writer that unlocks has written all it was asked to change, unless that was
\* abandoned as inconsistent: flush and save never skip it for want of a lock.
WritersAreSaved ==
  [][\A o \in Objs : Apart /\ pc[o] = "unlock" /\ pc'[o] = "unlock_tree" /\ ~aborted[o]
       => mem[o].has \cap Mods \subseteq file.has]_dvars
=============================================================================
