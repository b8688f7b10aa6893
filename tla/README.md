# Bazaar: specifications and proofs

TLA+ models of the parts of Bazaar (`bzrlib`) whose correctness depends on what
several processes, several steps or several failures do together, with the TLC
configurations that check them and TLAPS proofs. Paths are relative to
`src/bzrlib/`.

## The system: inventory

Bazaar is a version control program without a server process of its own. Any
number of `bzr` processes, some of them serving remote clients, work on the same
directories through a *transport* (local disk, sftp, http, the smart protocol).
What they share is files; what keeps them apart is lock directories and the order
in which files are written.

| Component | State it keeps | Operations | Hard behaviour, and what makes it correct | Modelled |
|---|---|---|---|---|
| Lock directory, `lockdir.py` | `held/info` on disk; nonce, `_lock_held`, `_locked_via_token` in the object | create, lock (poll, steal), unlock, peek, confirm, break, tokens | every step is a separate transport call; kills; stale peeks; one holder at a time, whose lock nobody else removes | all |
| Counted locks, `counted_lock.py`, `lockable_files.py` | mode, count, token | nested lock and unlock | real lock held exactly while the count is positive | no |
| OS locks, `lock.py` | fcntl locks, in-process tables | read, write, upgrade | readers or one writer, across processes and inside one | fcntl, in `DirState` |
| Dirstate, `dirstate.py`, `workingtree_4.py` | tree state file, memory states | read, update, save | saving from a read lock by a non-atomic upgrade; lost updates, half-written files | locking and saving |
| Hash caches, `hashcache.py`, `dirstate.py` | sha1 and stat fingerprint | look up, record | time stamps are coarse; a hash must never outlive the contents | all |
| Pack repository, `repofmt/pack_repo.py` | `pack-names`, `packs/`, `indices/`, `obsolete_packs/`, `upload/`; `_names`, `_packs_at_load` in memory | load and reload names, write groups, autopack, pack, save names, obsolete packs, read | many writers, only the rewriting of `pack-names` is locked; names always have files; nothing published is lost; readers recover | mostly |
| Autopack planning, same file | pack sizes | distribution, plan | never fails, bounds the number of packs | all |
| CHK maps, `chk_map.py` | a trie of nodes named by their hashes | map, unmap, delta, compare | it is a dictionary; the same items have the same root | mostly |
| Branch, tags, `branch.py`, `tag.py` | last revision, tags, bound location | pull, push, bind, set | two branches updated in order under two locks | tips and binding |
| Commit, uncommit, update: `commit.py`, `uncommit.py`, `workingtree.py` | all of the above | commit | partial failure between repository, master, branch and tree | order of steps |
| Tree transform, `transform.py` | scheduled changes, limbo, pending deletions, past renames | changes, conflicts, apply, rollback | resolutions that conflict again; failure amid renames | mostly |
| Configuration, `config.py` | ini files, lock | load, set, save | reload and reapply before saving | stores of one file |
| Smart protocol, `smart/`, `remote.py` | message decoders, lock tokens | call, stream, retry | disconnects; a request sent again may be carried out twice | retries, tokens |
| Revision graph: `_known_graph_py.py`, `tsort.py`, `graph.py` | the ancestry read so far | heads, sorts, revision numbers | a graph that grows while answers are cached; ghosts; cycles | `KnownGraph`, `merge_sort` |
| Merge, diff: `merge3.py`, `patiencediff.py` | none (pure) | three-way merge | agree with their definitions | no |
| Indices and compression: `index.py`, `btree_index.py`, `groupcompress.py`, `knit.py` | byte formats | lookup, insert | retry on missing files | with the packs |
| Caches: `lru_cache.py`, `fifo_cache.py` | linked list and dictionary | add, get, evict | limits, cleanup calls | no |
| Commands, UI, plugins, formats, bundles | – | – | no shared state of their own | no |

`PROJECT.json` lists every component with its status, and under `hazards` the
places where each of these behaviours bites.

**How the parts interact.** Branch, working tree and repository objects own a
`LockableFiles`, which counts around one `LockDir`. A pack repository counts its
own write locks in memory and takes its `LockDir` only inside
`_save_pack_names`. A working tree takes its `LockDir` and then, when it writes,
an OS lock on the dirstate. A commit goes through repository, master branch,
branch and tree in this order. Everything reaches the disk through a transport,
whose rename, put and delete are the atomic steps of the models.

## Plan

Done, in this order:

1. `Mutex`, `LockDir` and `PackCollection` with proofs; `AutopackPlan`; later the
   theorems about `LockDir` with several breakers and with tokens, and saves of
   pack-names that fail.
2. `DirState` over the OS locks, with its proofs, and `StatCache` with its proofs.
3. `BoundBranch` (commit, pull, push, update with failures between any two steps),
   `Transform`, `ConfigStore`, all with proofs.
4. `ChkMap`, `SmartClient` with proofs, `KnownGraph` and `MergeSort` with
   proofs.
5. `Induction`, which makes recursive functions accessible to proofs, and with it the
   proofs about `BoundBranch`, `AutopackPlan`, `Transform` and `MergeSort`.

Left:

1. `PackCollection`: reads inside a write group; `NothingLost` and `ViewGrows` for
   identical pack files, proved.
2. `CountedLock` over `Mutex`, with the refinement "locked while counted".
3. Fetch between stacked repositories (missing compression parents), tags and
   their merging in `BoundBranch`, sections and locations in `ConfigStore`.
4. `find_distance_to_null` and the breadth-first searchers of `graph.py`,
   `gc_sort`, the regions of `merge3.py`, `LRUCache`.

Runs that answer questions about small parts are gathered: `trees`, `parts` and
`contents` explore several models side by side (see "Gathered runs").

## Modules

| Module | Models | Used by |
|---|---|---|
| `Mutex` | what a lock directory promises | `LockDir` implements it, `PackCollection` extends it |
| `LockDir` | `lockdir.py` | `MCLockDir`, `MCParts`, `LockDirProofs` |
| `PackCollection` | `repofmt/pack_repo.py`, write groups and pack names | `MCPackCollection`, `PackProofs` |
| `AutopackPlan` | `repofmt/pack_repo.py`, autopack planning | `MCParts`, `AutopackProofs` |
| `DirState` | `dirstate.py`, `workingtree_4.py`, `lock.py` | `MCTrees`, `TreeProofs` |
| `StatCache` | hashes in `dirstate.py` and `hashcache.py` | `MCTrees`, `TreeProofs` |
| `BoundBranch` | `commit.py`, `uncommit.py`, `branch.py`, `workingtree.py` | `MCParts`, `BranchProofs` |
| `ConfigStore` | `config.py`, stores | `MCParts`, `BranchProofs` |
| `SmartClient` | `smart/client.py`, `smart/request.py`, `remote.py` | `MCParts`, `BranchProofs` |
| `KnownGraph` | `_known_graph_py.py` | `MCParts`, `GraphProofs` |
| `MergeSort` | `tsort.py`, `MergeSorter` | `MCParts`, `GraphProofs` |
| `ChkMap` | `chk_map.py` | `MCContents` |
| `Transform` | `transform.py` | `MCContents`, `TransformProofs` |
| `MCLockDir`, `MCPackCollection`, `MCTrees`, `MCParts`, `MCContents` | instances for TLC | |
| `LockDirProofs`, `PackProofs`, `AutopackProofs`, `TreeProofs`, `BranchProofs`, `TransformProofs`, `GraphProofs` | theorems | |
| `Induction` | induction over the natural numbers, as lemmas | `AutopackProofs`, `BranchProofs`, `TransformProofs`, `GraphProofs` |

### Mutex

`lock` says who took the lock (or `Free`, or `Lost` when the info file can no
longer be read), `inside` which processes have had `lock_write` return and have
not unlocked, `alive` which were not killed. A lock goes from its taker only by
`Leave`, or by `Break` once the taker is dead.

### LockDir

One action is one transport call that another process can observe, together with
the local computation that follows. Calls on a directory with a random name that
only its creator knows are merged with their neighbours. `held` is the info file of
the directory `held` (kind `ok` with a nonce, or `empty`, `corrupt`, or `none` if
there is no such directory), `junk` what a misbehaving server moved inside it,
`tmp` all pending, releasing and broken directories. `pc` follows each process
through its call:

| Code | Actions |
|---|---|
| `lock_write`, `wait_lock`, `_attempt_lock`, `_create_pending_dir` | `LockWrite`, `CreatePendingDir`, `Create`, `RenameIntoPlace`, `Contend`, `Decide`, `Verify`, `WaitLock` |
| `force_break` (also from stealing) | `ForceBreakPeek`, `ForceBreakRename`, `ForceBreakCheck` |
| `force_break_corrupt`, `break_lock` | `BreakLock`, `Ask`, `ForceBreakCorruptRename`, `ForceBreakCorruptCheck` |
| `unlock` | `Unlock`, `Confirm`, `ReleaseRename`, `ReleaseDelete`, `UnlockLeavingInPlace`, `UnlockRead` |
| tokens, read locks | `LockWithToken`, `LeaveInPlace`, `DontLeaveInPlace`, `LockRead` |
| a kill | `Kill` |

The object is called as `CountedLock` and `LockableFiles` call it: lock when not
locked, unlock when locked; after `unlock` the caller considers itself unlocked,
whatever `unlock` raised.

A token is the nonce of a lock, handed on by the object that took it (`issued`).
`validate_token` compares it with the info file and nothing else, so any number of
objects may have one lock by its token at once, beside the object that took it;
this is how the smart server and `RemoteBranch` use it. None of them knows of the
others. An unlock that takes the lock off the disk takes it from all, and it is left
to the callers to do that last (`SoleReleaser`): the server unlocks a branch that a
client has locked in the request that does it for the client, and `RemoteBranch`
unlocks the branch it wraps, which has the lock by token, before it sends that
request. `TokenSpec` is the specification with callers that do so. Without it, what
remains is that a token is good for one lock only (`StaleTokensAreRefused`).

Abstractions: a nonce is its process and a serial number
(`rand_chars(20)` does not repeat); a host name stands for host and user; time is
left out, so a waiting locker may give up at any poll; the deadline's arithmetic
and all messages are left out. Not modelled: pids that are reused (the lock is
then merely not stolen), two `LockDir` objects of one process on one lock, hooks.

### PackCollection

A pack is its data file with its indices; its name is the hash of its bytes, here
the set of its revisions and a tag. `names` is the file `pack-names`, `packs`,
`obsolete` and `upload` the directories; `mem` and `atLoad` are `_names` and
`_packs_at_load` of each process. `_diff_pack_names`, the three-way merge on which
everything depends, is `DiskNodes`. One action is a step between two points at
which other processes can interfere: loading names (`Lock`), locating data in an
index and reading it (`ReadIndex`, `ReadData`, and `ReadOtherIndex` for a reload
in between), the write group operations, planning (`NoAutopack`, `PlanPacking`,
which leaves the choice of packs open), counting
the revisions first (`CountRevisions`, `CountAgain`), copying each source pack
(`CopyPack`), `FinishPack`, and
`_save_pack_names` in its steps `LockNames`, `NamesLocked`, `ReadNames`,
`WriteNames`, `ClearObsolete`, `UnlockNames`, `ObsoletePack`. It fails if the lock is
not to be had (`NamesContention`), if `pack-names` cannot be written (`WriteFails`),
or, after that, if `obsolete_packs/` cannot be listed (`ClearFails`, which only the
processes in `Faulty` meet); what is in memory stays as it is then, as in the code.
The names lock is `Mutex`, by the theorem `Refinement`. With `SameBytes` two processes that pack the
same revisions get the same name; without it names are never reused.

What happens when a file of a pack is gone depends on who reads it. Most lookups and
all reads of data reload the names and start over, or raise the original error if the
names are the same (`ReloadOrRaise`). Two reads have no such handler, and end the
operation (`Unretried`): the indices that a packing copies from, and the counting of
revisions in a later try of `pack()`. A third is `CombinedGraphIndex.find_ancestry`;
it changes nothing but its caller's plans and is no action.

Left out: which records are in a pack and the checks on them before a commit,
stacking, reads inside a write group, errors of the transport other than these and
a missing pack, one client resuming another's suspended packs, and a names lock broken under
a live process (this is what `lockdir_steal_race` is about).

### AutopackPlan

The repository as a descending list of revision counts; `Commit` adds a pack and
starts the plan, `KeepPack`, `Consume` and `MovePack` are the turns of the two
loops of `plan_autopack_combinations`, `Execute` merges all operations into one.
`DigitSum` and `Sizes` are the decimal digits as `pack_distribution` uses them. A
merged pack has the sum of its parts' revisions (revisions present twice are not
modelled). That the distribution never runs out (`pop(0)` from an empty list) is
covered by deadlock checking, as the loop would have no next turn, and proved
(`PlanNeverRunsOut`).

### DirState

The dirstate file is the set of changes it shows (`file.has`) and whether it is
whole. `os` is what the kernel says of each process, and what `lock.py` counts in
`_open_locks` and `_temp_write_lock`; a kernel lock belongs to the process, and any
close of the file by the process ends it. `owner` says which tree objects live in
the same process.

| Code | Actions |
|---|---|
| `lock_read`, `lock_write`, `lock_tree_write` | `LockRead`, `LockTree`, `LockDirstate` |
| `_read_dirblocks_if_needed`, `_wipe_state` | `Read`, and `Wipe` in the others |
| `_mark_modified` by `add`, `set_state_from_inventory`, `set_parent_trees`, ... | `Modify`, `LearnHash` (`update_entry`) |
| `update_by_delta`, `update_basis_by_delta` failing (`_raise_invalid`) | `FailDelta` |
| `flush`, `unlock`, `save`, `_worth_saving` | `Flush`, `Unlock`, `FinishSave`, `UnlockDirstate`, `UnlockTree` |
| `temporary_write_lock`, `restore_read_lock` | `SaveAsReader`, `UpgradeRefused`, `UpgradeRaises`, and `FinishSave` |
| `break_lock` | `Probe`, `BreakTree` |
| a kill | `Kill` |

A save is two steps, because a kill may leave the file cut short. What `add`,
`move` or a delta do to the dirblocks is left out; `Limit` is
`bzr.workingtree.worth_saving_limit`. The kernel ends the locks of a killed
process; its lock directory is left to `break_lock`.

### StatCache

One file, a clock and both caches. `Write` changes the file, perhaps setting its
mtime back; its ctime is the clock's, up to `Lag` behind. `Tick` passes time;
`Relock` saves, unlocks and locks again; `Begin` takes the stat for one of three
operations: `update_entry` (`UpdateHit`, `UpdateMiss`, `UpdateRead`),
`_observed_sha1` during a commit (`ObserveRead`, `ObserveRecord`) and
`HashCache.get_sha1` (`HashHit`, `HashRead`, `HashRecord`, `HashScan`). An operation
in `Slow` may take any time, the others at most `MaxRead`. `LateCutoff` switches
on a use that the commands avoid: hashes recorded before any cutoff was taken.

### BoundBranch

A tip is a revision and its number. A call is its remaining steps (`todo`), the
branches it has locked, the tip it sets (`new`) and what it replaces (`old`).
`CommitBound`, `CommitHere` (also `--local`), `Uncommit`, `Pull`, `Push`,
`UpdateBound`, `UpdateTree`, `Rebind` and `Merge` begin a call with the checks the
code makes first; then come `LockMaster` (or `GiveUp`, if the checks after the
locks fail), `Record` (the revision or the fetch), `SetTip` (master first, then
branch) and `SetTree`. `Fail` ends a call before any step, with an exception or a
kill that leaves its locks to `BreakLock`. The parents that a tree is left with
follow `set_parent_ids`, `_filter_parent_ids_by_ancestry`, `uncommit` and
`_update_tree`. Left out: the contents of revisions, tags, stacking,
`append_revisions_only`, stop revisions; the revision number given to
`set_last_revision_info` is taken to be right.

### ConfigStore

Every process has one store of one file; `guarded` says whether it is the file of
a branch, which is written under the branch lock, or one of the user's, whose own
lock is taken by `save` only. `Load`, `LockBranch`, `Change`, `ApplyChanges`
(reload and `apply_changes`), `LockFile` or `LockContended`, `Save`,
`UnlockBranch`, `Restart`. An option is a name in a section.

### SmartClient

`Begin` starts a call; `Write`, `WriteFails`, `Read`, `ReadFails` are what
`call_and_read_response`, `_call_determining_protocol_version` and `_send` do with the
connection; `version` is what the medium remembers of the server. A request on
the `wire` may be carried out at any later time (`CarryOut`), rejected for its
protocol version (`Reject`) or lost (`Lose`): a server whose client disconnected
goes on with what it has read. `Info` has the classes of `smart/request.py`. Locks
are those of `RemoteBranch`: `token` in the client, `lockedBy` on the server;
`BreakOrphan` is a user breaking a lock that no client has.

### KnownGraph

`FindGdfo` and `Return` are `_find_gdfo`; `AddNode` and `AddNodeTurn` are
`add_node`, which fills in ghosts and moves its descendants; `AskHeads`, `Search`
and `FoundHeads` are `heads` with its cache `_known_heads`; `BeginSort` and
`SortTurn` are `topo_sort`. Nodes are popped in any order. Where the code counts
the parents it has met, the model keeps them.

### MergeSort

`Visit`, `Pop` and `Deliver` are the search of `MergeSorter.iter_topo_order` with
its five stacks as one (`frames`), `_push_node` and `_pop_node`. Not modelled:
forced mainlines, a stop revision, `end_of_merge`, an empty tip. Of the graphs it is
assumed that they are finite, have the tip, and give each revision a sequence of
parents; what is only a parent is a ghost.

### ChkMap

A node is its value; two nodes are equal when their keys are. `Map`, `UnmapKey`,
`Delta` (`apply_delta`), `CreateDirectly` (`from_dict`) and `Save` (a basis for
later comparison). The recursive operators `LeafMap`, `NodeMap`, `SplitInto`,
`Unmap`, `CheckRemap` and `Diff` are the methods of the nodes; a dictionary yields
its items in one of `Orders`. Leaves overflow by the sizes of the code
(`_current_size`), which are small here. Not modelled: serialised bytes, the page
cache, plain search keys of several lengths, `iter_interesting_nodes`.

### Transform

`tt` is what is scheduled (new names, removed contents, new contents, versioning),
`limbo` where new contents are, `disk` the place of every file and directory.
`MoveTo`, `Delete`, `Replace` and `New` are the changes a caller makes; `Look`
finds all conflicts (`find_conflicts`), `Resolve` deals with one as
`conflict_pass` does; after the tenth pass it does not look again but gives up. `RemoveNext`, `StartInsertions`,
`InsertNext` rename in the order of the code; `RenameFails` fails one of them and
`Rollback` undoes the others, perhaps failing itself; `Finalize` deletes limbo,
`ApplyDeletions` what was replaced, and `ApplyInventory` applies the inventory
delta. Not modelled: symlinks and tree references, executability,
`cancel_creation` and `cancel_deletion`, a new root, the orphan policy, previews.

Entries are numbered, those of the tree before new ones: the number is the trans_id,
the file id, and the order in which neighbours in a sorted list of names come.
`LayoutAssumption` says what a tree is: what an entry is in is a directory, or the
root; no two entries have one path; and there is no loop. `InodeAssumption` and the
parts of `TransformAssumption` about `None` only say that "nothing" is none of the
things there are.

## Runs

| Run | Question | Result |
|---|---|---|
| `lockdir_mutex` | three processes, one of them stealing and breaking with care, kills, empty info files, misbehaving rename | `MutualExclusion`, `HoldersKeepLock`, `UnlockTakesOwnLock`, `NoPendingLeftBehind` and the refinement `ImplementsMutex` hold |
| `lockdir_live` | two careless breakers and stealers, tokens, torn info files, a kill, under fairness | exclusion is lost, but `StaleTokensAreRefused` holds; `CallsEnd` and `DeadLockIsStolen` hold |
| `lockdir_steal_race` | two processes with `locks.steal_dead` | **violated**: a live lock is broken |
| `pack_save` | two processes, all operations, one may be killed, `pack-names` may fail to be written | `NamesHaveFiles`, `NothingLost`, `ReloadAlwaysHelps`, `ObsoleteAfterPublish`, `ViewGrows` hold |
| `pack_live` | fairness; identical packs; saves that fail half way | `OperationsEnd` holds |
| `pack_unretried` | an autopack whose packs another process packs | **violated**: `AutopackTriesAgain`, a missing index ends it |
| `pack_forgets` | a save that fails while it clears `obsolete_packs/` | **violated**: `NothingLost`, the next save drops the packs of others |
| `trees` | three tree objects on one dirstate, or one file and its hashes | `MemoryIsCurrent`, `ReadsAreWhole`, `FileSound`, `NoLostUpdateApart`, `WritersAreSaved`; `EntryIsRight`, `HashIsRight` hold |
| `parts` | bound branches; autopack plans; a configuration file; smart clients; a revision graph; revision numbers; locks shared by token | `TipsArePresent`, `MasterFirst`, `LocalWorkKeptApart`, `TipsAdvance`; `PackCountBounded`; `OthersOptionsKept`; `RepeatedSafely`, `LockIsKept`; `HeadsAreRight`, `SortedRight`; `RevnosAreRight`; `TokensAreShared` hold |
| `contents` | CHK maps; tree transforms | `HoldsItsItems`, `RegularFormIsCanonical`, `ChangesAreRightApart`; `AppliedAsPlanned`, `NothingDeletedEarly`, `RollbackRestores`, `ResolutionSucceeds` hold |
| `update_loses` | two trees of one bound branch | **violated**: `LocalWorkKept`, an update drops a local commit |
| `chk_loses` | `from_dict` splits a leaf with one item larger than the others | **violated**: `HoldsItsItems`, an item vanishes |

Type invariants are not checked by runs: those of the modules with theorems are
proved, or are part of what is.

### Gathered runs

`MCTrees`, `MCParts` and `MCContents` extend several modules that share no
variables. Their variable `focus` is chosen once from the constant `Parts`; the
chosen model moves and all others stay in one of their initial states. Each
behaviour is therefore one of a single component, and the states are the sum, not
the product, of the components' states. To look at one component alone, leave its
name in `Parts`. One of the parts of `MCParts` is an instance of `LockDir`: the steps
of `TokenSpec` with three stealers whose machines are all called `localhost`, so that
nobody's pid is trusted and nothing is stolen, and all who have the lock bear its
token (`TokensAreShared`). It is a part of its own because it needs other constants
than `lockdir_live`, and callers that unlock in order.

### Findings

*`lockdir_steal_race`.* Both stealers have passed the first check of `force_break`;
one renames the dead lock away and takes the lock; the other then renames that one
away, and only afterwards sees the mismatch. A process that has the lock is not
told. The loser of such a race gets `NoSuchFile` or `LockBreakMismatch` out of
`lock_write` instead of the `LockContention` that `wait_lock` documents.

*`pack_unretried`.* `RetryAutopack` is there "to tell the autopack code it should try
again" when "we find a missing file". The data of the packs are read with
`_restart_autopack` as the function that reloads, but `_build_vf` makes the index over
them without one. If the packs have been packed by another process since their names
were read, the first lookup in an index that had not been read raises `NoSuchFile`
through `_execute_pack_operations`, and the commit that started the autopack fails
before its names are saved.

*`pack_forgets`.* `_save_pack_names` merges the packs that others have added into the
names it writes, and notes the result in `_packs_at_load`; `_names` gets them only at
the end, from `_syncronize_pack_names_from_disk_nodes`. If `_clear_obsolete_packs`
raises in between (it expects `NoSuchFile` only), these packs are *loaded* and not in
memory, which is how `_diff_pack_names` recognises packs that this process has
removed. No reload heals this, as it merges in the same way, and the object's next
save takes the packs out of `pack-names`. They stay in `packs/`, where nothing looks
for them.

*`update_loses`.* Two lightweight checkouts share a bound branch. One makes a
`commit --local`; the other's basis is still the master's tip. An update of this
other tree makes the branch a copy of the master again, and gets the old tip back
to add it as a pending merge; but `_update_tree` adds it only if the tree's basis
differs from the new tip, which it does not. Nothing refers to the local commit
any more.

*`chk_loses`.* `LeafNode._split` maps the items of a leaf into new children and
looks at what `child.map` returns only if that is more than one node. A child that
has been split itself may return a new internal node *above* itself when a further
item does not share its prefix; this one is dropped, and the item with it. In the run
`from_dict` puts four items into one leaf and splits it, and one value has more weight
than the room that the other items leave, which is what makes a child split during
the split of its parent.

### Observations without a run

Each of these was seen in the code while it was translated, most of them
confirmed by a model with other constants or another property.

- `lockdir.py`: a process that fails to create the lock directory because another
  has just done so gets `LockFailed`, where the comment at lines 328-330 speaks of
  contention. `break_lock` fails with `AttributeError` (line 414) if the lock is
  released between its two peeks. A locker that meets a corrupt info file leaves
  its pending directory behind, because `peek` raises outside the block that cleans
  up: `lockdir_mutex` uses empty info files only. `unlock` that raises `LockBroken`
  leaves `_lock_held` set: the object's `lock_read` raises `LockContention` from then
  on, and its `force_break` raises `AssertionError`, for a dead lock as well, so that it
  steals nothing (`DeadLockIsStolen` excepts it). An unlock whose lock is broken
  between its `confirm()` and its rename takes down the lock of whoever came next,
  although the comment at `confirm()` says "gotta own it to unlock": with a breaker that
  is not careful, `UnlockTakesOwnLock` is violated. With the misbehaving rename a dead lock is not stolen,
  as the pending directory inside it keeps it from being deleted.
- `pack_repo.py`: if two processes produce the same pack, `NamesHaveFiles` fails.
  The first publishes it. The second has it as *new* in memory, not as *loaded*, so
  when its autopack combines it with another, the three-way merge does not take it
  for deleted: it stays in `pack-names` and its files are moved away.
- `lock.py`: two objects of one process on one dirstate end each other's kernel
  locks, so updates can be lost; a reader that was refused stays counted in
  `_open_locks`; `restore_read_lock` briefly has no lock; if another object of the
  process has the write lock, `temporary_write_lock` raises out of `unlock` and
  leaves the tree locked.
- `hashcache.py`: the cutoff is taken after the file was read. If hashing takes
  longer than the window, a change meanwhile may go unnoticed. `dirstate.py` takes
  its cutoff before (`EntryIsRight` holds with slow operations).
- `commit.py`: the tips are compared before the master is locked; a master that
  moves in between is noticed later, by the divergence check of the push.
- `uncommit.py`: uncommitting the first revision leaves a pending merge as the
  tree's basis.
- `chk_map.py`: replacing a value by a shorter one does not remap, and a delta that
  removes and adds may end in another form than a map built anew, so that equal
  maps get different keys (hence `regular`). `iter_changes` may report unchanged
  items if search keys collide (hence `NoCollisions`). `from_dict` of items that
  overflow and all have the same search key fails its assertion.
- `transform.py`: versioning the parent of a versioned file that was moved into an
  unversioned directory may call `version_file(None)`. If a rollback itself fails,
  `finalize` deletes what is still in limbo, user files included (`broken`). If
  `apply_deletions` fails, the inventory stays the old one.
- `config.py`: an option of another process that is saved between reload and write
  of a user's file is lost (`overtaken`, which `OthersOptionsKept` excludes);
  `LockContention` in a save forgets the changes; `BzrBranch.unlock` that fails in
  `save_changes` leaves the lock.
- `smart/`: a late repetition of an `idem` request may undo a newer request of the
  same session; a late `lock_write` leaves a lock nobody knows;
  `Branch.break_lock` counts as `idem`, so its repetition may break a newer lock.
- `_known_graph_py.py`: `topo_sort` finds a cycle by nodes that never got a
  distance. If each node of the cycle also has a parent outside, all get one, and
  the sort ends without them: `topo_sort({0: [1, 2], 1: [0, 2], 2: []})` gives
  `[2]`, where `tests/test_tsort.py:69` says "TopoSort traps graph with cycles".
  In the model `doing = "topo_sort" => ~Cyclic` fails.
- `tsort.py`: if the mainline ends in a ghost, a merged revision may be numbered
  1 and the mainline 0.1.1.

### Bounds

- `lockdir_*`. `MaxTries`, attempts of one locker: 2 allows contention, a steal and
  a retry. Three processes: holder, stealer or breaker, and the locker that slips in
  between; two where both steal and break without care, one of them is killed, and calls have to
  end. The server renames correctly in `lockdir_live`: a locker whose pending
  directory it misplaces gives up, which is no theft. In the part `tokens` of `parts`
  three processes, each with one attempt of its own and any number
  of locks by token: a lock is shared, left behind, claimed, given up and taken anew by
  another process.
- `pack_*`. `MaxPacks`, packs ever made: 4 is enough for two commits, the pack that
  combines them and a concurrent one; `Room` reserves a pack for a packing in
  progress, so that the bound never stops a process in the middle. Two revisions;
  revisions are interchangeable (`SYMMETRY`), processes are not (their roles
  differ). `Tags`: more than `MaxPacks`, so that without `SameBytes` a fresh name is
  always left.
- `trees`. Three objects, one of them a `DirStateRevisionTree`, each in its own
  process, or two of them in one: enough for a writer, a reader that upgrades its
  lock and one that gets in its way. Two changes and one hash; `Limit` 1, so that
  hashes are saved. `MaxOpen` 2 refused readers. The clock goes to `MaxTime` 7,
  twice the window of 3 and more; time stamps trail it by one second (`Lag`), an
  operation of the hash cache takes up to two (`MaxRead`), the others any time.
- `parts`. Three branches, one of them the master of the others; the trees are on
  two branches, or one on a branch and one on the master (`Apart`), or on one
  (`Together`, in `update_loses`). Three revisions and four calls (five where two
  trees share a branch) make a local commit, a diverging commit to the master, an
  update and a commit on its result. `MaxRevs` 101 crosses the boundaries 10, 20
  and 100 of the autopack distribution. Two processes, options and values. Two
  clients, three calls between them, two resets: a request repeated, delayed and
  overtaken by another client's. Graphs of four keys, one of them the null
  revision, include every cycle of up to three nodes, diamonds and ghosts. The
  graphs that are merge-sorted: all of three revisions and a ghost with up to two
  parents, and all of five in an order of age with up to three, where merges of
  merges and two merges of one revision happen.
- `contents`. Four keys whose search keys of length four agree in none, one or two
  places: up to three levels of nodes, and splits and collapses at each. The two sizes
  are chosen so that no child of a leaf that is being split splits in its turn and
  then grows a parent; this is where items are lost, and the subject of `chk_loses`. A
  delta drops one item and sets one. A tree of two directories and a file; two changes
  already make every kind of conflict but `overwrite`, as contents are deleted before
  they are replaced; one fault may hit any rename, and another one the rollback. No such transform takes
  more than three passes of resolutions, so that the tenth is far away.

### Deadlocks

They are checked in all runs but those whose cfg says otherwise. Where a bound is
reached and all calls have ended, a stuttering step (`AllEnded`, `SmartRests`,
`TransformEnded`, `HasEnded`) tells the end from being stuck.

### Fairness

`FairSpec` and `PackFairSpec` assume weak fairness of the steps of a call that has
begun, as a running process guarantees; nothing is assumed about starting calls,
about a user breaking locks, or about locks being released. A wait ends because
`wait_lock` has a deadline, which is a step of its own. The other models are
about safety: their calls are finite sequences of steps by construction.

## Proofs

Each proof is about the specification that the runs check, with no assumption on
the constants but the named one in its module and those stated here.

`LockDirProofs`, for any set of processes, machines and host names:

- `TypeCorrect`: `Spec => []TypeOK`.
- `Exclusion`, `HolderSafety`, `Refinement`: mutual exclusion, `HoldersKeepLock`
  and the implementation of `Mutex`, assuming `SingleBreaker`: at most one process
  steals or breaks, it approves only breaks of the dead, machines that share a host
  name are `localhost`, no tokens. `lockdir_steal_race` shows that the first
  part cannot be dropped. Kills, empty and corrupt files and misbehaving renames
  are all included.
- `UnlockIsSafe`: `UnlockTakesOwnLock`, under the same assumption: a process that is past
  its `confirm()` still finds its nonce.

Exclusion is not inductive. `LockInv` adds that a process inside finds its own
nonce in `held`, that a break in progress is about a stale lock, and that between
the check of `force_break` and its rename the checked lock stays in place: only
its owner, who is dead, or another breaker could remove it. Types and `LockInv`
together are inductive (`IndInv`), with one lemma per group of actions.

Also in `LockDirProofs`, with any number of careless breakers and stealers, tokens, kills
and buggy renames:

- `NoncesStayApart`: `NoncesApart`, so that a nonce names one lock. `NonceInv` adds
  that the pending directory of a locker is there until it renames it
  (`HasPending`), that no nonce is seen before it is drawn (`AllDrawn`), and that
  what has been a lock is not pending (`Taken`).
- `GoneForGood`: `StaleTokensAreRefused`, from the same invariant: "held" changes to
  another lock only by the rename of a pending directory, and no token that was handed
  on is in one.
- `NoPendingStays`: `NoPendingLeftBehind`, unless a kill may leave an unreadable
  info file (`TornKinds`): then `LockCorrupt` escapes from the failed attempt past
  the removal of its directory.
- `OneLockAtATime`: `SharedByToken` for `TokenSpec`, where nobody breaks locks
  (`NoBreaks`). Whoever is inside has the nonce of the lock in place, and so have all
  others (`UnbrokenInv`). That an unlock is the last one of its token is an assumption
  here, `SoleReleaser`, as the code leaves it to the callers; that no one else gets a
  lock beside the bearers is what is proved. It covers what `parts` checks as
  `TokensAreShared`.

`PackProofs`, for any processes, revisions, number of packs, and whoever packs,
suspends or is killed:

- `PackTypes`: `PSpec => []PackTypeOK`, identical pack files included.
- `PackFilesExist`, `SavesLoseNothing`, `RetriesNeverFail`, `ObsoleteIsReplaced`,
  `ViewsGrow`: the five properties of `pack_save`, assuming `~SameBytes`, that is,
  two processes never produce packs with the same hash, and `Faulty = {}`, that is,
  `obsolete_packs/` can always be listed (`pack_forgets` shows why). `RetriesNeverFail`
  is about those reads that are answered by a reload; `pack_unretried` is about one that
  is not.

None of them is inductive. `PackInv` adds what makes the three-way merge of
`_diff_pack_names` safe. The packs in memory and not at load (`Pend`) are on disk,
unpublished and known to nobody else, so no other process can make them obsolete.
The packs at load and no longer in memory (`Gone`) have all their revisions in
`Pend`, so a merge that removes them adds what replaces them (`MergeKeeps`). Packs
in `upload/` are known to the one process that resumed them. The merge is still
the merge of the names on disk when it is written, because the lock is held from
the read to the write. A pack whose files are missing is therefore neither pending
nor on disk, so a reload drops it (`MissingIsNews`). `SafeInv` is `PackInv` and the
three state properties together; `LocalStep` covers the actions that leave the disk
alone, the others have a lemma each.

`TreeProofs`, for any processes, objects, changes and limits: `DirStateTypes`,
`MemoryStaysCurrent`, `ReadsStayWhole`, `FileStaysSound`, `NoUpdateIsLost`,
`WritersAlwaysSave`, as long as no process has the tree open twice (`Apart`, part
of the properties; `trees` finds lost updates without it). `DInv` adds to the types
what the kernel guarantees (`Kernel`), that a working object has the kernel lock its
token stands for (`Tokens`), that memory loaded under a lock has all the file has,
and that what is being written has all the file had (`Current`), and that half a
file is being written, or was when its writer died (`Sound`).

Also in `TreeProofs`, for any contents, times and lags:

- `EntryStaysRight`: `EntryIsRight`, however long anything takes, if a commit never
  observes a hash before the dirstate has its cutoff.
- `HashStaysRight`: `HashIsRight`, if reading a file and the lag of its time stamps
  together fit in the window.

The invariants `CacheInv` and `HashInv` say that what is remembered, or about to be,
is older than the window, so that the ctime of any later change differs from it.

`Induction` has `LeastNat`, `StrongInduction` and `NatSetInduction`, with sets in the
place of predicates: to show P(n) for all n, a proof defines the set of the n with
P(n). They follow from the library's fact that finite subsets are well-founded. A
definition such as `AncestorsIn` chooses a function that satisfies an equation;
`RecursionExists` and lemmas like it (`SolutionExists`, `AcceptedExists`) show by
induction that there is one, which gives the equation, and from it the properties of
the recursive function follow by induction again.

`AutopackProofs`, for any sizes of pushes and any number of revisions:

- `PacksStayFew`: `PackCountBounded`, so that the number of packs with revisions
  is bounded by the digit sum of the number of revisions.
- `PlanNeverRunsOut`: while packs are left to place, the distribution has a
  position for them, so planning never raises `IndexError`.
- `PlanInvariant`: both follow from `PlanInv`. Between commits there are few enough
  packs, sorted (`Resting`, `Shape`). Of a plan in the making it says that the packs
  kept are larger than those to come (`InOrder`), that no pack or revision is lost
  (`NoneDropped`), that what is left of the distribution has room for the revisions
  to come (`RoomForAll`), and that the packs kept, with one for each position left,
  are no more than allowed (`FewEnough`). Lemmas about sums of sequences, sorted
  insertion and decimal digits come first.

`BranchProofs`, for any branches, working trees, calls, errors and kills:

- `AlwaysPresent`: `TipsArePresent`. `AlwaysMasterFirst`: `MasterFirst`.
  `TipsAlwaysAdvance`: `TipsAdvance`.
- `BranchInvariant`: these follow from `BranchInv`. Its `CallOK` lists for each kind of
  call what may be left to do and what its checks and its locks still guarantee
  then: that the tip of a commit's branch is the parent of its revision, that an
  uncommit finds the tip it read. `CallPresent` says that the branch has what the
  call may yet make a parent of the tree, `ReferencesInMaster` that nobody refers
  to a shared revision that the master lacks, except the commit that is about to
  set the master's tip to it.
- `LocalWorkStays`: `LocalWorkKeptApart`. `WorkInv` says for each kind of call how
  far branch and tree have come (`Phase`), and what of the past they still hold and
  will hold at its end (`Keeps`): the past of the branch and of the tree's pending
  merges, the recorded revision, the old tip that an update has pivoted out. Every
  step of a user keeps what was kept, but for what an uncommit or an overwrite was
  told to drop (`Own`), and leaves what others keep alone (`OthersKeep`); that no
  two trees share a branch is used only there (`OthersTips`), and `update_loses`
  shows that it is needed. `AcceptedParentsKeep` is what makes it work for the
  trees: leaving out parents that are ancestors of others loses nothing of the past.

Also in `BranchProofs`, for any processes, options and values: `ConfTypes`, and
`OthersAreKept`: a save changes only options that its process has set or removed,
unless the file of a user was written since it was read again. By `ConfInv`, a
process that is about to write has in memory what the file has, but for its own
changes (`Reread`), because it has the branch locked (`Exclusive`) or nobody has
written the file meanwhile.

Also in `BranchProofs`, for any number of clients, calls and resets and any server:
`SmartTypes`; `LocksAreKept`; `RequestsRepeatedSafely`. `TokensOK` says that a
client gives up its token before it asks for the unlock, so that no request on the
wire can unlock what a client believes to hold. `OnceOK` says that a request which
must not be repeated is on the wire at most once, that its call has not been
carried out then (`Alone`), and that it is written again only when neither it nor
its effect can be anywhere (`Nothing`).

`GraphProofs`, for any finite set of keys, graphs read in one go, grown, or
both, with cycles and ghosts: `HeadsStayRight` and `SortsAreRight`. `GraphInv` says
that a loop reaches a node when the last of its parents has been met (`Waiting`),
that distances grow from parents to children except where `add_node` has still to
move them, or there is a cycle (`Distances`), what `topo_sort` has listed
(`Listing`), and what the search for heads may leave out (`Searching`): an ancestor
no further from an origin than all candidates leads to none of them. A loop that
ends early leaves nodes that wait for one another: these are the cycle (`Cyclic`:
some keys have a parent among themselves each), for the keys are finite.

Also in `GraphProofs`, for any finite graph, with cycles and ghosts: `NumbersRight`,
which is `RevnosAreRight`. `MergeInv` is about the search first, then about
the numbers:

- Every revision is unvisited, on the stack or completed (`Placed`). The stack is a
  path from the tip, and each parent of a revision on it is completed, still to be
  looked at, or next on the stack (`Path`). So what leaves the stack has its parents
  listed (`Ordered`), a parent that is met on the stack closes a cycle (`CycleFound`),
  and a list in order has none (`OrderHasNoCycle`, by the least position in it).
- Depth 0 has the left-hand line of the tip, as far as the search has come
  (`Mainline`); the number a revision of that line gets goes on from its parent's.
- Of the children of one revision at most one continues its line, and whichever else
  has been numbered began a line of its own (`Continued`). This is settled when a
  child is pushed, long before it is numbered, and is what makes numbers unique:
  a last number above 1 is the next after the left-hand parent's, the others are
  within the count of their branch (`Numbered`). `AfterInjective` is the step from one
  to the other: two numbers followed by the same number are the same.
- Unless a ghost ends the mainline, it alone has single numbers (`Single`): the first
  revision to be completed is the one at its far end, so that it gets number 1, and
  nothing off the mainline continues a revision of it (`SidesStayAside`).

`TransformProofs`, for any tree, any changes, any resolution of their conflicts and
any renames that fail:

- `TransformDeletesLate`: `NothingDeletedEarly`. `TransformRestores`:
  `RollbackRestores`. `TransformApplies`: `AppliedAsPlanned`.
- `TransformInvariant`: these follow from `TransformInv`. `TransformOK` says what no
  change and no resolution does, among it that a directory is never replaced by
  another one and that an entry is only removed if it is replaced or unversioned.
  `LimboApart` says where new contents are in limbo, no two at one place, and that
  only what is inside a new directory is elsewhere than at a name of its own. `Clean`
  is what `find_conflicts` guarantees when it finds nothing: parents that are
  directories and versioned, paths and file ids of one entry each, no loops
  (`NoLoops`, `NoDuplicates`: that neighbours in a sorted list differ is enough).
  `RemoveOK` and `InsertOK` say where everything is between two renames: as it was,
  pending deletion, in limbo, or where it will be. `JournalOK` says that the first
  rename of each thing, which is undone last, came from its place in the tree.
- The proofs of `RemoveKeeps` and `InsertKeeps` show that no rename meets anything at
  the place it goes to (`RemoveTo`, `InsertFrom`), and that paths lead to what they
  name while it is moved (`WalkFinds`): removals leave an entry's parents in place
  until it has gone (`DeepestIs`), insertions put them there first (`HighestIs`). An
  invariant has to say of an entry that is neither moved nor replaced that its
  directory is not replaced either (`UnmovedPlaced`); this is where it is needed that
  a directory is not replaced by a directory.
- `NewInventoryTells`: the delta is made of the altered entries only, yet gives the
  inventory of the whole tree. An entry that is not altered is in the old inventory
  under its own file id (`AlteredFacts`), and what the delta does not remove is
  versioned in the end (`KeptFile`).

The walks up and down a tree are recursive functions over 0 .. the number of entries;
`ChainStops`, that a growing chain of sets of entries stops within that number, shows
that this is enough (`AboveFacts`, `WalkFinds`).

Only model-checked: liveness (fairness is beyond the prover); `NothingLost` for
identical pack files; `ChkMap`, whose methods are `RECURSIVE` operators, in whose
presence the prover has no arithmetic; and `ResolutionSucceeds` of `Transform`, that nine
passes and a tenth look are enough: a resolution may make new conflicts, and why
there are ever fewer of them no invariant of single states says.

## Not modelled

The models follow the code where its correctness is a matter of order, failure or
concurrency, and their `map` covers a few percent of its lines. The rest is of
three kinds. *Formats*: weaves, knits, groupcompress, indices, serialisers,
bundles, the message encodings of the smart protocol; what they do is a matter of
bytes, and tests with examples say more about them than a small model. *User
interface*: commands, options, help, logging, translations, colours; one command
calls a few of the operations modelled here. *Pure algorithms over large data*:
diff, merge of texts, inventories and deltas, the searchers of `graph.py`; some of
these are in the plan. Of the modelled components the following is left out: pids that are reused,
the win32 locks, tags and
stacking, the contents of commits, and what is named in the descriptions above.

## Running

    tlc -config lockdir_mutex.cfg MCLockDir        # and the other lockdir_*
    tlc -config pack_save.cfg MCPackCollection     # and the other pack_*
    tlc -config trees.cfg MCTrees
    tlc -config parts.cfg MCParts                  # and update_loses
    tlc -config contents.cfg MCContents            # and chk_loses
    tlapm LockDirProofs.tla                        # and the other *Proofs.tla
