--------------------------- MODULE PackCollection ---------------------------
(***************************************************************************)
(* A pack repository as several processes use it at once: the write groups *)
(* and the RepositoryPackCollection of bzrlib/repofmt/pack_repo.py.  Many  *)
(* processes may have the repository write-locked; what they serialise is  *)
(* only the rewriting of the pack-names file, under the lock of Mutex.     *)
(* A pack stands for its data file and its indices, which are created      *)
(* before anybody can name them and moved away together.  What is in a     *)
(* pack is the set of its revisions.                                       *)
(***************************************************************************)
EXTENDS Mutex, Naturals, FiniteSets

CONSTANTS
  Revs,      \* the revisions that may be added
  Tags,      \* the ways in which one set of revisions may be packed
  MaxPacks,  \* bound: packs that are ever made
  SameBytes, \* may two processes come up with the very same pack file?
  Packers,   \* processes that run pack()
  Suspenders,\* processes that suspend and resume write groups (smart server)
  Mortals,   \* processes that may be killed
  Faulty     \* processes that may fail to list obsolete_packs/

ASSUME PackAssumption ==
  /\ SameBytes \in BOOLEAN
  /\ Packers \subseteq Procs /\ Suspenders \subseteq Procs
  /\ Mortals \subseteq Procs /\ Faulty \subseteq Procs

VARIABLES
  names,     \* the packs listed in the file pack-names
  packs,     \* the packs in packs/ and indices/
  obsolete,  \* the packs in obsolete_packs/
  upload,    \* suspended packs in upload/, not resumed by anybody
  pc,        \* what each process is about to do
  op,        \* the operation it is in: "commit" or "pack"
  failed,    \* the processes whose reload after NoSuchFile changed nothing
  mem,       \* RepositoryPackCollection._names
  atLoad,    \* RepositoryPackCollection._packs_at_load
  new,       \* the revisions in _new_pack
  resumed,   \* _resumed_packs
  plan,      \* the packs to combine, and then to make obsolete
  todo,      \* the packs still to be read
  merged,    \* disk_nodes of the _save_pack_names in progress
  clear,     \* its clear_obsolete_packs argument
  made,      \* history: every pack ever finished
  published  \* history: every revision that pack-names ever gave access to

disk == <<names, packs, obsolete, upload>>
flow == <<pc, op, failed>>
memory == <<mem, atLoad>>
group == <<new, resumed>>
work == <<plan, todo, merged, clear>>
history == <<made, published>>
vars == <<lock, inside, alive, names, packs, obsolete, upload, pc, op, failed, mem, atLoad,
          new, resumed, plan, todo, merged, clear, made, published>>

\* The name of a pack is the hash of its bytes: its revisions and the way they
\* are packed.
PackNames == [revs : SUBSET Revs, tag : Tags]
RevsOf(S) == UNION {x.revs : x \in S}

\* The names a pack of the revisions R may get.  Unless SameBytes, packing the
\* same revisions again gives other bytes and hence a name not seen before.
NewNames(R) ==
  {x \in {[revs |-> R, tag |-> t] : t \in Tags} : SameBytes \/ x \notin made}
NewName(R) == CHOOSE x \in NewNames(R) : TRUE

PInit ==
  /\ MInit
  /\ names = {} /\ packs = {} /\ obsolete = {} /\ upload = {}
  /\ pc = [p \in Procs |-> "unlocked"]
  /\ op = [p \in Procs |-> "none"]
  /\ failed = {}
  /\ mem = [p \in Procs |-> {}] /\ atLoad = [p \in Procs |-> {}]
  /\ new = [p \in Procs |-> {}] /\ resumed = [p \in Procs |-> {}]
  /\ plan = [p \in Procs |-> {}] /\ todo = [p \in Procs |-> {}]
  /\ merged = [p \in Procs |-> {}] /\ clear = [p \in Procs |-> FALSE]
  /\ made = {} /\ published = {}

At(p, label) == pc[p] = label
Goto(p, next) == pc' = [pc EXCEPT ![p] = next]
Set(f, p, v) == [f EXCEPT ![p] = v]

\* The bound leaves room for k more packs besides those being made.
Room(k) == Cardinality(made) + Cardinality({q \in Procs : pc[q] \in {"plan", "replan", "copy"}}) + k
             <= MaxPacks

\* The operation p is in returns or raises, and its local variables are gone.
Return(p) ==
  /\ pc' = Set(pc, p, "locked") /\ op' = Set(op, p, "none")
  /\ plan' = Set(plan, p, {}) /\ todo' = Set(todo, p, {})
  /\ merged' = Set(merged, p, {}) /\ clear' = Set(clear, p, FALSE)

\* The packing, or the saving of the names, is complete: pack() may still clear
\* obsolete_packs/.
Complete(p) ==
  \/ op[p] = "commit" /\ Return(p)
  \/ op[p] = "pack" /\ Goto(p, "clean") /\ UNCHANGED <<op, plan, todo, merged, clear>>

-----------------------------------------------------------------------------
(* Reading the names *)

\* _diff_pack_names: what should be on disk, by a three-way merge of the names
\* on disk, in memory and at load.
MutDiskNodes(p) == mem[p]
MutKeepDeleted(p) == names \cup mem[p]
MutForgetNew(p) == names \ (atLoad[p] \ mem[p])
DiskNodes(p) == (names \ (atLoad[p] \ mem[p])) \cup (mem[p] \ atLoad[p])

\* reload_pack_names; it reports whether the names in memory have changed.
ReloadPackNames(p) ==
  /\ mem' = Set(mem, p, DiskNodes(p))
  /\ atLoad' = Set(atLoad, p, names)
ReloadChanges(p) == DiskNodes(p) # mem[p]

\* lock_write or lock_read, and the load or reload of the names in _refresh_data.
Lock(p) ==
  /\ At(p, "unlocked") /\ Goto(p, "locked")
  /\ ReloadPackNames(p)
  /\ UNCHANGED <<mvars, disk, op, failed, group, work, history>>

Unlock(p) ==
  /\ At(p, "locked") /\ Goto(p, "unlocked")
  /\ UNCHANGED <<mvars, disk, op, failed, memory, group, work, history>>

\* A file of a pack is gone: reload the names and start over; without any change
\* the pack is really missing, and the original error is raised.
MutRestart(p, label) ==
  /\ Goto(p, label)
  /\ UNCHANGED <<memory, op, failed, work>>
Restart(p, label) ==
  /\ ReloadPackNames(p) /\ ReloadChanges(p)
  /\ Goto(p, label)
  /\ UNCHANGED <<op, failed, work>>
Raise(p) ==
  /\ ReloadPackNames(p) /\ ~ReloadChanges(p)
  /\ Return(p) /\ failed' = failed \cup {p}
ReloadOrRaise(p, label) == Restart(p, label) \/ Raise(p)

\* A file of a pack is gone, and it is read where nothing reloads: the operation
\* ends with NoSuchFile.
Unretried(p) == Return(p) /\ UNCHANGED <<memory, failed>>

\* A lookup finds a key in the index of pack x.
ReadIndex(p) ==
  /\ At(p, "locked")
  /\ \E x \in mem[p] :
       \/ /\ x \in packs
          /\ Goto(p, "reading") /\ todo' = Set(todo, p, {x})
          /\ UNCHANGED <<memory, op, failed, plan, merged, clear>>
       \/ x \notin packs /\ ReloadOrRaise(p, "locked")
  /\ UNCHANGED <<mvars, disk, group, history>>

\* _DirectPackAccess.get_raw_records and reload_or_raise: read the data; if other
\* lookups have reloaded the names since and dropped the pack, that is no error.
ReadData(p) ==
  /\ At(p, "reading")
  /\ \E x \in todo[p] :
       \/ x \in mem[p] /\ x \in packs /\ Return(p) /\ UNCHANGED <<memory, failed>>
       \/ x \in mem[p] /\ x \notin packs /\ ReloadOrRaise(p, "locked")
       \/ x \notin mem[p] /\ ReloadPackNames(p) /\ Return(p) /\ UNCHANGED failed
  /\ UNCHANGED <<mvars, disk, group, history>>

\* Another lookup of the same process, before the data is read, misses an index.
ReadOtherIndex(p) ==
  /\ At(p, "reading") /\ ~(mem[p] \subseteq packs)
  /\ ReloadOrRaise(p, "reading")
  /\ UNCHANGED <<mvars, disk, group, history>>

-----------------------------------------------------------------------------
(* Write groups *)

StartWriteGroup(p) ==
  /\ At(p, "locked") /\ Goto(p, "group")
  /\ UNCHANGED <<mvars, disk, op, failed, memory, group, work, history>>

\* A revision is inserted that this process does not know to be there.
Insert(p) ==
  /\ At(p, "group")
  /\ \E r \in Revs \ (RevsOf(mem[p] \cup resumed[p]) \cup new[p]) :
       new' = Set(new, p, new[p] \cup {r})
  /\ UNCHANGED <<mvars, disk, flow, memory, resumed, work, history>>

\* _abort_write_group: _new_pack and the resumed packs are deleted from upload/.
AbortWriteGroup(p) ==
  /\ At(p, "group") /\ Goto(p, "locked")
  /\ new' = Set(new, p, {}) /\ resumed' = Set(resumed, p, {})
  /\ UNCHANGED <<mvars, disk, op, failed, memory, work, history>>

\* _suspend_write_group: the new pack is finished in upload/.
SuspendWriteGroup(p) ==
  /\ p \in Suspenders /\ At(p, "group") /\ Goto(p, "locked")
  /\ \/ /\ new[p] = {}
        /\ upload' = upload \cup resumed[p]
        /\ UNCHANGED made
     \/ /\ new[p] # {} /\ Room(1) /\ NewNames(new[p]) # {}
        /\ upload' = upload \cup resumed[p] \cup {NewName(new[p])}
        /\ made' = made \cup {NewName(new[p])}
  /\ new' = Set(new, p, {}) /\ resumed' = Set(resumed, p, {})
  /\ UNCHANGED <<mvars, names, packs, obsolete, op, failed, memory, work, published>>

\* _resume_write_group: one client comes back with its tokens.
ResumeWriteGroup(p) ==
  /\ p \in Suspenders /\ At(p, "locked") /\ Goto(p, "group")
  /\ \E T \in SUBSET upload :
       /\ T # {}
       /\ upload' = upload \ T
       /\ resumed' = Set(resumed, p, T)
  /\ UNCHANGED <<mvars, names, packs, obsolete, op, failed, memory, new, work, history>>

\* _commit_write_group up to autopack: the packs are moved into place and
\* allocated, in memory only.
MutCommitWriteGroup(p) ==
  /\ At(p, "group") /\ new[p] = {} /\ resumed[p] # {} /\ Room(1)
  /\ mem' = Set(mem, p, mem[p] \cup resumed[p])
  /\ Goto(p, "plan") /\ op' = Set(op, p, "commit")
  /\ new' = Set(new, p, {}) /\ resumed' = Set(resumed, p, {})
  /\ UNCHANGED <<mvars, disk, failed, atLoad, work, history>>
CommitWriteGroup(p) ==
  /\ At(p, "group")
  /\ \/ /\ new[p] = {} /\ resumed[p] = {}
        /\ Goto(p, "locked")
        /\ UNCHANGED <<packs, op, mem, made>>
     \/ /\ new[p] = {} /\ resumed[p] # {} /\ Room(1)
        /\ packs' = packs \cup resumed[p]
        /\ mem' = Set(mem, p, mem[p] \cup resumed[p])
        /\ Goto(p, "plan") /\ op' = Set(op, p, "commit")
        /\ UNCHANGED made
     \/ /\ new[p] # {} /\ Room(2) /\ NewNames(new[p]) # {}
        /\ packs' = packs \cup resumed[p] \cup {NewName(new[p])}
        /\ mem' = Set(mem, p, mem[p] \cup resumed[p] \cup {NewName(new[p])})
        /\ made' = made \cup {NewName(new[p])}
        /\ Goto(p, "plan") /\ op' = Set(op, p, "commit")
  /\ new' = Set(new, p, {}) /\ resumed' = Set(resumed, p, {})
  /\ UNCHANGED <<mvars, names, obsolete, upload, failed, atLoad, work, published>>

-----------------------------------------------------------------------------
(* Packing *)

Pack(p) ==
  /\ p \in Packers /\ At(p, "locked") /\ Room(1) /\ Goto(p, "plan")
  /\ op' = Set(op, p, "pack")
  /\ UNCHANGED <<mvars, disk, failed, memory, group, work, history>>

\* _do_autopack has nothing to do: save the names with the new packs.
NoAutopack(p) ==
  /\ At(p, "plan") /\ op[p] = "commit" /\ Goto(p, "lock_names")
  /\ plan' = Set(plan, p, {}) /\ clear' = Set(clear, p, FALSE)
  /\ UNCHANGED <<mvars, disk, op, failed, memory, group, todo, merged, history>>

\* key_count() of the combined index misses the index of a pack.  It is called
\* before each try of an autopack, but only before the first one of pack().
CountRevisions(p) ==
  /\ At(p, "plan") /\ ~(mem[p] \subseteq packs)
  /\ ReloadOrRaise(p, "plan")
  /\ UNCHANGED <<mvars, disk, group, history>>

\* A later try of pack() counts the revisions of packs it has just loaded.
CountAgain(p) ==
  /\ At(p, "replan") /\ ~(mem[p] \subseteq packs)
  /\ Unretried(p)
  /\ UNCHANGED <<mvars, disk, group, history>>

\* plan_autopack_combinations, or the hint of pack(), chooses the packs to
\* combine; an autopack never moves exactly one.
PlanPacking(p) ==
  /\ At(p, "plan") \/ At(p, "replan")
  /\ \E S \in SUBSET mem[p] :
       /\ op[p] = "commit" => Cardinality(S) # 1
       /\ plan' = Set(plan, p, S) /\ todo' = Set(todo, p, S)
       /\ Goto(p, IF S = {} THEN "lock_names" ELSE "copy")
  /\ clear' = Set(clear, p, TRUE)
  /\ UNCHANGED <<mvars, disk, op, failed, memory, group, merged, history>>

\* Packer.pack reads one of its packs.  Where the data are missing,
\* _restart_autopack and _restart_pack_operations start over with what is there
\* now; the indices are read without a reload_func.
CopyPack(p) ==
  /\ At(p, "copy")
  /\ \E x \in todo[p] :
       \/ /\ x \in packs
          /\ todo' = Set(todo, p, todo[p] \ {x})
          /\ UNCHANGED <<memory, flow, plan, merged, clear>>
       \/ x \notin packs /\ ReloadOrRaise(p, IF op[p] = "commit" THEN "plan" ELSE "replan")
       \/ x \notin packs /\ Unretried(p)
  /\ UNCHANGED <<mvars, disk, group, history>>

\* The new pack is complete: finish() moves it into packs/, allocate() and
\* _remove_pack_from_memory exchange it for the packs it replaces.
MutFinishPack(p) ==
  /\ At(p, "copy") /\ todo[p] = {}
  /\ NewNames(RevsOf(plan[p])) # {}
  /\ mem' = Set(mem, p, (mem[p] \ plan[p]) \cup {NewName(RevsOf(plan[p]))})
  /\ made' = made \cup {NewName(RevsOf(plan[p]))}
  /\ packs' = (packs \ plan[p]) \cup {NewName(RevsOf(plan[p]))}
  /\ Goto(p, "lock_names")
  /\ UNCHANGED <<mvars, names, obsolete, upload, op, failed, atLoad, group, work, published>>
FinishPack(p) ==
  /\ At(p, "copy") /\ todo[p] = {}
  /\ NewNames(RevsOf(plan[p])) # {} /\ NewName(RevsOf(plan[p])) \notin mem[p]
  /\ packs' = packs \cup {NewName(RevsOf(plan[p]))}
  /\ mem' = Set(mem, p, (mem[p] \ plan[p]) \cup {NewName(RevsOf(plan[p]))})
  /\ made' = made \cup {NewName(RevsOf(plan[p]))}
  /\ Goto(p, "lock_names")
  /\ UNCHANGED <<mvars, names, obsolete, upload, op, failed, atLoad, group, work, published>>

\* The new pack has the bytes of one this process has listed already: finish()
\* has moved it over that one, and allocate() raises.
PackExists(p) ==
  /\ At(p, "copy") /\ todo[p] = {} /\ Cardinality(plan[p]) > 1
  /\ NewNames(RevsOf(plan[p])) # {} /\ NewName(RevsOf(plan[p])) \in mem[p]
  /\ packs' = packs \cup {NewName(RevsOf(plan[p]))}
  /\ Return(p)
  /\ UNCHANGED <<mvars, names, obsolete, upload, failed, memory, group, history>>

\* pack() of a single pack that is already optimally packed changes nothing.
AlreadyPacked(p) ==
  /\ At(p, "copy") /\ todo[p] = {} /\ Cardinality(plan[p]) = 1
  /\ op[p] = "pack" /\ Goto(p, "clean")
  /\ UNCHANGED <<mvars, disk, op, failed, memory, group, work, history>>

\* The clean_obsolete_packs argument of pack().
CleanObsolete(p) ==
  /\ At(p, "clean") /\ Return(p)
  /\ \/ obsolete' = {}
     \/ UNCHANGED obsolete
  /\ UNCHANGED <<mvars, names, packs, upload, failed, memory, group, history>>

-----------------------------------------------------------------------------
(* _save_pack_names *)

LockNames(p) ==
  /\ At(p, "lock_names") /\ Take(p) /\ Goto(p, "names_taken")
  /\ UNCHANGED <<disk, op, failed, memory, group, work, history>>

\* The lock is not to be had in time: everything stays as it is in memory.
NamesContention(p) ==
  /\ At(p, "lock_names") /\ lock # Free
  /\ Return(p)
  /\ UNCHANGED <<mvars, disk, failed, memory, group, history>>

NamesLocked(p) ==
  /\ At(p, "names_taken") /\ Enter(p) /\ Goto(p, "merge")
  /\ UNCHANGED <<disk, op, failed, memory, group, work, history>>

ReadNames(p) ==
  /\ At(p, "merge") /\ Goto(p, "write")
  /\ merged' = Set(merged, p, DiskNodes(p))
  /\ UNCHANGED <<mvars, disk, op, failed, memory, group, plan, todo, clear, history>>

WriteNames(p) ==
  /\ At(p, "write") /\ Goto(p, "clear")
  /\ names' = merged[p]
  /\ atLoad' = Set(atLoad, p, merged[p])
  /\ published' = published \cup RevsOf(merged[p])
  /\ UNCHANGED <<mvars, packs, obsolete, upload, op, failed, mem, group, work, made>>

\* put_file raises and pack-names is what it was: the lock is given up, and what
\* is new or gone in memory stays so.
WriteFails(p) ==
  /\ At(p, "write") /\ Leave(p) /\ Return(p)
  /\ UNCHANGED <<disk, failed, memory, group, history>>

\* list_dir of obsolete_packs/ raises what _clear_obsolete_packs does not expect,
\* such as PermissionDenied: the names in memory are not brought in line.
ClearFails(p) ==
  /\ p \in Faulty /\ At(p, "clear") /\ clear[p] /\ Leave(p) /\ Return(p)
  /\ UNCHANGED <<disk, failed, memory, group, history>>

\* _clear_obsolete_packs keeps the packs about to become obsolete; those found
\* there already will not be moved again.
ClearObsolete(p) ==
  /\ At(p, "clear") /\ Goto(p, "unlock_names")
  /\ \/ clear[p] /\ obsolete' = obsolete \cap plan[p] /\ plan' = Set(plan, p, plan[p] \ obsolete)
     \/ ~clear[p] /\ UNCHANGED <<obsolete, plan>>
  /\ UNCHANGED <<mvars, names, packs, upload, op, failed, memory, group, todo, merged, clear,
                 history>>

\* Unlock, and bring the names in memory in line with the ones written.
UnlockNames(p) ==
  /\ At(p, "unlock_names") /\ Leave(p)
  /\ mem' = Set(mem, p, merged[p])
  /\ \/ plan[p] = {} /\ Complete(p)
     \/ plan[p] # {} /\ Goto(p, "obsolete") /\ UNCHANGED <<op, work>>
  /\ UNCHANGED <<disk, failed, atLoad, group, history>>

\* _obsolete_packs moves one pack after another; what is gone already is skipped.
ObsoletePack(p) ==
  /\ At(p, "obsolete")
  /\ \E x \in plan[p] :
       /\ packs' = packs \ {x}
       /\ obsolete' = obsolete \cup (packs \cap {x})
       /\ \/ plan[p] = {x} /\ Complete(p)
          \/ /\ plan[p] # {x} /\ plan' = Set(plan, p, plan[p] \ {x})
             /\ UNCHANGED <<pc, op, todo, merged, clear>>
  /\ UNCHANGED <<mvars, names, upload, failed, memory, group, history>>

-----------------------------------------------------------------------------
(* A kill, and the break of the names lock of a killed process. *)

Kill(p) ==
  /\ p \in Mortals /\ Die(p)
  /\ pc' = Set(pc, p, "dead") /\ op' = Set(op, p, "none")
  /\ mem' = Set(mem, p, {}) /\ atLoad' = Set(atLoad, p, {})
  /\ new' = Set(new, p, {}) /\ resumed' = Set(resumed, p, {})
  /\ upload' = upload \cup resumed[p]
  /\ plan' = Set(plan, p, {}) /\ todo' = Set(todo, p, {})
  /\ merged' = Set(merged, p, {}) /\ clear' = Set(clear, p, FALSE)
  /\ UNCHANGED <<names, packs, obsolete, failed, history>>

BreakNamesLock ==
  /\ Break
  /\ UNCHANGED <<disk, flow, memory, group, work, history>>

Step(p) ==
  \/ ReadData(p) \/ NoAutopack(p) \/ CountRevisions(p) \/ CountAgain(p)
  \/ PlanPacking(p) \/ CopyPack(p) \/ FinishPack(p)
  \/ PackExists(p) \/ AlreadyPacked(p) \/ CleanObsolete(p) \/ LockNames(p)
  \/ NamesContention(p) \/ NamesLocked(p) \/ ReadNames(p)
  \/ WriteNames(p) \/ WriteFails(p) \/ ClearObsolete(p) \/ ClearFails(p) \/ UnlockNames(p)
  \/ ObsoletePack(p)

Call(p) ==
  \/ Lock(p) \/ Unlock(p) \/ ReadIndex(p) \/ ReadOtherIndex(p) \/ StartWriteGroup(p) \/ Insert(p)
  \/ AbortWriteGroup(p) \/ SuspendWriteGroup(p) \/ ResumeWriteGroup(p) \/ CommitWriteGroup(p)
  \/ Pack(p)

PNext == BreakNamesLock \/ \E p \in Procs : Step(p) \/ Call(p) \/ Kill(p)

PSpec == PInit /\ [][PNext]_vars

-----------------------------------------------------------------------------
(* Properties *)

Labels ==
  {"unlocked", "locked", "group", "reading", "plan", "replan", "copy", "lock_names",
   "names_taken", "merge", "write", "clear", "unlock_names", "obsolete", "clean", "dead"}

(* Type correctness of the whole state. *)
PackTypeOK ==
  /\ MutexTypeOK
  /\ {names, packs, obsolete, upload, made} \subseteq SUBSET PackNames
  /\ pc \in [Procs -> Labels] /\ op \in [Procs -> {"none", "commit", "pack"}]
  /\ failed \subseteq Procs
  /\ {mem, atLoad, resumed, plan, todo, merged} \subseteq [Procs -> SUBSET PackNames]
  /\ new \in [Procs -> SUBSET Revs] /\ clear \in [Procs -> BOOLEAN]
  /\ published \subseteq Revs

(* Every pack that pack-names mentions is in packs/ (doc/developers/          *)
(* packrepo.txt), whoever packs, commits, obsoletes or is killed meanwhile.   *)
NamesHaveFiles == names \subseteq packs

(* A revision that pack-names once gave access to stays accessible through    *)
(* pack-names: the three-way merges of concurrent savers drop no data.        *)
NothingLost == published \subseteq RevsOf(names)

(* A reload after NoSuchFile is never in vain: the names have changed, and    *)
(* what was being read is read again.  So nobody who reloads is told of a     *)
(* missing file; who does not is the subject of AutopackTriesAgain.           *)
ReloadAlwaysHelps == failed = {}

(* What the docstring of RetryAutopack says: an autopack that finds a file    *)
(* missing tries again.                                                       *)
AutopackTriesAgain ==
  [][\A p \in Procs :
       pc[p] = "copy" /\ op[p] = "commit" /\ todo[p] # {} =>
         pc'[p] \in {"copy", "plan", "dead"}]_vars

(* What _obsolete_packs asks for "for correctness": its packs are moved away  *)
(* once the names on disk are without them and still give access to all that  *)
(* was in them.                                                               *)
ObsoleteAfterPublish ==
  \A p \in Procs :
    pc[p] = "obsolete" => plan[p] \cap names = {} /\ RevsOf(plan[p]) \subseteq RevsOf(names)

(* A process never loses sight of a revision: reloads, merges and packing     *)
(* change the packs it knows, not what is in them.                            *)
ViewGrows == [][\A p \in alive' : RevsOf(mem[p]) \subseteq RevsOf(mem'[p])]_vars

\* Holding the names lock before and after pack-names is rewritten.
Saving == {"lock_names", "names_taken", "merge", "write"}
Written == {"clear", "unlock_names"}

\* The packs that only p knows, and the packs on disk that p is about to remove.
Pend(p) == IF pc[p] \in Written THEN {} ELSE mem[p] \ atLoad[p]
Gone(p) == IF pc[p] \in Written THEN {} ELSE atLoad[p] \ mem[p]

LockOK(p) ==
  /\ pc[p] = "dead" <=> p \notin alive
  /\ pc[p] \in {"names_taken", "merge", "write"} \cup Written => lock = p
  /\ pc[p] \in {"merge", "write"} \cup Written => p \in inside

\* Packs in upload/ belong to one suspended write group and are not used yet.
StagedOK ==
  /\ \A p \in Procs : resumed[p] \cap upload = {}
  /\ \A p, q \in Procs : p # q => resumed[p] \cap resumed[q] = {}
  /\ upload \cap (names \cup packs) = {}
  /\ \A p \in Procs : resumed[p] \cap (names \cup packs) = {}
  /\ \A p \in Procs : upload \cap (mem[p] \cup atLoad[p] \cup plan[p]) = {}
  /\ \A p, q \in Procs : resumed[p] \cap (mem[q] \cup atLoad[q] \cup plan[q]) = {}

\* What only p knows is there, is not published and is nobody else's business.
PendingOK(p) ==
  /\ Pend(p) \subseteq packs /\ Pend(p) \cap names = {}
  /\ \A q \in Procs \ {p} : Pend(p) \cap (mem[q] \cup atLoad[q] \cup plan[q]) = {}

\* The packs being replaced, from the time they are read until they are moved.
PlanOK(p) ==
  /\ pc[p] = "copy" => plan[p] \subseteq mem[p] /\ todo[p] \subseteq plan[p]
  /\ pc[p] \in Saving =>
       /\ plan[p] \cap mem[p] = {} /\ (plan[p] \ atLoad[p]) \cap names = {}
       /\ RevsOf(plan[p]) \subseteq RevsOf(Pend(p))
  /\ pc[p] = "write" => merged[p] = DiskNodes(p)
  /\ pc[p] \in Written =>
       merged[p] = names /\ atLoad[p] = names /\ RevsOf(mem[p]) \subseteq RevsOf(names)
  /\ pc[p] \in Written \cup {"obsolete"} =>
       plan[p] \cap names = {} /\ RevsOf(plan[p]) \subseteq RevsOf(names)
  /\ pc[p] = "obsolete" => mem[p] = atLoad[p]

\* Whatever p is about to remove it replaces by packs that only it knows.
RevsOK ==
  /\ RevsOf(names) \subseteq published
  /\ \A p \in Procs : /\ RevsOf(atLoad[p]) \subseteq published
                       /\ RevsOf(Gone(p)) \subseteq RevsOf(Pend(p))

\* Names are hashes of what was made: nothing is known that was not.
MadeOK ==
  /\ names \cup packs \cup upload \subseteq made
  /\ \A p \in Procs : mem[p] \cup atLoad[p] \cup resumed[p] \cup plan[p] \subseteq made

(* The inductive invariant behind the properties above: a pack is known to    *)
(* one process until pack-names lists it, a process removes only packs whose  *)
(* content it has written elsewhere, and only the holder of the lock has a    *)
(* merge of the names in progress.                                            *)
PackInv ==
  /\ StagedOK /\ RevsOK /\ MadeOK
  /\ \A p \in Procs : LockOK(p) /\ PendingOK(p) /\ PlanOK(p)

(* Every commit, pack and read ends, however often its packs are obsoleted    *)
(* under it.                                                                  *)
OperationsEnd ==
  \A p \in Procs :
    pc[p] \in {"reading", "plan", "replan", "copy", "lock_names", "names_taken", "obsolete"}
      ~> pc[p] \in {"locked", "dead"}

PackFairness == \A p \in Procs : WF_vars(Step(p))
PackFairSpec == PSpec /\ PackFairness
=============================================================================
