---------------------------- MODULE ConfigStore ----------------------------
(***************************************************************************)
(* Changing options of one configuration file from several processes:      *)
(* MutableSection, IniFileStore and its subclasses of bzrlib/config.py.    *)
(* Every process has one store object for the file.  Options are set in    *)
(* its memory only; save_changes reads the file again, applies to what it  *)
(* finds the options this process changed, and writes the whole file.      *)
(* The file of a branch (BranchStore) is written under the branch lock,    *)
(* which is taken before options are set.  The files of the user           *)
(* (LockableIniFileStore) have a lock of their own, taken by save only.    *)
(* An option is a name in a section.  LockDir models the lock itself.      *)
(***************************************************************************)
EXTENDS Naturals

CONSTANTS
  Users,    \* processes
  Options,
  Values,
  Unset,    \* an option that is not there
  Nobody    \* holds a free lock

ASSUME ConfigAssumption == Unset \notin Values /\ Nobody \notin Users

VARIABLES
  guarded,   \* the file is a branch's
  conf,      \* the file
  confLock,  \* the holder of the branch's or the file's lock
  isLoaded,  \* isLoaded[u]: u's store has read the file
  options,   \* options[u]: the contents of u's store
  changed,   \* changed[u]: the options with an entry in `orig`
  saving,    \* saving[u]: where u is in save_changes
  overtaken  \* overtaken[u]: the file was written since u read it again (history)

confvars == <<guarded, conf, confLock, isLoaded, options, changed, saving, overtaken>>

Content == [Options -> Values \cup {Unset}]

ConfInit ==
  /\ guarded \in BOOLEAN
  /\ conf = [o \in Options |-> Unset] /\ confLock = Nobody
  /\ isLoaded = [u \in Users |-> FALSE]
  /\ options = [u \in Users |-> [o \in Options |-> Unset]]
  /\ changed = [u \in Users |-> {}]
  /\ saving = [u \in Users |-> "no"]
  /\ overtaken = [u \in Users |-> FALSE]

\* u may change options: of a branch only with the branch locked.
MayChange(u) == saving[u] = "no" /\ (guarded => confLock = u)

\* load: what a store that is not loaded finds in the file.
Loaded(u) == IF isLoaded[u] THEN options[u] ELSE conf

-----------------------------------------------------------------------------
(* Operations *)

\* Stack.get by a process that does not know the file.
Load(u) ==
  /\ saving[u] = "no" /\ ~isLoaded[u]
  /\ isLoaded' = [isLoaded EXCEPT ![u] = TRUE]
  /\ options' = [options EXCEPT ![u] = conf]
  /\ UNCHANGED <<guarded, conf, confLock, changed, saving, overtaken>>

\* BzrBranch.lock_write.  What the store has in memory is not read again.
LockBranch(u) ==
  /\ guarded /\ confLock = Nobody
  /\ confLock' = u
  /\ UNCHANGED <<guarded, conf, isLoaded, options, changed, saving, overtaken>>

\* Stack.set, and Stack.remove of an option that is there.
Change(u, o, v) ==
  /\ MayChange(u)
  /\ v = Unset => Loaded(u)[o] # Unset
  /\ isLoaded' = [isLoaded EXCEPT ![u] = TRUE]
  /\ options' = [options EXCEPT ![u] = [Loaded(u) EXCEPT ![o] = v]]
  /\ changed' = [changed EXCEPT ![u] = @ \cup {o}]
  /\ UNCHANGED <<guarded, conf, confLock, saving, overtaken>>

\* save_changes: the file is read, and the changes are applied to what it has now.
MutReapplied(u) == options[u]
Reapplied(u) == [o \in Options |-> IF o \in changed[u] THEN options[u][o] ELSE conf[o]]
ApplyChanges(u) ==
  /\ MayChange(u) /\ changed[u] # {}
  /\ options' = [options EXCEPT ![u] = Reapplied(u)]
  /\ saving' = [saving EXCEPT ![u] = "applied"]
  /\ overtaken' = [overtaken EXCEPT ![u] = FALSE]
  /\ UNCHANGED <<guarded, conf, confLock, isLoaded, changed>>

\* LockableIniFileStore.save takes the lock only now ...
LockFile(u) ==
  /\ ~guarded /\ saving[u] = "applied" /\ confLock = Nobody
  /\ confLock' = u
  /\ UNCHANGED <<guarded, conf, isLoaded, options, changed, saving, overtaken>>

\* ... or does not get it: the error leaves the changes in memory, forgotten.
LockContended(u) ==
  /\ ~guarded /\ saving[u] = "applied" /\ confLock \notin {Nobody, u}
  /\ saving' = [saving EXCEPT ![u] = "no"]
  /\ changed' = [changed EXCEPT ![u] = {}]
  /\ UNCHANGED <<guarded, conf, confLock, isLoaded, options, overtaken>>

\* The file is replaced; a lock of its own is given up, the branch lock is not.
Save(u) ==
  /\ saving[u] = "applied" /\ confLock = u
  /\ conf' = options[u]
  /\ confLock' = IF guarded THEN u ELSE Nobody
  /\ saving' = [saving EXCEPT ![u] = "no"]
  /\ changed' = [changed EXCEPT ![u] = {}]
  /\ overtaken' = [w \in Users |-> w # u]
  /\ UNCHANGED <<guarded, isLoaded, options>>

\* BzrBranch.unlock, after it has saved the changes.
UnlockBranch(u) ==
  /\ guarded /\ confLock = u /\ saving[u] = "no" /\ changed[u] = {}
  /\ confLock' = Nobody
  /\ UNCHANGED <<guarded, conf, isLoaded, options, changed, saving, overtaken>>

\* The process ends or is killed, and another one starts.  Nothing more is saved.
Restart(u) ==
  /\ confLock # u
  /\ isLoaded' = [isLoaded EXCEPT ![u] = FALSE]
  /\ options' = [options EXCEPT ![u] = [o \in Options |-> Unset]]
  /\ changed' = [changed EXCEPT ![u] = {}]
  /\ saving' = [saving EXCEPT ![u] = "no"]
  /\ UNCHANGED <<guarded, conf, confLock, overtaken>>

ConfStep(u) ==
  \/ Load(u) \/ LockBranch(u) \/ ApplyChanges(u) \/ LockFile(u) \/ LockContended(u)
  \/ Save(u) \/ UnlockBranch(u) \/ Restart(u)
  \/ \E o \in Options, v \in Values \cup {Unset} : Change(u, o, v)

ConfNext == \E u \in Users : ConfStep(u)

ConfSpec == ConfInit /\ [][ConfNext]_confvars

-----------------------------------------------------------------------------
(* Properties *)

(* Type correctness of the whole state. *)
ConfTypeOK ==
  /\ guarded \in BOOLEAN /\ conf \in Content
  /\ confLock \in Users \cup {Nobody}
  /\ isLoaded \in [Users -> BOOLEAN] /\ options \in [Users -> Content]
  /\ changed \in [Users -> SUBSET Options]
  /\ saving \in [Users -> {"no", "applied"}] /\ overtaken \in [Users -> BOOLEAN]

(* A process that loaded the file long ago does not undo what others have     *)
(* saved since: save_changes changes, of the file as it then is, the options  *)
(* that this process has set or removed and no others.  Only the user's own   *)
(* files are at risk, and only if another process saves after save_changes    *)
(* has read the file and before save has the lock.                            *)
OthersOptionsKept ==
  [][\A o \in Options : conf'[o] # conf[o] =>
       \E u \in Users : /\ saving[u] = "applied" /\ saving'[u] = "no"
                        /\ o \in changed[u] \/ (~guarded /\ overtaken[u])]_confvars
=============================================================================
