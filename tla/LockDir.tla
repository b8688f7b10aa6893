------------------------------ MODULE LockDir ------------------------------
(***************************************************************************)
(* The on-disk mutex of bzrlib/lockdir.py.  A lock is the directory "held" *)
(* with an info file inside; it is taken by renaming a prepared pending    *)
(* directory into place and given up by renaming "held" away.  Every       *)
(* action below is one transport operation that another process can see,   *)
(* with the local computation up to the next one; operations on a          *)
(* directory whose random name only its creator knows are merged with      *)
(* their neighbours.  The processes are LockDir objects, one per process,  *)
(* called the way LockableFiles and CountedLock call them: lock only when  *)
(* not locked, unlock only when locked (mode below is their _lock_mode).   *)
(***************************************************************************)
EXTENDS Naturals

CONSTANTS
  Procs,        \* the processes (one LockDir object each)
  Machine,      \* Machine[p]: the machine, and the user on it, that p runs as
  HostName,     \* HostName[p]: the host name and user recorded in p's locks
  LocalHost,    \* the ambiguous host name "localhost"
  Stealers,     \* processes configured with locks.steal_dead
  Users,        \* processes that may run break-lock
  CarefulUsers, \* users approve breaking a lock only when its holder is dead
  Mortals,      \* processes that may be killed
  TornKinds,    \* what a kill may leave of the info file: "empty", "corrupt"
  UseTokens,    \* lock tokens are handed from one LockDir object to another
  BuggyRename,  \* the transport may move the pending directory inside "held"
  MaxTries      \* bound: pending directories one process creates

ASSUME ProcsAssumption ==
  /\ Stealers \subseteq Procs /\ Users \subseteq Procs /\ Mortals \subseteq Procs
  /\ TornKinds \subseteq {"empty", "corrupt"}
  /\ {CarefulUsers, UseTokens, BuggyRename} \subseteq BOOLEAN
  /\ MaxTries \in Nat
  /\ {"free", "lost"} \cap Procs = {}

VARIABLES
  lockdir,  \* does the directory that contains the lock exist?
  held,     \* the info file of "held", kind "none" when there is no such directory
  junk,     \* nonces of pending directories moved inside "held"
  tmp,      \* the other directories: pending, releasing and broken ones
  pc,       \* what each process is about to do
  op,       \* the LockDir call in progress, or the last one
  result,   \* how the last call ended: "ok" or the exception
  seen,     \* the LockHeldInfo a break in progress is about
  tries,    \* number of nonces each process has drawn
  nonce,    \* LockDir.nonce
  lockHeld, \* LockDir._lock_held
  viaToken, \* LockDir._locked_via_token
  mode,     \* the caller's _lock_mode; "r" also stands for _fake_read_lock
  issued    \* the tokens that lock_write has returned so far

disk == <<lockdir, held, junk, tmp>>
flow == <<pc, op, result, seen>>
object == <<tries, nonce, lockHeld, viaToken, mode, issued>>
vars == <<lockdir, held, junk, tmp, pc, op, result, seen,
          tries, nonce, lockHeld, viaToken, mode, issued>>

(***************************************************************************)
(* A nonce is the pair of its process and a serial number: rand_chars(20)  *)
(* never repeats, and the info file also names the process that wrote it.  *)
(***************************************************************************)
Nonces == Procs \X Nat
NoNonce == <<>>
Info == [kind : {"ok"}, nonce : Nonces] \cup
        [kind : {"none", "empty", "corrupt"}, nonce : {NoNonce}]
NoInfo == [kind |-> "none", nonce |-> NoNonce]
InfoOf(n) == [kind |-> "ok", nonce |-> n]
TornInfo(k) == [kind |-> k, nonce |-> NoNonce]
Dirs == [kind : {"pending", "releasing", "broken", "trash"}, by : Procs, info : Info,
         junk : SUBSET Nonces]
Pending(p, n) == [kind |-> "pending", by |-> p, info |-> InfoOf(n), junk |-> {}]
PendingDir(p) == Pending(p, nonce[p])

\* osutils.is_local_pid_dead: no process of this machine has q's pid.
PidDead(p, q) == pc[q] = "dead" \/ Machine[q] # Machine[p]

MutKnownDead(p, info) ==
  /\ info.kind = "ok"
  /\ HostName[info.nonce[1]] = HostName[p]
  /\ PidDead(p, info.nonce[1])

\* is_lock_holder_known_dead: the pid tells something only if the recorded host
\* name and user are our own, and the host name is not the ambiguous one.
KnownDead(p, info) ==
  /\ info.kind = "ok"
  /\ HostName[info.nonce[1]] = HostName[p]
  /\ HostName[p] # LocalHost
  /\ PidDead(p, info.nonce[1])

\* The holder is dead, or was killed while the info file was being written.
StaleLock(info) ==
  \/ info.kind \in {"empty", "corrupt"}
  \/ info.kind = "ok" /\ pc[info.nonce[1]] = "dead"

\* peek() finds this object's own nonce in "held".
Own(p) == held.kind = "ok" /\ held.nonce = nonce[p]

Init ==
  /\ lockdir \in BOOLEAN
  /\ held = NoInfo /\ junk = {} /\ tmp = {}
  /\ pc = [p \in Procs |-> "idle"]
  /\ op = [p \in Procs |-> "none"]
  /\ result = [p \in Procs |-> "ok"]
  /\ seen = [p \in Procs |-> NoInfo]
  /\ tries = [p \in Procs |-> 0]
  /\ nonce = [p \in Procs |-> NoNonce]
  /\ lockHeld = [p \in Procs |-> FALSE]
  /\ viaToken = [p \in Procs |-> FALSE]
  /\ mode = [p \in Procs |-> "none"]
  /\ issued = {}

-----------------------------------------------------------------------------
(* Control flow of one call. *)

Begin(p, call, next) ==
  /\ pc[p] = "idle"
  /\ pc' = [pc EXCEPT ![p] = next]
  /\ op' = [op EXCEPT ![p] = call]
  /\ result' = [result EXCEPT ![p] = "none"]

At(p, label) == pc[p] = label

Goto(p, next) == pc' = [pc EXCEPT ![p] = next] /\ UNCHANGED <<op, result>>

Finish(p, r) ==
  /\ pc' = [pc EXCEPT ![p] = "idle"]
  /\ result' = [result EXCEPT ![p] = r]
  /\ seen' = [seen EXCEPT ![p] = NoInfo]
  /\ UNCHANGED op

-----------------------------------------------------------------------------
(* lock_write() without a token: wait_lock, attempt_lock, _attempt_lock. *)

LockWrite(p) ==
  /\ mode[p] = "none" /\ tries[p] < MaxTries
  /\ Begin(p, "lock_write", "mkdir")
  /\ UNCHANGED <<disk, seen, object>>

\* LockHeldInfo.for_this_process draws a new nonce for every attempt.
MutFreshNonce(p) == <<p, 1>>
FreshNonce(p) == <<p, tries[p] + 1>>

\* _create_pending_dir: a new nonce, mkdir and the info file in one private step.
CreatePendingDir(p) ==
  /\ At(p, "mkdir")
  /\ \/ /\ lockdir
        /\ tries' = [tries EXCEPT ![p] = @ + 1]
        /\ nonce' = [nonce EXCEPT ![p] = FreshNonce(p)]
        /\ tmp' = tmp \cup {Pending(p, FreshNonce(p))}
        /\ Goto(p, "rename")
        /\ UNCHANGED <<lockdir, held, junk, seen, lockHeld, viaToken, mode, issued>>
     \/ /\ ~lockdir
        /\ Goto(p, "create")
        /\ UNCHANGED <<disk, seen, object>>

\* create(): mkdir of the missing lock directory, LockFailed if it is there now.
Create(p) ==
  /\ At(p, "create")
  /\ \/ /\ ~lockdir
        /\ lockdir' = TRUE
        /\ Goto(p, "mkdir")
        /\ UNCHANGED <<held, junk, tmp, seen, object>>
     \/ /\ lockdir
        /\ Finish(p, "LockFailed")
        /\ UNCHANGED <<disk, object>>

MutHeldFree == TRUE
HeldFree == held.kind = "none"

\* transport.rename(tmpname, held): exactly one of the contenders gets it.
RenameIntoPlace(p) ==
  /\ At(p, "rename")
  /\ \/ /\ HeldFree
        /\ held' = InfoOf(nonce[p])
        /\ tmp' = tmp \ {PendingDir(p)}
        /\ Goto(p, "verify")
        /\ UNCHANGED <<lockdir, junk, seen, object>>
     \/ /\ ~HeldFree
        /\ Goto(p, "contend")
        /\ UNCHANGED <<disk, seen, object>>
     \/ /\ ~HeldFree /\ BuggyRename
        /\ junk' = junk \cup {nonce[p]}
        /\ tmp' = tmp \ {PendingDir(p)}
        /\ Goto(p, "verify")
        /\ UNCHANGED <<lockdir, held, seen, object>>

\* The peek after a failed rename.  LockCorrupt escapes before the handler that
\* removes the pending directory.
Contend(p) ==
  /\ At(p, "contend")
  /\ \/ /\ held.kind = "corrupt"
        /\ Finish(p, "LockCorrupt")
        /\ UNCHANGED <<disk, object>>
     \/ /\ held.kind # "corrupt"
        /\ seen' = [seen EXCEPT ![p] = held]
        /\ Goto(p, "decide")
        /\ UNCHANGED <<disk, object>>

\* _remove_pending_dir
MutRemovePendingDir(p) == tmp' = tmp
RemovePendingDir(p) == tmp' = tmp \ {PendingDir(p)}

\* _handle_lock_contention: steal from a dead holder, or raise LockContention.
MutDecide(p) ==
  /\ At(p, "decide")
  /\ Goto(p, IF KnownDead(p, seen[p]) THEN "rename" ELSE "wait")
  /\ seen' = [seen EXCEPT ![p] = NoInfo]
  /\ IF KnownDead(p, seen[p]) THEN UNCHANGED tmp ELSE RemovePendingDir(p)
  /\ UNCHANGED <<lockdir, held, junk, object>>
Decide(p) ==
  /\ At(p, "decide")
  /\ \/ /\ p \in Stealers /\ KnownDead(p, seen[p])
        /\ Goto(p, "fb_peek")
        /\ UNCHANGED <<disk, seen, object>>
     \/ /\ ~(p \in Stealers /\ KnownDead(p, seen[p]))
        /\ RemovePendingDir(p)
        /\ seen' = [seen EXCEPT ![p] = NoInfo]
        /\ Goto(p, "wait")
        /\ UNCHANGED <<lockdir, held, junk, object>>

\* After the rename: read the info back to check that the lock is really ours.
Verify(p) ==
  /\ At(p, "verify")
  /\ \/ /\ Own(p)
        /\ lockHeld' = [lockHeld EXCEPT ![p] = TRUE]
        /\ mode' = [mode EXCEPT ![p] = "w"]
        /\ issued' = issued \cup {nonce[p]}
        /\ Finish(p, "ok")
        /\ UNCHANGED <<disk, tries, nonce, viaToken>>
     \/ /\ held.kind = "none"
        /\ Finish(p, "LockFailed")
        /\ UNCHANGED <<disk, object>>
     \/ /\ held.kind = "corrupt"
        /\ Finish(p, "LockCorrupt")
        /\ UNCHANGED <<disk, object>>
     \/ /\ held.kind \in {"ok", "empty"} /\ ~Own(p)
        /\ Goto(p, "wait")
        /\ UNCHANGED <<disk, seen, object>>

\* wait_lock after LockContention: peek to report the holder, then poll again
\* or give up at the deadline.
WaitLock(p) ==
  /\ At(p, "wait")
  /\ \/ /\ held.kind # "corrupt" /\ tries[p] < MaxTries
        /\ Goto(p, "mkdir")
        /\ UNCHANGED <<disk, seen, object>>
     \/ /\ held.kind # "corrupt"
        /\ Finish(p, "LockContention")
        /\ UNCHANGED <<disk, object>>
     \/ /\ held.kind = "corrupt"
        /\ Finish(p, "LockCorrupt")
        /\ UNCHANGED <<disk, object>>

-----------------------------------------------------------------------------
(* force_break, from a steal ("lock_write") or from break_lock. *)

\* An exception leaves force_break with these directories on disk: a locker
\* removes its pending directory before it re-raises.
BreakRaises(p, r, dirs) ==
  /\ tmp' = IF op[p] = "lock_write" THEN dirs \ {PendingDir(p)} ELSE dirs
  /\ Finish(p, r)

\* force_break returns: a locker tries the rename again; break_lock uses the
\* LockResult, which is None when the lock turned out to be released already.
BreakReturns(p, r) ==
  \/ op[p] = "lock_write" /\ Goto(p, "rename") /\ seen' = [seen EXCEPT ![p] = NoInfo]
  \/ op[p] = "break_lock" /\ Finish(p, r)

MutSameHolder(p) == held.kind # "none"
SameHolder(p) == held = seen[p]

ForceBreakPeek(p) ==
  /\ At(p, "fb_peek")
  /\ UNCHANGED <<lockdir, held, junk, object>>
  /\ \/ lockHeld[p] /\ BreakRaises(p, "AssertionError", tmp)
     \/ ~lockHeld[p] /\ held.kind = "none" /\ BreakReturns(p, "AttributeError") /\ UNCHANGED tmp
     \/ ~lockHeld[p] /\ held.kind = "corrupt" /\ BreakRaises(p, "LockCorrupt", tmp)
     \/ /\ ~lockHeld[p] /\ held.kind \in {"ok", "empty"} /\ ~SameHolder(p)
        /\ BreakRaises(p, "LockBreakMismatch", tmp)
     \/ /\ ~lockHeld[p] /\ held.kind \in {"ok", "empty"} /\ SameHolder(p)
        /\ Goto(p, "fb_rename")
        /\ UNCHANGED <<tmp, seen>>

\* transport.rename(held, a new name): whatever is in "held" now goes.
MutRenameAway(p, kind) ==
  /\ tmp' = tmp \cup {[kind |-> kind, by |-> p, info |-> held, junk |-> junk]}
  /\ UNCHANGED <<held, junk>>
RenameAway(p, kind) ==
  /\ tmp' = tmp \cup {[kind |-> kind, by |-> p, info |-> held, junk |-> junk]}
  /\ held' = NoInfo
  /\ junk' = {}

BreakRename(p, from, to) ==
  /\ At(p, from)
  /\ UNCHANGED <<lockdir, object>>
  /\ \/ held.kind = "none" /\ BreakRaises(p, "NoSuchFile", tmp) /\ UNCHANGED <<held, junk>>
     \/ held.kind # "none" /\ RenameAway(p, "broken") /\ Goto(p, to) /\ UNCHANGED seen

\* The directory d that p has just moved away is left behind for good.
Abandon(d) == (tmp \ {d}) \cup {[d EXCEPT !.kind = "trash"]}

\* Compare the info of the directory just moved with what the break is about;
\* delete the directory only if it is the right one.  rmdir fails on the junk
\* a buggy rename left inside.
CheckBroken(p, d) ==
  \/ d.info # seen[p] /\ BreakRaises(p, "LockBreakMismatch", Abandon(d))
  \/ /\ d.info = seen[p] /\ d.junk # {}
     /\ BreakRaises(p, "DirectoryNotEmpty", Abandon(d))
  \/ d.info = seen[p] /\ d.junk = {} /\ tmp' = tmp \ {d} /\ BreakReturns(p, "ok")

Moved(p, kind) == {d \in tmp : d.kind = kind /\ d.by = p}

ForceBreakRename(p) == BreakRename(p, "fb_rename", "fb_check")

ForceBreakCheck(p) ==
  /\ At(p, "fb_check")
  /\ UNCHANGED <<lockdir, held, junk, object>>
  /\ \E d \in Moved(p, "broken") :
       \/ d.info.kind = "corrupt" /\ BreakRaises(p, "LockCorrupt", Abandon(d))
       \/ d.info.kind # "corrupt" /\ CheckBroken(p, d)

ForceBreakCorruptRename(p) == BreakRename(p, "fbc_rename", "fbc_check")

ForceBreakCorruptCheck(p) ==
  /\ At(p, "fbc_check")
  /\ UNCHANGED <<lockdir, held, junk, object>>
  /\ \E d \in Moved(p, "broken") : CheckBroken(p, d)

-----------------------------------------------------------------------------
(* break_lock: peek, ask the user, force_break or force_break_corrupt. *)

BreakLock(p) ==
  /\ p \in Users /\ mode[p] = "none"
  /\ UNCHANGED <<disk, object>>
  /\ \/ ~lockHeld[p] /\ held.kind # "none" /\ Begin(p, "break_lock", "ask")
        /\ seen' = [seen EXCEPT ![p] = held]
     \/ lockHeld[p] /\ At(p, "idle") /\ UNCHANGED <<pc, seen>>
        /\ op' = [op EXCEPT ![p] = "break_lock"]
        /\ result' = [result EXCEPT ![p] = "AssertionError"]

\* The user's answer; a careful user says yes only for a dead holder.
Ask(p) ==
  /\ At(p, "ask")
  /\ UNCHANGED <<disk, object>>
  /\ \/ Finish(p, "declined")
     \/ /\ CarefulUsers => StaleLock(seen[p])
        /\ Goto(p, IF seen[p].kind = "corrupt" THEN "fbc_rename" ELSE "fb_peek")
        /\ UNCHANGED seen

-----------------------------------------------------------------------------
(* unlock *)

\* The caller gives the lock up whatever unlock does.
CallerUnlocked(p, r) ==
  /\ mode' = [mode EXCEPT ![p] = "none"]
  /\ Finish(p, r)

Unlock(p) ==
  /\ mode[p] = "w" /\ ~viaToken[p]
  /\ Begin(p, "unlock", "confirm")
  /\ UNCHANGED <<disk, seen, object>>

\* A lock taken by token, or left in place: only this object forgets it.
UnlockLeavingInPlace(p) ==
  /\ mode[p] = "w" /\ viaToken[p] /\ At(p, "idle")
  /\ viaToken' = [viaToken EXCEPT ![p] = FALSE]
  /\ lockHeld' = [lockHeld EXCEPT ![p] = FALSE]
  /\ mode' = [mode EXCEPT ![p] = "none"]
  /\ op' = [op EXCEPT ![p] = "unlock"] /\ result' = [result EXCEPT ![p] = "ok"]
  /\ UNCHANGED <<disk, pc, seen, tries, nonce, issued>>

\* confirm(): "gotta own it to unlock".  only_raises lets LockBroken through and
\* swallows LockCorrupt; both leave _lock_held set.
Confirm(p) ==
  /\ At(p, "confirm")
  /\ UNCHANGED <<disk, tries, nonce, lockHeld, viaToken, issued>>
  /\ \/ Own(p) /\ Goto(p, "rel_rename") /\ UNCHANGED <<seen, mode>>
     \/ ~Own(p) /\ held.kind # "corrupt" /\ CallerUnlocked(p, "LockBroken")
     \/ held.kind = "corrupt" /\ CallerUnlocked(p, "suppressed")

ReleaseRename(p) ==
  /\ At(p, "rel_rename")
  /\ UNCHANGED <<lockdir, tries, nonce, viaToken, issued>>
  /\ \/ /\ held.kind = "none" /\ CallerUnlocked(p, "suppressed")
        /\ UNCHANGED <<held, junk, tmp, lockHeld>>
     \/ /\ held.kind # "none" /\ RenameAway(p, "releasing")
        /\ lockHeld' = [lockHeld EXCEPT ![p] = FALSE]
        /\ Goto(p, "rel_delete") /\ UNCHANGED <<seen, mode>>

\* Delete the info file, then rmdir, or delete_tree when there is junk inside.
ReleaseDelete(p) ==
  /\ At(p, "rel_delete")
  /\ tmp' = tmp \ Moved(p, "releasing")
  /\ CallerUnlocked(p, "ok")
  /\ UNCHANGED <<lockdir, held, junk, tries, nonce, lockHeld, viaToken, issued>>

-----------------------------------------------------------------------------
(* Read locks are pretended: nothing on disk changes. *)

LockRead(p) ==
  /\ mode[p] = "none" /\ At(p, "idle")
  /\ op' = [op EXCEPT ![p] = "lock_read"]
  /\ \/ /\ ~lockHeld[p]
        /\ mode' = [mode EXCEPT ![p] = "r"] /\ result' = [result EXCEPT ![p] = "ok"]
     \/ /\ lockHeld[p]
        /\ result' = [result EXCEPT ![p] = "LockContention"] /\ UNCHANGED mode
  /\ UNCHANGED <<disk, pc, seen, tries, nonce, lockHeld, viaToken, issued>>

UnlockRead(p) ==
  /\ mode[p] = "r" /\ At(p, "idle")
  /\ mode' = [mode EXCEPT ![p] = "none"]
  /\ op' = [op EXCEPT ![p] = "unlock"] /\ result' = [result EXCEPT ![p] = "ok"]
  /\ UNCHANGED <<disk, pc, seen, tries, nonce, lockHeld, viaToken, issued>>

-----------------------------------------------------------------------------
(* Tokens.  lock_write returns the nonce of the lock as a token; any object  *)
(* that is given it has the lock too, whether or not the others still do.    *)

LeaveInPlace(p) ==
  /\ UseTokens /\ mode[p] = "w" /\ At(p, "idle") /\ ~viaToken[p]
  /\ viaToken' = [viaToken EXCEPT ![p] = TRUE]
  /\ UNCHANGED <<disk, flow, tries, nonce, lockHeld, mode, issued>>

DontLeaveInPlace(p) ==
  /\ UseTokens /\ mode[p] = "w" /\ At(p, "idle") /\ viaToken[p]
  /\ viaToken' = [viaToken EXCEPT ![p] = FALSE]
  /\ UNCHANGED <<disk, flow, tries, nonce, lockHeld, mode, issued>>

\* lock_write(token): validate_token peeks once, then the object adopts the lock.
\* The token is any that was ever returned, that of a lock long gone included.
LockWithToken(p, t) ==
  /\ UseTokens /\ mode[p] = "none" /\ At(p, "idle") /\ t \in issued
  /\ op' = [op EXCEPT ![p] = "lock_token"]
  /\ UNCHANGED <<disk, pc, seen, tries, issued>>
  /\ \/ /\ held.kind = "ok" /\ held.nonce = t
        /\ nonce' = [nonce EXCEPT ![p] = t]
        /\ lockHeld' = [lockHeld EXCEPT ![p] = TRUE]
        /\ viaToken' = [viaToken EXCEPT ![p] = TRUE]
        /\ mode' = [mode EXCEPT ![p] = "w"]
        /\ result' = [result EXCEPT ![p] = "ok"]
     \/ /\ held.kind = "corrupt" /\ result' = [result EXCEPT ![p] = "LockCorrupt"]
        /\ UNCHANGED <<nonce, lockHeld, viaToken, mode>>
     \/ /\ held.kind # "corrupt" /\ ~(held.kind = "ok" /\ held.nonce = t)
        /\ result' = [result EXCEPT ![p] = "TokenMismatch"]
        /\ UNCHANGED <<nonce, lockHeld, viaToken, mode>>

-----------------------------------------------------------------------------
(* A process is killed.  If its lock is in place, the info file may be torn. *)

Kill(p) ==
  /\ p \in Mortals /\ pc[p] # "dead"
  /\ pc' = [pc EXCEPT ![p] = "dead"]
  /\ \/ UNCHANGED held
     \/ \E k \in TornKinds : held.kind = "ok" /\ held.nonce[1] = p /\ held' = TornInfo(k)
  /\ UNCHANGED <<lockdir, junk, tmp, op, result, seen, object>>

\* A step of a call that has begun.
Step(p) ==
  \/ CreatePendingDir(p) \/ Create(p) \/ RenameIntoPlace(p) \/ Contend(p)
  \/ Decide(p) \/ Verify(p) \/ WaitLock(p)
  \/ ForceBreakPeek(p) \/ ForceBreakRename(p) \/ ForceBreakCheck(p)
  \/ ForceBreakCorruptRename(p) \/ ForceBreakCorruptCheck(p)
  \/ Ask(p) \/ Confirm(p) \/ ReleaseRename(p) \/ ReleaseDelete(p)

\* The start of a call.
Call(p) ==
  \/ LockWrite(p) \/ BreakLock(p) \/ Unlock(p) \/ UnlockLeavingInPlace(p)
  \/ LockRead(p) \/ UnlockRead(p) \/ LeaveInPlace(p) \/ DontLeaveInPlace(p)
  \/ \E t \in issued : LockWithToken(p, t)

Next == \E p \in Procs : Step(p) \/ Call(p) \/ Kill(p)

Spec == Init /\ [][Next]_vars

\* A call that has begun runs to its end, unless the process is killed.
Fairness == \A p \in Procs : WF_vars(Step(p))

FairSpec == Spec /\ Fairness

-----------------------------------------------------------------------------
(* What the lock promises to its users *)

Owner ==
  CASE held.kind = "none" -> "free"
    [] held.kind = "ok" -> held.nonce[1]
    [] OTHER -> "lost"

\* The processes whose lock_write has returned and whose unlock has not given
\* the lock up yet: they write, or believe they may.
Inside == {p \in Procs : mode[p] = "w" /\ pc[p] \in {"idle", "confirm", "rel_rename"}}

Lock == INSTANCE Mutex WITH Free <- "free", Lost <- "lost", lock <- Owner,
                            inside <- Inside, alive <- {p \in Procs : pc[p] # "dead"}

(* With one careful breaker the protocol on disk implements the abstract     *)
(* lock: one taker at a time, the taker is the one who releases, and a lock  *)
(* is broken only when its taker is dead.                                    *)
ImplementsMutex == Lock!MSpec

-----------------------------------------------------------------------------
(* Properties *)

Labels ==
  {"idle", "dead", "mkdir", "create", "rename", "contend", "decide", "verify", "wait",
   "fb_peek", "fb_rename", "fb_check", "fbc_rename", "fbc_check", "ask",
   "confirm", "rel_rename", "rel_delete"}
Ops == {"none", "lock_write", "break_lock", "unlock", "lock_read", "lock_token"}
Results ==
  {"none", "ok", "declined", "suppressed", "LockFailed", "LockCorrupt", "LockContention",
   "LockBroken", "LockBreakMismatch", "NoSuchFile", "DirectoryNotEmpty",
   "AssertionError", "AttributeError", "TokenMismatch"}

(* Type correctness of the whole state. *)
TypeOK ==
  /\ lockdir \in BOOLEAN /\ held \in Info
  /\ junk \in SUBSET Nonces /\ tmp \in SUBSET Dirs
  /\ pc \in [Procs -> Labels] /\ op \in [Procs -> Ops] /\ result \in [Procs -> Results]
  /\ seen \in [Procs -> Info] /\ tries \in [Procs -> Nat]
  /\ nonce \in [Procs -> Nonces \cup {NoNonce}]
  /\ lockHeld \in [Procs -> BOOLEAN] /\ viaToken \in [Procs -> BOOLEAN]
  /\ mode \in [Procs -> {"none", "r", "w"}] /\ issued \in SUBSET Nonces

(* At no time do two processes both have the write lock: what lock_write,    *)
(* the info file check and the two checks of force_break are there for.      *)
MutualExclusion == \A p, q \in Inside : p = q

(* The lock of a process that is inside stays on disk, untouched, until that *)
(* process itself renames it away in unlock or is killed: no break, no steal *)
(* and no other locker's rename takes it.                                    *)
HoldersKeepLock ==
  [][\A p \in Inside : held' # held => pc[p] = "rel_rename" \/ pc'[p] = "dead"]_vars

Attempting == {"rename", "contend", "decide", "fb_peek", "fb_rename", "fb_check"}

(* A lock attempt that ends, in whatever way, leaves no pending directory    *)
(* behind; only one cut short by a kill does.                                *)
NoPendingLeftBehind ==
  \A d \in tmp : d.kind = "pending" => pc[d.by] \in Attempting \cup {"dead"}

(* A directory is moved aside by at most one process at a time, and a nonce  *)
(* names one lock: no two directories carry the same nonce, however renames  *)
(* by lockers, breakers and buggy servers interleave.                        *)
NoncesApart ==
  /\ \A d, e \in tmp : d.info.kind = "ok" /\ e.info = d.info => d = e
  /\ \A d \in tmp : d.info.kind = "ok" => d.info # held /\ d.info.nonce \notin junk
  /\ \A d, e \in tmp : d.info.kind = "ok" => d.info.nonce \notin e.junk

(* What the comment at confirm() in unlock asks for, "gotta own it to        *)
(* unlock": the lock that unlock renames away is the one this object took or *)
(* was given, whatever other processes do between confirm() and the rename.  *)
UnlockTakesOwnLock ==
  [][\A p \in Procs : pc[p] = "rel_rename" /\ pc'[p] = "rel_delete" => Own(p)]_vars

(* A lock that is gone, unlocked or broken, never comes back, so that its    *)
(* token, which is all that validate_token compares, is refused from then    *)
(* on: no bearer of an old token is let in beside the holder of a new lock.  *)
StaleTokensAreRefused ==
  [][\A t \in issued : held # InfoOf(t) => held' # InfoOf(t)]_vars

\* The callers' part in tokens: an unlock that takes the lock off the disk is
\* called when no other object bears its token.  The smart server does this in
\* the request to unlock, RemoteBranch after the branch it wraps has unlocked,
\* and the requests of one client come one after the other.
SoleReleaser ==
  \A p, q \in Procs :
    pc[p] \in {"confirm", "rel_rename"} /\ q \in Inside /\ q # p => nonce[q] # nonce[p]

TokenSpec == Init /\ [][Next /\ SoleReleaser']_vars

(* If callers do their part, there is one lock at a time: all objects that   *)
(* have it at once, the one that took it and those that were given its       *)
(* token, bear the same token; no one else gets a lock beside them.          *)
SharedByToken == \A p, q \in Inside : nonce[p] = nonce[q]

\* What the theorems assume of a deployment, and the passing runs about mutual
\* exclusion give to TLC: one process may break locks, it breaks only the locks
\* of the dead, no two machines share a host name, and tokens are not used.
SingleBreaker ==
  /\ \A p, q \in Stealers \cup Users : p = q
  /\ CarefulUsers /\ ~UseTokens
  /\ \A p, q \in Procs :
       HostName[p] = HostName[q] => HostName[p] = LocalHost \/ Machine[p] = Machine[q]

Breaking == {"fb_peek", "fb_rename", "fb_check"}

\* A process that has the lock, or may rename its pending directory into place,
\* has a nonce.
HasNonce ==
  \A p \in Procs :
    \/ pc[p] \in {"rename", "contend", "decide", "verify"}
    \/ pc[p] \in Breaking \cup {"ask", "fbc_rename", "fbc_check"} /\ op[p] = "lock_write"
    \/ mode[p] = "w"
    => nonce[p] \in Nonces

\* Whoever is inside has its own info file in place; unlock is on its way out.
HolderOK(p) ==
  /\ nonce[p] # NoNonce => nonce[p][1] = p
  /\ pc[p] \in {"confirm", "rel_rename"} => mode[p] = "w"
  /\ pc[p] \notin {"idle", "confirm", "rel_rename", "rel_delete", "dead"} => mode[p] # "w"
  /\ p \in Inside => held = InfoOf(nonce[p])

\* A break is about a stale lock, and what its first check has found in place
\* is still there when it renames.
BreakOK(p) ==
  /\ pc[p] \in Breaking => p \in Stealers \cup Users
  /\ pc[p] \in {"ask", "fbc_rename"} => p \in Users
  /\ pc[p] \in {"fb_peek", "fb_rename"} => StaleLock(seen[p])
  /\ pc[p] = "fb_rename" => held = seen[p]
  /\ pc[p] = "ask" /\ seen[p].kind = "corrupt" => held.kind = "corrupt"
  /\ pc[p] = "fbc_rename" => held.kind = "corrupt"

(* The inductive invariant behind mutual exclusion: a holder's info file is  *)
(* the one in "held", and a break in progress is about a lock that is stale  *)
(* and, once checked, still in place.                                        *)
LockInv == HasNonce /\ \A p \in Procs : HolderOK(p) /\ BreakOK(p)

(* Every call ends: wait_lock at its deadline, a break after its two checks. *)
CallsEnd == \A p \in Procs : pc[p] \notin {"idle", "dead"} ~> pc[p] \in {"idle", "dead"}

(* locks.steal_dead lets a locker past the lock of a dead process: a stealer *)
(* that meets it at its rename goes through peek, decision and both checks,  *)
(* and that lock is gone in the end.  Not so for an object whose unlock has  *)
(* raised LockBroken before: _lock_held is still set, force_break takes the  *)
(* dead lock for the object's own and raises.                                *)
DeadLockIsStolen ==
  \A p \in Stealers :
    (At(p, "rename") /\ ~lockHeld[p] /\ KnownDead(p, held)) ~> ~KnownDead(p, held)
=============================================================================
