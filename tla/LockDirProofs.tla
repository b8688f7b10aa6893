--------------------------- MODULE LockDirProofs ---------------------------
(***************************************************************************)
(* Theorems about LockDir, for any set of processes and any bound: type    *)
(* correctness always, and mutual exclusion, the safety of holders and of  *)
(* unlock where a single process may break locks (SingleBreaker).  What    *)
(* rests on nonces alone, at the end, needs no such assumption.            *)
(***************************************************************************)
EXTENDS LockDir, TLAPS

TypeInv == TypeOK /\ HasNonce

LEMMA NoInfoType == NoInfo \in Info
BY DEF Info, NoInfo, NoNonce

LEMMA InfoFacts ==
  /\ \A n \in Nonces : InfoOf(n) \in Info
  /\ \A k \in {"empty", "corrupt"} : TornInfo(k) \in Info
BY DEF Info, NoInfo, InfoOf, TornInfo, NoNonce

LEMMA PendingFacts ==
  \A p \in Procs, n \in Nonces : Pending(p, n) \in Dirs
BY InfoFacts DEF Pending, Dirs

\* A Boolean flag of one process changes: stated once, since the provers treat
\* Boolean-valued functions apart.
LEMMA FlagType ==
  ASSUME NEW f \in [Procs -> BOOLEAN], NEW p \in Procs, NEW b \in BOOLEAN
  PROVE  [f EXCEPT ![p] = b] \in [Procs -> BOOLEAN]
OBVIOUS

USE DEF vars, disk, flow, object

LEMMA TypeInit == Init => TypeInv
BY NoInfoType DEF Init, TypeInv, TypeOK, HasNonce, Labels, Ops, Results, Breaking, Nonces

(* Every action preserves the types; Kill and the calls first. *)
LEMMA TypeCall ==
  ASSUME TypeInv, NEW p \in Procs, Call(p)
  PROVE  TypeInv'
<1> USE DEF TypeInv, TypeOK, HasNonce, Labels, Ops, Results, Breaking, Begin, At
<1>1. CASE LockWrite(p)
  BY <1>1 DEF LockWrite
<1>2. CASE BreakLock(p)
  BY <1>2 DEF BreakLock
<1>3. CASE Unlock(p)
  BY <1>3 DEF Unlock
<1>4. CASE UnlockLeavingInPlace(p)
  BY <1>4 DEF UnlockLeavingInPlace
<1>5. CASE LockRead(p)
  BY <1>5 DEF LockRead
<1>6. CASE UnlockRead(p)
  BY <1>6 DEF UnlockRead
<1>7. CASE LeaveInPlace(p)
  BY <1>7 DEF LeaveInPlace
<1>8. CASE DontLeaveInPlace(p)
  BY <1>8 DEF DontLeaveInPlace
<1>9. CASE \E t \in issued : LockWithToken(p, t)
  <2>1. PICK t \in issued : LockWithToken(p, t)
    BY <1>9
  <2>2. lockHeld' \in [Procs -> BOOLEAN] /\ viaToken' \in [Procs -> BOOLEAN]
    BY <2>1, FlagType DEF LockWithToken
  <2>3. /\ t \in Nonces /\ issued' \in SUBSET Nonces
        /\ nonce' \in [Procs -> Nonces \cup {NoNonce}]
        /\ mode' \in [Procs -> {"none", "r", "w"}]
    BY <2>1 DEF LockWithToken
  <2>4. op' \in [Procs -> Ops] /\ result' \in [Procs -> Results]
    BY <2>1 DEF LockWithToken
  <2>5. TypeOK'
    BY <2>1, <2>2, <2>3, <2>4 DEF LockWithToken
  <2>6. HasNonce'
    BY <2>1, <2>3, ZenonT(40) DEF LockWithToken
  <2> QED BY <2>5, <2>6
<1> QED BY <1>1, <1>2, <1>3, <1>4, <1>5, <1>6, <1>7, <1>8, <1>9 DEF Call

(* The steps of a call in progress. *)
LEMMA TypeStep ==
  ASSUME TypeInv, NEW p \in Procs, Step(p)
  PROVE  TypeInv'
<1> USE NoInfoType DEF TypeInv, TypeOK, HasNonce, Labels, Ops, Results, Breaking, At, Goto, Finish
<1>0. Nonces = Procs \X Nat
  BY DEF Nonces
<1>1. CASE CreatePendingDir(p)
  <2>1. FreshNonce(p) \in Nonces
    BY <1>0 DEF FreshNonce
  <2> QED BY <1>1, <2>1, PendingFacts DEF CreatePendingDir
<1>2. CASE Create(p)
  <2>1. lockdir' \in BOOLEAN
    BY <1>2 DEF Create
  <2> QED BY <1>2, <2>1 DEF Create
<1>3. CASE RenameIntoPlace(p)
  <2>1. nonce[p] \in Nonces /\ InfoOf(nonce[p]) \in Info
    BY <1>3, InfoFacts DEF RenameIntoPlace
  <2> QED BY <1>3, <2>1 DEF RenameIntoPlace
<1>4. CASE Contend(p)
  BY <1>4 DEF Contend
<1>5. CASE Decide(p)
  BY <1>5 DEF Decide, RemovePendingDir
<1>6. CASE Verify(p)
  <2>1. lockHeld' \in [Procs -> BOOLEAN]
    BY <1>6, FlagType DEF Verify
  <2> QED BY <1>6, <2>1 DEF Verify
<1>7. CASE WaitLock(p)
  BY <1>7 DEF WaitLock
<1>8. CASE ForceBreakPeek(p)
  BY <1>8 DEF ForceBreakPeek, BreakRaises, BreakReturns
<1>9. CASE ForceBreakRename(p) \/ ForceBreakCorruptRename(p)
  <2>1. ASSUME NEW k \in {"broken", "releasing"}, RenameAway(p, k)
        PROVE  tmp' \in SUBSET Dirs /\ held' \in Info /\ junk' \in SUBSET Nonces
    BY <2>1 DEF RenameAway, Dirs
  <2> QED BY <1>9, <2>1
          DEF ForceBreakRename, ForceBreakCorruptRename, BreakRename, BreakRaises
<1>10. CASE ForceBreakCheck(p) \/ ForceBreakCorruptCheck(p)
  <2>1. ASSUME NEW d \in tmp
        PROVE  Abandon(d) \in SUBSET Dirs
    BY DEF Abandon, Dirs
  <2>2. PICK d \in tmp : CheckBroken(p, d) \/ BreakRaises(p, "LockCorrupt", Abandon(d))
    BY <1>10 DEF ForceBreakCheck, ForceBreakCorruptCheck, Moved
  <2>3. UNCHANGED <<lockdir, held, junk, object>> /\ pc[p] \in {"fb_check", "fbc_check"}
    BY <1>10 DEF ForceBreakCheck, ForceBreakCorruptCheck
  <2>4. tmp' \in SUBSET Dirs
    BY <2>1, <2>2 DEF CheckBroken, BreakRaises
  <2>5. \/ \E r \in Results : Finish(p, r)
        \/ op[p] = "lock_write" /\ Goto(p, "rename") /\ seen' = [seen EXCEPT ![p] = NoInfo]
    BY <2>2 DEF CheckBroken, BreakRaises, BreakReturns
  <2> QED BY <2>3, <2>4, <2>5
<1>11. CASE Ask(p)
  BY <1>11 DEF Ask
<1>12. CASE Confirm(p)
  BY <1>12 DEF Confirm, CallerUnlocked
<1>13. CASE ReleaseRename(p)
  <2>1. ASSUME RenameAway(p, "releasing")
        PROVE  tmp' \in SUBSET Dirs /\ held' \in Info /\ junk' \in SUBSET Nonces
    BY <2>1 DEF RenameAway, Dirs
  <2>2. lockHeld' \in [Procs -> BOOLEAN]
    BY <1>13, FlagType DEF ReleaseRename
  <2> QED BY <1>13, <2>1, <2>2 DEF ReleaseRename, CallerUnlocked
<1>14. CASE ReleaseDelete(p)
  BY <1>14 DEF ReleaseDelete, CallerUnlocked, Moved
<1> QED BY <1>1, <1>2, <1>3, <1>4, <1>5, <1>6, <1>7, <1>8, <1>9, <1>10, <1>11, <1>12,
           <1>13, <1>14 DEF Step

LEMMA TypeKill ==
  ASSUME TypeInv, NEW p \in Procs, Kill(p)
  PROVE  TypeInv'
BY InfoFacts, ProcsAssumption
   DEF TypeInv, TypeOK, HasNonce, Labels, Breaking, Kill

LEMMA TypeNext == TypeInv /\ [Next]_vars => TypeInv'
<1>1. ASSUME TypeInv, Next
      PROVE  TypeInv'
  BY <1>1, TypeCall, TypeStep, TypeKill DEF Next
<1>2. ASSUME TypeInv, UNCHANGED vars
      PROVE  TypeInv'
  BY <1>2 DEF TypeInv, TypeOK, HasNonce
<1> QED BY <1>1, <1>2

(* The state keeps its types through every interleaving, kill and break, with *)
(* tokens, careless users and buggy servers too.                              *)
THEOREM TypeCorrect == Spec => []TypeOK
<1>1. TypeInv => TypeOK
  BY DEF TypeInv
<1> QED BY <1>1, TypeInit, TypeNext, PTL DEF Spec

-----------------------------------------------------------------------------
(* Mutual exclusion with a single breaker. *)

IndInv == TypeInv /\ LockInv

LEMMA ExclusionFromInv == IndInv => MutualExclusion
<1> SUFFICES ASSUME IndInv, NEW p \in Inside, NEW q \in Inside
             PROVE  p = q
  BY DEF MutualExclusion
<1>1. p \in Procs /\ q \in Procs /\ mode[p] = "w" /\ mode[q] = "w"
  BY DEF Inside
<1>2. nonce[p] \in Nonces /\ nonce[q] \in Nonces
  BY <1>1 DEF IndInv, TypeInv, HasNonce
<1>3. nonce[p] = nonce[q]
  BY <1>1 DEF IndInv, LockInv, HolderOK, InfoOf
<1>4. nonce[p][1] = p /\ nonce[q][1] = q
  BY <1>1, <1>2 DEF IndInv, LockInv, HolderOK, Nonces, NoNonce
<1> QED BY <1>3, <1>4

LEMMA IndInit == Init => IndInv
BY TypeInit DEF Init, IndInv, LockInv, TypeInv, HolderOK, BreakOK, Inside, Breaking

\* A process that breaks a lock has seen that its holder is dead.
LEMMA KnownDeadIsStale ==
  ASSUME TypeInv, SingleBreaker, NEW p \in Procs, KnownDead(p, seen[p])
  PROVE  StaleLock(seen[p])
<1>1. seen[p].kind = "ok" /\ seen[p].nonce[1] \in Procs
  BY DEF KnownDead, TypeInv, TypeOK, Info, Nonces, NoNonce
<1> QED BY <1>1 DEF KnownDead, PidDead, StaleLock, SingleBreaker

\* While a break that passed its first check is under way, nobody is inside.
LEMMA NobodyInside ==
  ASSUME IndInv, NEW p \in Procs, pc[p] \in {"fb_rename", "fbc_rename"}
  PROVE  Inside = {} /\ held.kind # "none"
<1>1. held.kind \in {"empty", "corrupt"} \/ (held.kind = "ok" /\ pc[held.nonce[1]] = "dead")
  BY DEF IndInv, LockInv, BreakOK, StaleLock
<1>2. ASSUME NEW q \in Inside
      PROVE  FALSE
  <2>1. q \in Procs /\ mode[q] = "w" /\ pc[q] # "dead"
    BY DEF Inside
  <2>2. held = InfoOf(nonce[q]) /\ nonce[q] \in Nonces /\ nonce[q][1] = q
    BY <2>1, <1>2 DEF IndInv, TypeInv, HasNonce, LockInv, HolderOK, Nonces, NoNonce
  <2> QED BY <1>1, <2>1, <2>2 DEF InfoOf
<1> QED BY <1>1, <1>2

\* A step of p that leaves "held" alone disturbs nobody else's part of the
\* invariant.
OthersSame(p) ==
  /\ pc[p] # "dead"
  /\ \A q \in Procs \ {p} :
       pc'[q] = pc[q] /\ seen'[q] = seen[q] /\ nonce'[q] = nonce[q] /\ mode'[q] = mode[q]

LEMMA OthersKeep ==
  ASSUME IndInv, NEW p \in Procs, OthersSame(p), held' = held
  PROVE  \A q \in Procs \ {p} : HolderOK(q)' /\ BreakOK(q)'
<1> SUFFICES ASSUME NEW q \in Procs \ {p}
             PROVE  HolderOK(q)' /\ BreakOK(q)'
  OBVIOUS
<1>1. HolderOK(q)'
  BY DEF IndInv, LockInv, OthersSame, HolderOK, Inside
<1>2. StaleLock(seen[q]) => StaleLock(seen[q])'
  <2>1. seen[q].kind = "ok" => seen[q].nonce[1] \in Procs
    BY DEF IndInv, TypeInv, TypeOK, Info, Nonces, NoNonce
  <2> QED BY <2>1 DEF StaleLock, OthersSame
<1>3. BreakOK(q)'
  BY <1>2 DEF IndInv, LockInv, OthersSame, BreakOK
<1> QED BY <1>1, <1>3

(* A call that starts changes nothing on disk. *)
LEMMA SafeCall ==
  ASSUME IndInv, SingleBreaker, NEW p \in Procs, Call(p)
  PROVE  \A q \in Procs : HolderOK(q)' /\ BreakOK(q)'
<1> USE DEF IndInv, TypeInv, TypeOK, LockInv, Begin, At
<1>1. OthersSame(p) /\ held' = held
  BY DEF Call, OthersSame, LockWrite, BreakLock, Unlock, UnlockLeavingInPlace, LockRead,
         UnlockRead, LeaveInPlace, DontLeaveInPlace, LockWithToken
<1>2. HolderOK(p)'
  BY DEF Call, HolderOK, Inside, LockWrite, BreakLock, Unlock, UnlockLeavingInPlace, LockRead,
         UnlockRead, LeaveInPlace, DontLeaveInPlace, LockWithToken, SingleBreaker
<1>3. BreakOK(p)'
  BY DEF Call, BreakOK, Breaking, LockWrite, BreakLock, Unlock, UnlockLeavingInPlace, LockRead,
         UnlockRead, LeaveInPlace, DontLeaveInPlace, LockWithToken, SingleBreaker
<1> QED BY <1>1, <1>2, <1>3, OthersKeep

QuietStep(p) ==
  \/ CreatePendingDir(p) \/ Create(p) \/ Contend(p) \/ Decide(p) \/ Verify(p) \/ WaitLock(p)
  \/ ForceBreakPeek(p) \/ ForceBreakCheck(p) \/ ForceBreakCorruptCheck(p)
  \/ Ask(p) \/ Confirm(p) \/ ReleaseDelete(p)

(* The steps that do not touch "held". *)
LEMMA SafeQuietStep ==
  ASSUME IndInv, SingleBreaker, NEW p \in Procs, QuietStep(p)
  PROVE  \A q \in Procs : HolderOK(q)' /\ BreakOK(q)'
<1> USE DEF IndInv, TypeInv, TypeOK, LockInv, At, Goto, Finish
<1>1. OthersSame(p) /\ held' = held
  BY DEF QuietStep, OthersSame, CreatePendingDir, Create, Contend, Decide, Verify, WaitLock,
         ForceBreakPeek, ForceBreakCheck, ForceBreakCorruptCheck, CheckBroken, BreakRaises,
         BreakReturns, Ask, Confirm, ReleaseDelete, CallerUnlocked
<1>2. HolderOK(p)' /\ BreakOK(p)'
  <2> USE DEF HolderOK, BreakOK, Inside, Breaking
  <2>1. CASE CreatePendingDir(p)
    <3>1. FreshNonce(p)[1] = p
      BY DEF FreshNonce
    <3> QED BY <2>1, <3>1 DEF CreatePendingDir
  <2>2. CASE Create(p) \/ Contend(p) \/ WaitLock(p)
    BY <2>2 DEF Create, Contend, WaitLock
  <2>3. CASE Decide(p)
    <3>1. p \in Stealers /\ KnownDead(p, seen[p]) =>
            StaleLock(seen[p]) /\ seen[p].kind = "ok" /\ seen[p].nonce[1] \in Procs
      BY KnownDeadIsStale DEF KnownDead, Info, Nonces, NoNonce
    <3> QED BY <2>3, <3>1 DEF Decide, StaleLock
  <2>4. CASE Verify(p)
    <3>1. Own(p) => held = InfoOf(nonce[p])
      BY DEF Own, Info, InfoOf
    <3> QED BY <2>4, <3>1 DEF Verify
  <2>5. CASE ForceBreakPeek(p)
    <3>1. StaleLock(seen[p]) /\ seen[p].kind = "ok" => seen[p].nonce[1] # p
      BY <2>5 DEF StaleLock, ForceBreakPeek
    <3>2. seen[p].kind = "ok" => seen[p].nonce[1] \in Procs
      BY DEF Info, Nonces, NoNonce
    <3>3. /\ pc' \in {[pc EXCEPT ![p] = x] : x \in {"idle", "rename", "fb_rename"}}
          /\ pc'[p] = "fb_rename" => seen' = seen /\ SameHolder(p)
      BY <2>5 DEF ForceBreakPeek, BreakRaises, BreakReturns
    <3>4. pc'[p] = "fb_rename" => StaleLock(seen[p])'
      BY <2>5, <3>1, <3>2, <3>3 DEF ForceBreakPeek, StaleLock
    <3>5. HolderOK(p)'
      BY <2>5, <3>3 DEF ForceBreakPeek
    <3>6. BreakOK(p)'
      BY <2>5, <3>3, <3>4 DEF ForceBreakPeek, SameHolder
    <3> QED BY <3>5, <3>6
  <2>6. CASE ForceBreakCheck(p) \/ ForceBreakCorruptCheck(p)
    <3>1. /\ pc[p] \in {"fb_check", "fbc_check"} /\ UNCHANGED <<mode, nonce>>
          /\ \E x \in {"idle", "rename"} : pc' = [pc EXCEPT ![p] = x]
      BY <2>6 DEF ForceBreakCheck, ForceBreakCorruptCheck, CheckBroken, BreakRaises, BreakReturns
    <3> QED BY <3>1
  <2>7. CASE Ask(p)
    <3>1. CASE Finish(p, "declined")
      BY <2>7, <3>1 DEF Ask
    <3>2. CASE StaleLock(seen[p]) /\ UNCHANGED seen
      <4>1. seen[p].kind = "ok" => seen[p].nonce[1] \in Procs
        BY DEF Info, Nonces, NoNonce
      <4>2. StaleLock(seen[p])'
        BY <2>7, <3>2, <4>1 DEF Ask, StaleLock
      <4> QED BY <2>7, <3>2, <4>2 DEF Ask
    <3> QED BY <2>7, <3>1, <3>2 DEF Ask, SingleBreaker
  <2>8. CASE Confirm(p)
    BY <2>8 DEF Confirm, CallerUnlocked
  <2>9. CASE ReleaseDelete(p)
    BY <2>9 DEF ReleaseDelete, CallerUnlocked
  <2> QED BY <2>1, <2>2, <2>3, <2>4, <2>5, <2>6, <2>7, <2>8, <2>9 DEF QuietStep
<1> QED BY <1>1, <1>2, OthersKeep

\* "held" changes while nobody is inside and no other break is past its check.
LEMMA HeldChanges ==
  ASSUME IndInv, NEW p \in Procs, OthersSame(p),
         \A q \in Procs \ {p} :
           /\ q \notin Inside
           /\ pc[q] \notin {"fb_rename", "fbc_rename"}
           /\ pc[q] = "ask" => seen[q].kind # "corrupt"
  PROVE  \A q \in Procs \ {p} : HolderOK(q)' /\ BreakOK(q)'
<1> SUFFICES ASSUME NEW q \in Procs \ {p}
             PROVE  HolderOK(q)' /\ BreakOK(q)'
  OBVIOUS
<1>1. HolderOK(q)'
  BY DEF IndInv, LockInv, OthersSame, HolderOK, Inside
<1>2. StaleLock(seen[q]) => StaleLock(seen[q])'
  <2>1. seen[q].kind = "ok" => seen[q].nonce[1] \in Procs
    BY DEF IndInv, TypeInv, TypeOK, Info, Nonces, NoNonce
  <2> QED BY <2>1 DEF StaleLock, OthersSame
<1>3. BreakOK(q)'
  BY <1>2 DEF IndInv, LockInv, OthersSame, BreakOK
<1> QED BY <1>1, <1>3

(* The rename into place: it succeeds only when "held" is free, hence nobody *)
(* is inside and no break is past its check.                                 *)
LEMMA SafeRename ==
  ASSUME IndInv, SingleBreaker, NEW p \in Procs, RenameIntoPlace(p)
  PROVE  \A q \in Procs : HolderOK(q)' /\ BreakOK(q)'
<1> USE DEF IndInv, TypeInv, TypeOK, LockInv, At, Goto
<1>1. OthersSame(p)
  BY DEF RenameIntoPlace, OthersSame
<1>2. HolderOK(p)' /\ BreakOK(p)'
  BY DEF RenameIntoPlace, HolderOK, BreakOK, Inside, Breaking
<1>3. CASE HeldFree
  <2>1. \A q \in Procs : q \notin Inside /\ pc[q] \notin {"fb_rename", "fbc_rename"}
    BY <1>3, NobodyInside DEF HeldFree, HolderOK, InfoOf
  <2>2. \A q \in Procs : pc[q] = "ask" => seen[q].kind # "corrupt"
    BY <1>3 DEF HeldFree, BreakOK
  <2> QED BY <1>1, <1>2, <2>1, <2>2, HeldChanges
<1>4. CASE ~HeldFree
  BY <1>1, <1>2, <1>4, OthersKeep DEF RenameIntoPlace
<1> QED BY <1>3, <1>4

(* The rename of a break: its lock is stale, so nobody is inside, and there  *)
(* is no second breaker.                                                     *)
LEMMA SafeBreak ==
  ASSUME IndInv, SingleBreaker, NEW p \in Procs,
         ForceBreakRename(p) \/ ForceBreakCorruptRename(p)
  PROVE  \A q \in Procs : HolderOK(q)' /\ BreakOK(q)'
<1> USE DEF IndInv, TypeInv, TypeOK, LockInv, At, Goto, Finish
<1>1. pc[p] \in {"fb_rename", "fbc_rename"} /\ p \in Stealers \cup Users
  BY DEF ForceBreakRename, ForceBreakCorruptRename, BreakRename, BreakOK, Breaking
<1>2. Inside = {} /\ held.kind # "none"
  BY <1>1, NobodyInside
<1>3. /\ UNCHANGED <<mode, nonce, seen>>
      /\ \E x \in {"fb_check", "fbc_check"} : pc' = [pc EXCEPT ![p] = x]
  BY <1>2 DEF ForceBreakRename, ForceBreakCorruptRename, BreakRename
<1>4. OthersSame(p)
  BY <1>1, <1>3 DEF OthersSame
<1>5. \A q \in Procs \ {p} : pc[q] \notin {"fb_rename", "fbc_rename", "ask"}
  BY <1>1 DEF BreakOK, Breaking, SingleBreaker
<1>6. \A q \in Procs \ {p} : HolderOK(q)' /\ BreakOK(q)'
  BY <1>2, <1>4, <1>5, HeldChanges
<1>7. HolderOK(p)' /\ BreakOK(p)'
  BY <1>1, <1>3 DEF HolderOK, BreakOK, Inside, Breaking
<1> QED BY <1>6, <1>7

(* The rename of unlock: the lock is the caller's own. *)
LEMMA SafeRelease ==
  ASSUME IndInv, SingleBreaker, NEW p \in Procs, ReleaseRename(p)
  PROVE  \A q \in Procs : HolderOK(q)' /\ BreakOK(q)'
<1> USE DEF IndInv, TypeInv, TypeOK, LockInv, At, Goto
<1>1. p \in Inside /\ pc[p] = "rel_rename"
  BY DEF ReleaseRename, HolderOK, Inside
<1>2. held = InfoOf(nonce[p]) /\ held.kind = "ok"
  BY <1>1 DEF HolderOK, InfoOf
<1>3. /\ pc' = [pc EXCEPT ![p] = "rel_delete"] /\ UNCHANGED <<mode, nonce, seen>>
  BY <1>2 DEF ReleaseRename
<1>4. \A q \in Procs \ {p} : q \notin Inside
  BY <1>1, ExclusionFromInv DEF MutualExclusion
<1>5. \A q \in Procs \ {p} : pc[q] \notin {"fb_rename", "fbc_rename"}
  BY <1>1, NobodyInside
<1>6. \A q \in Procs \ {p} : pc[q] = "ask" => seen[q].kind # "corrupt"
  BY <1>2 DEF BreakOK
<1>7. \A q \in Procs \ {p} : HolderOK(q)' /\ BreakOK(q)'
  BY <1>1, <1>3, <1>4, <1>5, <1>6, HeldChanges DEF OthersSame
<1>8. HolderOK(p)' /\ BreakOK(p)'
  BY <1>1, <1>3 DEF HolderOK, BreakOK, Inside, Breaking
<1> QED BY <1>7, <1>8

(* A nonce, a process and a number, is not the missing one. *)
LEMMA NoncesAreSome ==
  ASSUME NEW n \in Nonces
  PROVE  n # NoNonce
BY DEF Nonces, NoNonce

(* A kill: if it tears the info file, it is that of the killed process. *)
LEMMA SafeKill ==
  ASSUME IndInv, SingleBreaker, NEW p \in Procs, Kill(p)
  PROVE  \A q \in Procs : HolderOK(q)' /\ BreakOK(q)'
<1> USE DEF IndInv, TypeInv, TypeOK, LockInv
<1>1. OthersSame(p) /\ pc[p] # "dead"
  BY DEF Kill, OthersSame
<1>2. HolderOK(p)' /\ BreakOK(p)'
  BY DEF Kill, HolderOK, BreakOK, Inside, Breaking
<1>3. CASE held' = held
  BY <1>1, <1>2, <1>3, OthersKeep
<1>4. CASE held.kind = "ok" /\ held.nonce[1] = p
  <2>1. \A q \in Procs \ {p} : q \notin Inside
    <3> SUFFICES ASSUME NEW q \in Procs \ {p}, q \in Inside
                 PROVE  FALSE
      OBVIOUS
    <3>1. held.nonce = nonce[q]
      BY SMTT(40) DEF HolderOK, InfoOf
    <3>2. nonce[q] \in Nonces
      BY DEF HasNonce, Inside
    <3>3. nonce[q] # NoNonce
      BY <3>2, NoncesAreSome
    <3>4. nonce[q][1] = q
      BY <3>3, Zenon DEF HolderOK
    <3> QED BY <1>4, <3>1, <3>4
  <2>2. \A q \in Procs \ {p} : pc[q] \notin {"fb_rename", "fbc_rename"}
    BY <1>1, <1>4 DEF BreakOK, StaleLock
  <2>3. \A q \in Procs \ {p} : pc[q] = "ask" => seen[q].kind # "corrupt"
    BY <1>4 DEF BreakOK
  <2> QED BY <1>1, <1>2, <2>1, <2>2, <2>3, HeldChanges
<1> QED BY <1>3, <1>4 DEF Kill

LEMMA IndNext == SingleBreaker /\ IndInv /\ [Next]_vars => IndInv'
<1> SUFFICES ASSUME SingleBreaker, IndInv, [Next]_vars
             PROVE  IndInv'
  OBVIOUS
<1>1. TypeInv'
  BY TypeNext DEF IndInv
<1>2. ASSUME Next
      PROVE  \A q \in Procs : HolderOK(q)' /\ BreakOK(q)'
  <2>1. PICK p \in Procs : Step(p) \/ Call(p) \/ Kill(p)
    BY <1>2 DEF Next
  <2>2. Step(p) => QuietStep(p) \/ RenameIntoPlace(p) \/ ReleaseRename(p)
                   \/ ForceBreakRename(p) \/ ForceBreakCorruptRename(p)
    BY DEF Step, QuietStep
  <2> QED BY <2>1, <2>2, SafeCall, SafeQuietStep, SafeRename, SafeBreak, SafeRelease, SafeKill
<1>3. ASSUME UNCHANGED vars
      PROVE  \A q \in Procs : HolderOK(q)' /\ BreakOK(q)'
  BY <1>3 DEF IndInv, LockInv, HolderOK, BreakOK, Inside, StaleLock
<1> QED BY <1>1, <1>2, <1>3 DEF IndInv, LockInv, TypeInv

(* The lock directory excludes: with a single careful breaker, whatever is    *)
(* killed and whenever, two processes are never both inside.                  *)
THEOREM Exclusion ==
  ASSUME SingleBreaker
  PROVE  Spec => []MutualExclusion
<1>1. IndInv /\ [Next]_vars => IndInv'
  BY IndNext
<1> QED BY <1>1, IndInit, ExclusionFromInv, PTL DEF Spec

(* The lock of a live holder is left alone: with a single careful breaker     *)
(* "held" changes under a holder only by its own unlock or its own death.     *)
THEOREM HolderSafety ==
  ASSUME SingleBreaker
  PROVE  Spec => HoldersKeepLock
<1>1. IndInv /\ [Next]_vars => IndInv'
  BY IndNext
<1>2. ASSUME IndInv, [Next]_vars
      PROVE  [\A p \in Inside : held' # held => pc[p] = "rel_rename" \/ pc'[p] = "dead"]_vars
  <2> SUFFICES ASSUME Next, NEW q \in Inside, held' # held
               PROVE  pc[q] = "rel_rename" \/ pc'[q] = "dead"
    BY <1>2
  <2>1. PICK p \in Procs : Step(p) \/ Call(p) \/ Kill(p)
    BY DEF Next
  <2>2. held = InfoOf(nonce[q]) /\ q \in Procs /\ nonce[q][1] = q
    BY <1>2 DEF IndInv, TypeInv, HasNonce, LockInv, HolderOK, Inside, Nonces, NoNonce
  <2>3. \/ RenameIntoPlace(p) /\ HeldFree
        \/ ForceBreakRename(p) \/ ForceBreakCorruptRename(p)
        \/ ReleaseRename(p)
        \/ Kill(p) /\ held.nonce[1] = p
    BY <2>1 DEF Step, Call, CreatePendingDir, Create, RenameIntoPlace, Contend, Decide, Verify,
       WaitLock, ForceBreakPeek, ForceBreakCheck, ForceBreakCorruptCheck, Ask, Confirm,
       ReleaseDelete, LockWrite, BreakLock, Unlock, UnlockLeavingInPlace, LockRead,
       UnlockRead, LeaveInPlace, DontLeaveInPlace, LockWithToken, Kill
  <2>4. ~(RenameIntoPlace(p) /\ HeldFree)
    BY <2>2 DEF HeldFree, InfoOf
  <2>5. ~(ForceBreakRename(p) \/ ForceBreakCorruptRename(p))
    BY <1>2, NobodyInside DEF ForceBreakRename, ForceBreakCorruptRename, BreakRename, At
  <2>6. ReleaseRename(p) => p = q /\ pc[q] = "rel_rename"
    <3>1. ReleaseRename(p) => p \in Inside /\ pc[p] = "rel_rename"
      BY <1>2 DEF ReleaseRename, At, IndInv, LockInv, HolderOK, Inside
    <3> QED BY <1>2, <3>1, ExclusionFromInv DEF MutualExclusion
  <2>7. Kill(p) /\ held.nonce[1] = p => pc'[q] = "dead"
    BY <1>2, <2>2 DEF Kill, InfoOf, IndInv, TypeInv, TypeOK
  <2> QED BY <2>3, <2>4, <2>5, <2>6, <2>7
<1> QED BY <1>1, <1>2, IndInit, PTL DEF Spec, HoldersKeepLock

(* Where a single careful breaker is at work, the window between confirm()    *)
(* and the rename of unlock is harmless: the lock renamed away is the own one. *)
THEOREM UnlockIsSafe ==
  ASSUME SingleBreaker
  PROVE  Spec => UnlockTakesOwnLock
<1>1. IndInv /\ [Next]_vars => IndInv'
  BY IndNext
<1>2. ASSUME IndInv, NEW p \in Procs, pc[p] = "rel_rename"
      PROVE  Own(p)
  BY <1>2 DEF IndInv, LockInv, HolderOK, Inside, Own, InfoOf
<1>3. IndInv => [\A p \in Procs : pc[p] = "rel_rename" /\ pc'[p] = "rel_delete" => Own(p)]_vars
  BY <1>2
<1> QED BY <1>1, <1>3, IndInit, PTL DEF Spec, UnlockTakesOwnLock

-----------------------------------------------------------------------------
(* The refinement. *)

Alive == {p \in Procs : pc[p] # "dead"}
NoToken == \A p \in Procs : viaToken[p] = FALSE
RefInv == IndInv /\ NoToken

LEMMA RefInvStep ==
  ASSUME SingleBreaker, RefInv, [Next]_vars
  PROVE  RefInv'
<1>1. IndInv'
  BY IndNext DEF RefInv
<1>2. ASSUME NEW p \in Procs, Step(p) \/ Kill(p)
      PROVE  UNCHANGED viaToken
  BY <1>2 DEF Step, CreatePendingDir, Create, RenameIntoPlace, Contend, Decide, Verify, WaitLock,
     ForceBreakPeek, ForceBreakRename, ForceBreakCheck, ForceBreakCorruptRename, BreakRename,
     ForceBreakCorruptCheck, Ask, Confirm, ReleaseRename, ReleaseDelete, Kill
<1>3. ASSUME NEW p \in Procs, Call(p)
      PROVE  UNCHANGED viaToken
  BY <1>3 DEF Call, LockWrite, BreakLock, Unlock, UnlockLeavingInPlace, LockRead, UnlockRead,
     LeaveInPlace, DontLeaveInPlace, LockWithToken, SingleBreaker, RefInv, NoToken
<1>4. UNCHANGED viaToken
  BY <1>2, <1>3 DEF Next
<1> QED BY <1>1, <1>4 DEF RefInv, NoToken

\* The owner of a lock that is in place, read off "held".
LEMMA OwnerOf ==
  /\ held.kind = "none" => Owner = "free"
  /\ held.kind = "ok" => Owner = held.nonce[1]
  /\ held.kind \notin {"none", "ok"} => Owner = "lost"
BY DEF Owner

\* A call only moves its process within Inside.
LEMMA CallStutters ==
  ASSUME SingleBreaker, RefInv, NEW p \in Procs, Call(p)
  PROVE  Owner' = Owner /\ Inside' = Inside /\ Alive' = Alive
<1> USE DEF RefInv, IndInv, TypeInv, TypeOK, At, Begin
<1>1. held' = held
  BY DEF Call, LockWrite, BreakLock, Unlock, UnlockLeavingInPlace, LockRead, UnlockRead,
     LeaveInPlace, DontLeaveInPlace, LockWithToken
<1>2. Alive' = Alive
  BY DEF Alive, Call, LockWrite, BreakLock, Unlock, UnlockLeavingInPlace, LockRead, UnlockRead,
     LeaveInPlace, DontLeaveInPlace, LockWithToken
<1>3. \A q \in Procs : q \in Inside' <=> q \in Inside
  BY DEF Inside, Call, LockWrite, BreakLock, Unlock, UnlockLeavingInPlace, LockRead, UnlockRead,
     LeaveInPlace, DontLeaveInPlace, LockWithToken, SingleBreaker, NoToken
<1> QED BY <1>1, <1>2, <1>3 DEF Owner, Inside

\* Of the steps that leave "held" alone, only the check after a successful
\* rename moves the abstract lock.
LEMMA QuietStepMaps ==
  ASSUME SingleBreaker, RefInv, NEW p \in Procs, QuietStep(p)
  PROVE  /\ Owner' = Owner /\ Alive' = Alive
         /\ \/ Inside' = Inside
            \/ Owner = p /\ p \in Alive /\ Inside' = Inside \cup {p}
<1> USE DEF RefInv, IndInv, TypeInv, TypeOK, LockInv, At, Goto, Finish
<1>1. held' = held
  BY DEF QuietStep, CreatePendingDir, Create, Contend, Decide, Verify, WaitLock,
     ForceBreakPeek, ForceBreakCheck, ForceBreakCorruptCheck, Ask, Confirm, ReleaseDelete
<1>2. Alive' = Alive
  BY DEF Alive, QuietStep, CreatePendingDir, Create, Contend, Decide, Verify, WaitLock,
     ForceBreakPeek, ForceBreakCheck, ForceBreakCorruptCheck, CheckBroken, BreakRaises,
     BreakReturns, Ask, Confirm, ReleaseDelete, CallerUnlocked
<1>3. CASE Verify(p) /\ Own(p)
  <2>1. p \in Alive
    BY <1>3 DEF Verify, Alive
  <2>2. Owner = p
    BY <1>3, OwnerOf DEF Own, HolderOK, Verify, HasNonce, Nonces, NoNonce
  <2>3. Inside' = Inside \cup {p}
    <3>1. pc' = [pc EXCEPT ![p] = "idle"] /\ mode' = [mode EXCEPT ![p] = "w"]
      BY <1>3 DEF Verify, Own
    <3> QED BY <3>1 DEF Inside
  <2> QED BY <1>1, <1>2, <2>1, <2>2, <2>3 DEF Owner
<1>4. CASE Confirm(p)
  <2>1. Own(p)
    BY <1>4 DEF Confirm, HolderOK, Inside, Own, InfoOf
  <2>2. Inside' = Inside
    BY <1>4, <2>1 DEF Confirm, Own, Inside
  <2> QED BY <1>1, <1>2, <2>2 DEF Owner
<1>5. CASE ~(Verify(p) /\ Own(p)) /\ ~Confirm(p)
  <2>1. pc[p] \notin {"idle", "confirm", "rel_rename"}
    BY <1>5 DEF QuietStep, CreatePendingDir, Create, Contend, Decide, Verify, WaitLock,
       ForceBreakPeek, ForceBreakCheck, ForceBreakCorruptCheck, Ask, ReleaseDelete
  <2>2. /\ pc'[p] \notin {"confirm", "rel_rename"}
        /\ \A q \in Procs \ {p} : pc'[q] = pc[q] /\ mode'[q] = mode[q]
    BY <1>5 DEF QuietStep, CreatePendingDir, Create, Contend, Decide, Verify, WaitLock,
       ForceBreakPeek, ForceBreakCheck, ForceBreakCorruptCheck, CheckBroken, BreakRaises,
       BreakReturns, Ask, ReleaseDelete, CallerUnlocked
  <2>3. mode'[p] # "w" \/ pc'[p] # "idle"
    BY <1>5 DEF HolderOK, QuietStep, CreatePendingDir, Create, Contend, Decide, Verify, WaitLock,
       ForceBreakPeek, ForceBreakCheck, ForceBreakCorruptCheck, Ask, ReleaseDelete,
       CallerUnlocked
  <2>4. Inside' = Inside
    BY <2>1, <2>2, <2>3 DEF Inside
  <2> QED BY <1>1, <1>2, <2>4 DEF Owner
<1> QED BY <1>3, <1>4, <1>5

LEMMA RenameMaps ==
  ASSUME SingleBreaker, RefInv, NEW p \in Procs, RenameIntoPlace(p)
  PROVE  /\ Alive' = Alive /\ Inside' = Inside
         /\ \/ Owner' = Owner
            \/ Owner = "free" /\ p \in Alive /\ Owner' = p
<1> USE DEF RefInv, IndInv, TypeInv, TypeOK, LockInv, At, Goto
<1>1. Alive' = Alive /\ Inside' = Inside /\ p \in Alive
  BY DEF RenameIntoPlace, Alive, Inside
<1>2. CASE HeldFree
  <2>1. nonce[p][1] = p
    BY DEF RenameIntoPlace, HolderOK, HasNonce, Nonces, NoNonce
  <2> QED BY <1>1, <1>2, <2>1 DEF RenameIntoPlace, HeldFree, Owner, InfoOf
<1>3. CASE ~HeldFree
  BY <1>1, <1>3 DEF RenameIntoPlace, Owner
<1> QED BY <1>2, <1>3

LEMMA BreakMaps ==
  ASSUME SingleBreaker, RefInv, NEW p \in Procs,
         ForceBreakRename(p) \/ ForceBreakCorruptRename(p)
  PROVE  /\ Alive' = Alive /\ Inside' = Inside
         /\ Owner \notin Alive \cup {"free"} /\ Owner' = "free"
<1> USE DEF RefInv, IndInv, TypeInv, TypeOK, LockInv, At, Goto
<1>1. pc[p] \in {"fb_rename", "fbc_rename"}
  BY DEF ForceBreakRename, ForceBreakCorruptRename, BreakRename
<1>2. Inside = {} /\ held.kind # "none"
  BY <1>1, NobodyInside
<1>3. /\ \E x \in {"fb_check", "fbc_check"} : pc' = [pc EXCEPT ![p] = x]
      /\ held' = NoInfo /\ UNCHANGED mode
  BY <1>2 DEF ForceBreakRename, ForceBreakCorruptRename, BreakRename, RenameAway
<1>4. Alive' = Alive /\ Inside' = Inside
  BY <1>1, <1>2, <1>3 DEF Alive, Inside
<1>5. held.kind \in {"empty", "corrupt"} \/ (held.kind = "ok" /\ pc[held.nonce[1]] = "dead")
  BY <1>1 DEF BreakOK, StaleLock
<1>6. Owner \notin Alive \cup {"free"}
  <2>1. held.kind = "ok" => held.nonce[1] \in Procs
    BY DEF Info, Nonces, NoNonce
  <2> QED BY <1>5, <2>1, OwnerOf, ProcsAssumption DEF Alive
<1> QED BY <1>3, <1>4, <1>6 DEF Owner, NoInfo

LEMMA ReleaseMaps ==
  ASSUME SingleBreaker, RefInv, NEW p \in Procs, ReleaseRename(p)
  PROVE  /\ Alive' = Alive /\ p \in Inside /\ Inside' = Inside \ {p}
         /\ Owner = p /\ Owner' = "free"
<1> USE DEF RefInv, IndInv, TypeInv, TypeOK, LockInv, At, Goto
<1>1. p \in Inside
  BY DEF ReleaseRename, HolderOK, Inside
<1>2. held = InfoOf(nonce[p]) /\ nonce[p][1] = p
  BY <1>1 DEF HolderOK, HasNonce, Inside, Nonces, NoNonce
<1>3. pc' = [pc EXCEPT ![p] = "rel_delete"] /\ held' = NoInfo /\ UNCHANGED mode
  BY <1>2 DEF ReleaseRename, RenameAway, InfoOf
<1>4. Alive' = Alive /\ Inside' = Inside \ {p}
  BY <1>3 DEF Alive, Inside, ReleaseRename
<1> QED BY <1>1, <1>2, <1>3, <1>4 DEF Owner, InfoOf, NoInfo

LEMMA KillMaps ==
  ASSUME SingleBreaker, RefInv, NEW p \in Procs, Kill(p)
  PROVE  /\ p \in Alive /\ Alive' = Alive \ {p} /\ Inside' = Inside \ {p}
         /\ Owner' = Owner \/ (Owner = p /\ Owner' = "lost")
<1> USE DEF RefInv, IndInv, TypeInv, TypeOK
<1>1. p \in Alive /\ Alive' = Alive \ {p} /\ Inside' = Inside \ {p}
  BY DEF Kill, Alive, Inside
<1>2. held' = held => Owner' = Owner
  BY DEF Owner
<1>3. held' # held => Owner = p /\ Owner' = "lost"
  BY ProcsAssumption DEF Kill, Owner, TornInfo
<1> QED BY <1>1, <1>2, <1>3

(* With a single careful breaker the lock directory is the abstract lock:     *)
(* every interleaving of renames, reads and deletes on disk, kills and torn   *)
(* info files included, is a behaviour of Mutex.                              *)
THEOREM Refinement ==
  ASSUME SingleBreaker
  PROVE  Spec => ImplementsMutex
<1> USE DEF Lock!MInit, Lock!MNext, Lock!mvars
<1>1. Init => Lock!MInit
  BY DEF Init, Owner, NoInfo, Inside
<1>2. Init => RefInv
  BY IndInit DEF Init, RefInv, NoToken
<1>3. RefInv /\ [Next]_vars => RefInv'
  BY RefInvStep
<1>4. RefInv /\ [Next]_vars => [Lock!MNext]_(Lock!mvars)
  <2> SUFFICES ASSUME RefInv, [Next]_vars
               PROVE  [Lock!MNext]_(Lock!mvars)
    OBVIOUS
  <2>1. ASSUME NEW p \in Procs, Step(p)
        PROVE  [Lock!MNext]_(Lock!mvars)
    <3>1. QuietStep(p) => Lock!Enter(p) \/ UNCHANGED Lock!mvars
      BY QuietStepMaps DEF Lock!Enter, Alive
    <3>2. RenameIntoPlace(p) => Lock!Take(p) \/ UNCHANGED Lock!mvars
      BY RenameMaps DEF Lock!Take, Alive
    <3>3. ForceBreakRename(p) \/ ForceBreakCorruptRename(p) => Lock!Break
      BY BreakMaps DEF Lock!Break, Alive
    <3>4. ReleaseRename(p) => Lock!Leave(p)
      BY ReleaseMaps DEF Lock!Leave, Alive
    <3> QED BY <2>1, <3>1, <3>2, <3>3, <3>4 DEF Step, QuietStep
  <2>2. ASSUME NEW p \in Procs, Call(p)
        PROVE  [Lock!MNext]_(Lock!mvars)
    BY <2>2, CallStutters DEF Alive
  <2>3. ASSUME NEW p \in Procs, Kill(p)
        PROVE  [Lock!MNext]_(Lock!mvars)
    BY <2>3, KillMaps DEF Lock!Die, Alive
  <2>4. ASSUME UNCHANGED vars
        PROVE  UNCHANGED Lock!mvars
    BY <2>4 DEF Owner, Inside
  <2> QED BY <2>1, <2>2, <2>3, <2>4 DEF Next
<1> QED BY <1>1, <1>2, <1>3, <1>4, PTL DEF Spec, ImplementsMutex, Lock!MSpec

-----------------------------------------------------------------------------
(* Any number of careless breakers and stealers, tokens, buggy servers: what  *)
(* follows rests on nonces being drawn once and being in one place at a time, *)
(* and on a locker's pending directory being its own until it is renamed.     *)

\* A locker that has a pending directory, which is there until it is renamed.
Attempts(p) ==
  \/ pc[p] \in {"rename", "contend", "decide"}
  \/ pc[p] \in Breaking \cup {"ask", "fbc_rename", "fbc_check"} /\ op[p] = "lock_write"
HasPending == \A p \in Procs : Attempts(p) => PendingDir(p) \in tmp

\* The nonces drawn so far, and that no other is to be seen anywhere.
Drawn(n) == n[2] <= tries[n[1]]
AllDrawn ==
  /\ held.kind = "ok" => Drawn(held.nonce)
  /\ \A n \in junk \cup issued : Drawn(n)
  /\ \A d \in tmp : d.info.kind = "ok" => Drawn(d.info.nonce)
  /\ \A d \in tmp : \A n \in d.junk : Drawn(n)
  /\ \A p \in Procs : mode[p] = "w" => Drawn(nonce[p])

\* What "held" carries is nowhere else, and what has been a lock is not pending.
HeldApart == held.kind = "ok" => held.nonce \notin junk /\ \A e \in tmp : held.nonce \notin e.junk
Taken ==
  \A d \in tmp : d.kind = "pending" =>
    /\ \A n \in issued : d.info # InfoOf(n)
    /\ \A p \in Procs : mode[p] = "w" => d.info # InfoOf(nonce[p])

\* Who is trying to get the lock does not have it.
TryingOutside ==
  \A p \in Procs :
    mode[p] = "w" => pc[p] \in {"idle", "confirm", "rel_rename", "rel_delete", "dead"}

Apart == NoncesApart /\ HeldApart /\ Taken
NonceInv == TypeInv /\ HasPending /\ TryingOutside /\ AllDrawn /\ Apart

\* Whoever has the lock now had it, took it over by a token or found it in place.
Claims ==
  /\ \A q \in Procs : mode'[q] = "w" =>
       \/ mode[q] = "w" /\ nonce'[q] = nonce[q]
       \/ nonce'[q] \in issued
       \/ held = InfoOf(nonce'[q])
  /\ \A n \in issued' : n \in issued \/ held = InfoOf(n)

\* The directories are those there were, or some of them, perhaps renamed.
Kept ==
  /\ \A e \in tmp' : \E d \in tmp : /\ e.info = d.info /\ e.junk = d.junk
                                    /\ e.kind = "pending" => d.kind = "pending"
  /\ \A d, e \in tmp' : d.info.kind = "ok" /\ e.info = d.info => d = e

LEMMA NonceInit == Init => NonceInv
BY TypeInit DEF Init, NonceInv, HasPending, Attempts, Breaking, AllDrawn, Apart, HeldApart,
   NoncesApart, Taken, TryingOutside, NoInfo

\* A step that draws no nonce and renames nothing in or out of "held".
LEMMA Quiet ==
  ASSUME AllDrawn, Apart, Claims, Kept, tries' = tries,
         junk' = junk, held' = held \/ held'.kind # "ok"
  PROVE  AllDrawn' /\ Apart'
<1>1. AllDrawn'
  <2> USE DEF AllDrawn, Drawn
  <2>1. (held.kind = "ok" => Drawn(held.nonce))' /\ \A n \in junk' : n[2] <= tries'[n[1]]
    OBVIOUS
  <2>2. /\ \A n \in issued' : n[2] <= tries'[n[1]]
        /\ \A q \in Procs : mode'[q] = "w" => nonce'[q][2] <= tries'[nonce'[q][1]]
    BY DEF Claims, InfoOf
  <2>3. \A e \in tmp' : /\ e.info.kind = "ok" => e.info.nonce[2] <= tries'[e.info.nonce[1]]
                        /\ \A n \in e.junk : n[2] <= tries'[n[1]]
    BY DEF Kept
  <2> QED BY <2>1, <2>2, <2>3
<1>2. HeldApart' /\ NoncesApart'
  BY DEF Apart, HeldApart, NoncesApart, Kept
<1>3. ASSUME NEW e \in tmp', e.kind = "pending"
      PROVE  /\ \A n \in issued' : e.info # InfoOf(n)
             /\ \A q \in Procs : mode'[q] = "w" => e.info # InfoOf(nonce'[q])
  <2>1. PICK d \in tmp : d.kind = "pending" /\ e.info = d.info
    BY <1>3 DEF Kept
  <2>2. \A n : d.info = InfoOf(n) => held # InfoOf(n)
    BY DEF Apart, NoncesApart, InfoOf
  <2> QED BY <2>1, <2>2 DEF Apart, Taken, Claims
<1> QED BY <1>1, <1>2, <1>3 DEF Apart, Taken

\* The pending directories of others stay.
LEMMA OthersPend ==
  ASSUME HasPending, NEW p \in Procs,
         \A q \in Procs \ {p} : pc'[q] = pc[q] /\ op'[q] = op[q] /\ nonce'[q] = nonce[q],
         \A d \in tmp : d.kind = "pending" /\ d.by # p => d \in tmp',
         Attempts(p)' => PendingDir(p)' \in tmp'
  PROVE  HasPending'
<1> SUFFICES ASSUME NEW q \in Procs, q # p, Attempts(q)'
             PROVE  PendingDir(q)' \in tmp'
  BY DEF HasPending, PendingDir, Attempts
<1>1. Attempts(q) /\ PendingDir(q)' = PendingDir(q)
  BY DEF Attempts, PendingDir, Pending, InfoOf
<1>2. PendingDir(q).by = q /\ PendingDir(q).kind = "pending"
  BY DEF PendingDir, Pending
<1> QED BY <1>1, <1>2 DEF HasPending

\* What a step has to keep for NonceInv: the types are kept by every step.
Rest == HasPending /\ TryingOutside /\ AllDrawn /\ Apart

LEMMA SameDirsKept == Apart /\ tmp' \subseteq tmp => Kept
BY DEF Apart, NoncesApart, Kept

(* The start of a call moves nothing. *)
LEMMA NonceCall ==
  ASSUME NonceInv, NEW p \in Procs, Call(p)
  PROVE  Rest'
<1> USE DEF NonceInv, TypeInv, TypeOK, Labels, Ops
<1>1. UNCHANGED <<disk, tries>>
  BY DEF Call, LockWrite, BreakLock, Unlock, UnlockLeavingInPlace, LockRead, UnlockRead,
         LeaveInPlace, DontLeaveInPlace, LockWithToken, disk, flow, object
<1>2. /\ \A q \in Procs \ {p} : pc'[q] = pc[q] /\ op'[q] = op[q] /\ nonce'[q] = nonce[q]
      /\ ~Attempts(p)'
  <2> USE DEF Attempts, Breaking, Begin, At
  <2>1. CASE LockWrite(p) \/ BreakLock(p) \/ Unlock(p) \/ UnlockLeavingInPlace(p)
    BY <2>1 DEF LockWrite, BreakLock, Unlock, UnlockLeavingInPlace, disk, flow, object
  <2>2. CASE LockRead(p) \/ UnlockRead(p) \/ LeaveInPlace(p) \/ DontLeaveInPlace(p)
    BY <2>2 DEF LockRead, UnlockRead, LeaveInPlace, DontLeaveInPlace, disk, flow, object
  <2>3. CASE \E t \in issued : LockWithToken(p, t)
    BY <2>3 DEF LockWithToken
  <2> QED BY <2>1, <2>2, <2>3 DEF Call
<1>3. HasPending'
  BY <1>1, <1>2, OthersPend DEF disk
<1>4. Claims /\ TryingOutside'
  <2> USE DEF Claims, TryingOutside, Begin, At
  <2>1. CASE LockWrite(p) \/ BreakLock(p) \/ Unlock(p) \/ UnlockLeavingInPlace(p)
    BY <2>1 DEF LockWrite, BreakLock, Unlock, UnlockLeavingInPlace, disk, flow, object
  <2>2. CASE LockRead(p) \/ UnlockRead(p) \/ LeaveInPlace(p) \/ DontLeaveInPlace(p)
    BY <2>2 DEF LockRead, UnlockRead, LeaveInPlace, DontLeaveInPlace, disk, flow, object
  <2>3. CASE \E t \in issued : LockWithToken(p, t)
    BY <2>3 DEF LockWithToken
  <2> QED BY <2>1, <2>2, <2>3 DEF Call
<1> QED BY <1>1, <1>3, <1>4, SameDirsKept, Quiet DEF Rest, disk

(* Nor does a kill, which may tear the info file in "held". *)
LEMMA NonceKill ==
  ASSUME NonceInv, NEW p \in Procs, Kill(p)
  PROVE  Rest'
<1> USE DEF NonceInv, TypeInv, TypeOK
<1>1. HasPending' /\ TryingOutside' /\ Claims
  BY OthersPend DEF Kill, Attempts, Breaking, TryingOutside, Claims, object
<1>2. /\ tries' = tries /\ tmp' = tmp /\ junk' = junk
      /\ held' = held \/ held'.kind # "ok"
  BY ProcsAssumption DEF Kill, TornInfo, object
<1> QED BY <1>1, <1>2, SameDirsKept, Quiet DEF Rest

LEMMA PendingBy == \A p \in Procs : PendingDir(p).by = p /\ PendingDir(p).kind = "pending"
BY DEF PendingDir, Pending

\* A call in progress that takes nothing away but its own pending directory, and
\* no lock but the one it has found in "held".
LEMMA NonceQuietStep ==
  ASSUME NonceInv, NEW p \in Procs, UNCHANGED <<held, junk, tries, nonce>>,
         issued' = issued \/ (issued' = issued \cup {nonce[p]} /\ Own(p)),
         tmp' \subseteq tmp,
         \A d \in tmp : d.kind = "pending" /\ d.by # p => d \in tmp',
         \A q \in Procs \ {p} : pc'[q] = pc[q] /\ op'[q] = op[q] /\ mode'[q] = mode[q],
         Attempts(p)' => Attempts(p) /\ (PendingDir(p) \in tmp => PendingDir(p) \in tmp'),
         mode'[p] = "w" => /\ mode[p] = "w" \/ Own(p)
                           /\ pc'[p] \in {"idle", "confirm", "rel_rename", "rel_delete", "dead"}
  PROVE  Rest'
<1>1. PendingDir(p)' = PendingDir(p)
  BY DEF PendingDir, Pending, InfoOf
<1>2. HasPending'
  BY <1>1, OthersPend DEF NonceInv, HasPending
<1>3. TryingOutside'
  BY DEF NonceInv, TryingOutside
<1>4. Own(p) => held = InfoOf(nonce[p])
  BY DEF Own, NonceInv, TypeInv, TypeOK, Info, InfoOf
<1>5. Claims
  BY <1>4 DEF Claims
<1> QED BY <1>2, <1>3, <1>5, SameDirsKept, Quiet DEF NonceInv, Rest

(* The locker's steps between the renames. *)
LEMMA NonceLocker ==
  ASSUME NonceInv, NEW p \in Procs,
         Create(p) \/ Contend(p) \/ Decide(p) \/ Verify(p) \/ WaitLock(p) \/ Ask(p) \/ Confirm(p)
  PROVE  Rest'
<1> USE DEF TypeInv, TypeOK, Labels, Ops, At, Goto, Finish, Attempts, Breaking, TryingOutside
<1>0. TypeInv /\ TryingOutside
  BY DEF NonceInv
<1>1. CASE Create(p)
  BY <1>0, <1>1, NonceQuietStep DEF Create, disk, object
<1>2. CASE Contend(p)
  BY <1>0, <1>2, NonceQuietStep DEF Contend, disk, object
<1>3. CASE Decide(p)
  BY <1>0, <1>3, PendingBy, NonceQuietStep DEF Decide, RemovePendingDir, disk, object
<1>4. CASE Verify(p)
  BY <1>0, <1>4, NonceQuietStep DEF Verify, disk, object
<1>5. CASE WaitLock(p)
  BY <1>0, <1>5, NonceQuietStep DEF WaitLock, disk, object
<1>6. CASE Ask(p)
  BY <1>0, <1>6, NonceQuietStep DEF Ask, disk, object
<1>7. CASE Confirm(p)
  BY <1>0, <1>7, NonceQuietStep DEF Confirm, CallerUnlocked, disk, object
<1> QED BY <1>1, <1>2, <1>3, <1>4, <1>5, <1>6, <1>7

\* A break that ends without having moved anything.
LEMMA NonceRaises ==
  ASSUME NonceInv, NEW p \in Procs, NEW r, BreakRaises(p, r, tmp),
         UNCHANGED <<held, junk, object>>, pc[p] \notin {"idle", "dead"}
  PROVE  Rest'
<1>1. TypeInv /\ TryingOutside
  BY DEF NonceInv
<1>2. tmp' = tmp \/ tmp' = tmp \ {PendingDir(p)}
  BY DEF BreakRaises
<1>3. pc' = [pc EXCEPT ![p] = "idle"] /\ op' = op
  BY DEF BreakRaises, Finish
<1>4. ~Attempts(p)'
  BY <1>1, <1>3 DEF Attempts, Breaking, TypeInv, TypeOK
<1> QED BY <1>1, <1>2, <1>3, <1>4, PendingBy, NonceQuietStep
        DEF TypeInv, TypeOK, TryingOutside, object

(* The first check of force_break, and the end of unlock. *)
LEMMA NoncePeek ==
  ASSUME NonceInv, NEW p \in Procs, ForceBreakPeek(p) \/ ReleaseDelete(p)
  PROVE  Rest'
<1> USE DEF TypeInv, TypeOK, Labels, Ops, At, Goto, Finish, Attempts, Breaking, TryingOutside
<1>0. TypeInv /\ TryingOutside
  BY DEF NonceInv
<1>1. CASE ForceBreakPeek(p)
  <2>1. CASE \E r : BreakRaises(p, r, tmp)
    BY <1>1, <2>1, NonceRaises DEF ForceBreakPeek
  <2>2. CASE tmp' = tmp /\ (BreakReturns(p, "AttributeError") \/ Goto(p, "fb_rename"))
    BY <1>0, <1>1, <2>2, NonceQuietStep DEF ForceBreakPeek, BreakReturns, object
  <2> QED BY <1>1, <2>1, <2>2 DEF ForceBreakPeek
<1>2. CASE ReleaseDelete(p)
  BY <1>0, <1>2, NonceQuietStep DEF ReleaseDelete, CallerUnlocked, Moved
<1> QED BY <1>1, <1>2

\* The directory left behind after a failed second check carries what it carried.
LEMMA AbandonKept ==
  ASSUME NonceInv, NEW p \in Procs, NEW d \in Moved(p, "broken"), tmp' \subseteq Abandon(d)
  PROVE  Kept
<1> DEFINE t == [d EXCEPT !.kind = "trash"]
<1>1. d \in tmp /\ d \in Dirs
  BY DEF Moved, NonceInv, TypeInv, TypeOK
<1>2. t.kind = "trash" /\ t.info = d.info /\ t.junk = d.junk
  BY <1>1 DEF Dirs
<1>3. \A e \in tmp' : e = t \/ (e \in tmp /\ e # d)
  BY DEF Abandon
<1> HIDE DEF t
<1> QED BY <1>1, <1>2, <1>3 DEF Kept, NonceInv, Apart, NoncesApart

(* The second check of a break: the directory moved away is deleted or left. *)
LEMMA NonceCheck ==
  ASSUME NonceInv, NEW p \in Procs, ForceBreakCheck(p) \/ ForceBreakCorruptCheck(p)
  PROVE  Rest'
<1>1. /\ pc[p] \in {"fb_check", "fbc_check"}
      /\ UNCHANGED <<held, junk, tries, nonce, mode, issued>>
  BY DEF ForceBreakCheck, ForceBreakCorruptCheck, At, object
<1>2. PICK d \in Moved(p, "broken") : CheckBroken(p, d) \/ BreakRaises(p, "LockCorrupt", Abandon(d))
  BY DEF ForceBreakCheck, ForceBreakCorruptCheck
<1>3. d.kind = "broken"
  BY DEF Moved
<1>4. TypeInv /\ TryingOutside
  BY DEF NonceInv
<1>5. mode[p] # "w" /\ mode'[p] # "w"
  BY <1>1, <1>4 DEF TryingOutside
<1>6. CASE tmp' = tmp \ {d} /\ BreakReturns(p, "ok")
  <2>1. \A q \in Procs \ {p} : pc'[q] = pc[q] /\ op'[q] = op[q] /\ mode'[q] = mode[q]
    BY <1>1, <1>4, <1>6 DEF BreakReturns, Goto, Finish, TypeInv, TypeOK
  <2>2. Attempts(p)' => Attempts(p)
    BY <1>1, <1>4, <1>6 DEF BreakReturns, Goto, Finish, TypeInv, TypeOK, Attempts, Breaking
  <2> QED BY <1>1, <1>3, <1>5, <1>6, <2>1, <2>2, PendingBy, NonceQuietStep
<1>7. CASE \E r : BreakRaises(p, r, Abandon(d))
  <2>1. tmp' \subseteq Abandon(d) /\ \A e \in Abandon(d) : e.by # p => e \in tmp'
    BY <1>7, PendingBy DEF BreakRaises
  <2>2. pc' = [pc EXCEPT ![p] = "idle"] /\ op' = op
    BY <1>7 DEF BreakRaises, Finish
  <2>3. \A e \in tmp : e.kind = "pending" /\ e.by # p => e \in tmp'
    BY <1>3, <2>1 DEF Abandon
  <2>4. ~Attempts(p)' /\ \A q \in Procs \ {p} : pc'[q] = pc[q]
    BY <1>4, <2>2 DEF Attempts, Breaking, TypeInv, TypeOK
  <2>5. HasPending'
    BY <1>1, <2>2, <2>3, <2>4, OthersPend DEF NonceInv
  <2>6. TryingOutside' /\ Claims
    BY <1>1, <1>4, <1>5, <2>4 DEF TryingOutside, Claims
  <2> QED BY <1>1, <2>1, <2>5, <2>6, AbandonKept, Quiet DEF NonceInv, Rest
<1> QED BY <1>2, <1>6, <1>7 DEF CheckBroken

\* Whatever is in "held" goes to a directory of its own.
LEMMA AwayApart ==
  ASSUME NonceInv, NEW p \in Procs, NEW kind \in {"broken", "releasing"}, RenameAway(p, kind),
         UNCHANGED <<tries, nonce, mode, issued>>
  PROVE  AllDrawn' /\ Apart'
<1> DEFINE t == [kind |-> kind, by |-> p, info |-> held, junk |-> junk]
<1>1. /\ t.kind # "pending" /\ t.info = held /\ t.junk = junk
      /\ tmp' = tmp \cup {t} /\ held'.kind # "ok" /\ junk' = {}
  BY DEF RenameAway, NoInfo
<1> HIDE DEF t
<1>2. AllDrawn'
  BY <1>1 DEF NonceInv, AllDrawn, Drawn
<1>3. HeldApart' /\ Taken'
  BY <1>1 DEF NonceInv, Apart, HeldApart, Taken
<1>4. NoncesApart'
  BY <1>1 DEF NonceInv, Apart, HeldApart, NoncesApart
<1> QED BY <1>2, <1>3, <1>4 DEF Apart

(* The renames that break and release a lock. *)
LEMMA NonceAway ==
  ASSUME NonceInv, NEW p \in Procs,
         ForceBreakRename(p) \/ ForceBreakCorruptRename(p) \/ ReleaseRename(p)
  PROVE  Rest'
<1> USE DEF TypeInv, TypeOK, Labels, Ops, At, Goto, Finish, Attempts, Breaking, TryingOutside
<1>0. TypeInv /\ TryingOutside
  BY DEF NonceInv
<1>1. ASSUME NEW from \in {"fb_rename", "fbc_rename"}, NEW to \in {"fb_check", "fbc_check"},
             BreakRename(p, from, to)
      PROVE  Rest'
  <2>1. CASE BreakRaises(p, "NoSuchFile", tmp) /\ UNCHANGED <<held, junk>>
    BY <1>1, <2>1, NonceRaises DEF BreakRename
  <2>2. CASE RenameAway(p, "broken") /\ Goto(p, to)
    <3>1. AllDrawn' /\ Apart'
      BY <1>1, <2>2, AwayApart DEF BreakRename, object
    <3>2. PendingDir(p)' = PendingDir(p) /\ tmp \subseteq tmp' /\ (Attempts(p)' => Attempts(p))
      BY <1>0, <1>1, <2>2 DEF BreakRename, RenameAway, PendingDir, Pending, InfoOf, object
    <3>3. \A q \in Procs \ {p} : pc'[q] = pc[q] /\ op'[q] = op[q] /\ nonce'[q] = nonce[q]
      BY <1>0, <1>1, <2>2 DEF BreakRename, object
    <3>4. HasPending'
      BY <3>2, <3>3, OthersPend DEF NonceInv, HasPending
    <3>5. TryingOutside'
      BY <1>0, <1>1, <2>2 DEF BreakRename, object
    <3> QED BY <3>1, <3>4, <3>5 DEF Rest
  <2> QED BY <1>1, <2>1, <2>2 DEF BreakRename
<1>2. CASE ReleaseRename(p)
  <2>1. CASE CallerUnlocked(p, "suppressed") /\ UNCHANGED <<held, junk, tmp, lockHeld>>
    BY <1>0, <1>2, <2>1, NonceQuietStep DEF ReleaseRename, CallerUnlocked
  <2>2. CASE RenameAway(p, "releasing") /\ Goto(p, "rel_delete") /\ UNCHANGED mode
    <3>1. AllDrawn' /\ Apart'
      BY <1>2, <2>2, AwayApart DEF ReleaseRename
    <3>2. tmp \subseteq tmp' /\ ~Attempts(p)'
      BY <1>0, <1>2, <2>2 DEF ReleaseRename, RenameAway
    <3>3. \A q \in Procs \ {p} : pc'[q] = pc[q] /\ op'[q] = op[q] /\ nonce'[q] = nonce[q]
      BY <1>0, <1>2, <2>2 DEF ReleaseRename
    <3>4. HasPending'
      BY <3>2, <3>3, OthersPend DEF NonceInv
    <3>5. TryingOutside'
      BY <1>0, <1>2, <2>2 DEF ReleaseRename
    <3> QED BY <3>1, <3>4, <3>5 DEF Rest
  <2> QED BY <1>2, <2>1, <2>2 DEF ReleaseRename
<1> QED BY <1>1, <1>2 DEF ForceBreakRename, ForceBreakCorruptRename

(* A new pending directory: its nonce is to be seen nowhere yet. *)
LEMMA NonceCreatePending ==
  ASSUME NonceInv, NEW p \in Procs, CreatePendingDir(p)
  PROVE  Rest'
<1>0. TypeInv /\ TryingOutside /\ AllDrawn /\ Apart
  BY DEF NonceInv
<1>1. CASE ~lockdir
  BY <1>0, <1>1, NonceQuietStep
     DEF CreatePendingDir, Goto, At, disk, object, TypeInv, TypeOK, TryingOutside,
         Attempts, Breaking
<1>2. CASE lockdir
  <2> DEFINE n == FreshNonce(p)
             t == Pending(p, n)
  <2>1. /\ tries' = [tries EXCEPT ![p] = @ + 1] /\ nonce' = [nonce EXCEPT ![p] = n]
        /\ tmp' = tmp \cup {t} /\ UNCHANGED <<held, junk, mode, issued, op>>
        /\ pc[p] = "mkdir" /\ pc' = [pc EXCEPT ![p] = "rename"]
    BY <1>2 DEF CreatePendingDir, Goto, At
  <2>2. t.kind = "pending" /\ t.info = InfoOf(n) /\ t.junk = {} /\ t.by = p
    BY DEF Pending
  <2>3. InfoOf(n).kind = "ok" /\ InfoOf(n).nonce = n /\ n = <<p, tries[p] + 1>>
    BY DEF InfoOf, FreshNonce
  <2>4. /\ tries[p] \in Nat /\ tries' \in [Procs -> Nat]
        /\ \A m \in Nonces : tries[m[1]] <= tries'[m[1]]
    BY <1>0, <2>1 DEF TypeInv, TypeOK, Nonces
  <2>5. ~Drawn(n) /\ n[2] <= tries'[n[1]] /\ n \in Nonces
    BY <1>0, <2>1, <2>3, <2>4 DEF Drawn, TypeInv, TypeOK, Nonces
  <2>6. \A m \in Nonces : Drawn(m) => m # n /\ m[2] <= tries'[m[1]]
    <3>1. \A m \in Nonces : m[1] \in Procs /\ m[2] \in Nat
      BY DEF Nonces
    <3>2. \A m \in Nonces : tries[m[1]] \in Nat /\ tries'[m[1]] \in Nat
      BY <1>0, <2>4, <3>1 DEF TypeInv, TypeOK
    <3> QED BY <2>4, <2>5, <3>1, <3>2 DEF Drawn
  <2>7. /\ held.kind = "ok" => held.nonce \in Nonces
        /\ \A d \in tmp : d.junk \subseteq Nonces /\ (d.info.kind = "ok" => d.info.nonce \in Nonces)
        /\ junk \subseteq Nonces /\ issued \subseteq Nonces
        /\ \A q \in Procs : mode[q] = "w" => nonce[q] \in Nonces
    BY <1>0 DEF TypeInv, TypeOK, HasNonce, Dirs, Info
  <2> HIDE DEF n, t
  <2>8. mode[p] # "w"
    BY <1>0, <2>1 DEF TryingOutside
  <2>9. \A q \in Procs : mode'[q] = "w" => nonce'[q] = nonce[q]
    BY <1>0, <2>1, <2>8 DEF TypeInv, TypeOK
  <2>10. AllDrawn'
    <3>1. /\ held'.kind = "ok" => held'.nonce[2] <= tries'[held'.nonce[1]]
          /\ \A m \in junk' \cup issued' : m[2] <= tries'[m[1]]
      BY <1>0, <2>1, <2>6, <2>7 DEF AllDrawn
    <3>2. \A d \in tmp' : d.info.kind = "ok" => d.info.nonce[2] <= tries'[d.info.nonce[1]]
      BY <1>0, <2>1, <2>2, <2>3, <2>5, <2>6, <2>7 DEF AllDrawn
    <3>3. \A d \in tmp' : \A m \in d.junk : m[2] <= tries'[m[1]]
      BY <1>0, <2>1, <2>2, <2>6, <2>7 DEF AllDrawn
    <3>4. \A q \in Procs : mode'[q] = "w" => nonce'[q][2] <= tries'[nonce'[q][1]]
      BY <1>0, <2>1, <2>6, <2>7, <2>9 DEF AllDrawn
    <3> QED BY <3>1, <3>2, <3>3, <3>4 DEF AllDrawn, Drawn
  <2>11. HeldApart' /\ NoncesApart'
    BY <1>0, <2>1, <2>2, <2>3, <2>6, <2>7 DEF Apart, HeldApart, NoncesApart, AllDrawn
  <2>12. \A m \in issued : n # m /\ \A q \in Procs : mode[q] = "w" => n # nonce[q]
    BY <1>0, <2>6, <2>7 DEF AllDrawn
  <2>13. \A m : InfoOf(n) = InfoOf(m) => n = m
    BY DEF InfoOf
  <2>14. Taken'
    <3>1. ASSUME NEW d \in tmp', d.kind = "pending", NEW q \in Procs, mode'[q] = "w"
          PROVE  d.info # InfoOf(nonce'[q])
      BY <1>0, <2>1, <2>2, <2>5, <2>6, <2>7, <2>9, <2>13, <3>1 DEF Apart, Taken, AllDrawn
    <3>2. ASSUME NEW d \in tmp', d.kind = "pending", NEW m \in issued'
          PROVE  d.info # InfoOf(m)
      BY <1>0, <2>1, <2>2, <2>12, <2>13, <3>2 DEF Apart, Taken
    <3> QED BY <3>1, <3>2 DEF Taken
  <2>15. HasPending'
    <3>1. PendingDir(p)' = t
      BY <1>0, <2>1 DEF PendingDir, Pending, InfoOf, TypeInv, TypeOK, t
    <3> QED BY <1>0, <2>1, <3>1, OthersPend DEF NonceInv, TypeInv, TypeOK
  <2>16. TryingOutside'
    BY <1>0, <2>1, <2>8 DEF TryingOutside, TypeInv, TypeOK
  <2> QED BY <2>10, <2>11, <2>14, <2>15, <2>16 DEF Apart, Rest
<1> QED BY <1>1, <1>2

(* A pending directory becomes the lock, or ends up inside it. *)
LEMMA NonceRename ==
  ASSUME NonceInv, NEW p \in Procs, RenameIntoPlace(p)
  PROVE  Rest'
<1>0. TypeInv /\ TryingOutside /\ AllDrawn /\ Apart
  BY DEF NonceInv
<1>1. CASE UNCHANGED disk
  BY <1>0, <1>1, NonceQuietStep
     DEF RenameIntoPlace, Goto, At, disk, object, HeldFree, TypeInv, TypeOK, TryingOutside,
         Attempts, Breaking, InfoOf
<1>2. CASE /\ tmp' = tmp \ {PendingDir(p)} /\ Goto(p, "verify") /\ UNCHANGED object
           /\ \/ held' = InfoOf(nonce[p]) /\ junk' = junk
              \/ junk' = junk \cup {nonce[p]} /\ held' = held
  <2>1. /\ pc[p] = "rename" /\ pc' = [pc EXCEPT ![p] = "verify"]
        /\ UNCHANGED <<op, nonce, tries, mode, issued>>
    BY <1>2 DEF Goto, RenameIntoPlace, At, object
  <2>2. PICK t \in tmp : t = PendingDir(p)
    BY <2>1 DEF NonceInv, HasPending, Attempts
  <2>3. t.kind = "pending" /\ t.by = p /\ t.info = InfoOf(nonce[p])
    BY <2>2 DEF PendingDir, Pending
  <2>4. InfoOf(nonce[p]).kind = "ok" /\ InfoOf(nonce[p]).nonce = nonce[p]
    BY DEF InfoOf
  <2>5. AllDrawn'
    BY <1>0, <1>2, <2>1, <2>3, <2>4 DEF AllDrawn, Drawn
  <2>6. NoncesApart' /\ HeldApart'
    <3>1. CASE held' = InfoOf(nonce[p]) /\ junk' = junk
      BY <1>0, <1>2, <2>2, <2>3, <2>4, <3>1 DEF Apart, NoncesApart, HeldApart
    <3>2. CASE junk' = junk \cup {nonce[p]} /\ held' = held
      <4>1. \A i \in Info : i.kind = "ok" /\ i.nonce = nonce[p] => i = InfoOf(nonce[p])
        BY DEF Info, InfoOf
      <4>2. held \in Info /\ \A d \in tmp : d.info \in Info
        BY <1>0 DEF TypeInv, TypeOK, Dirs
      <4> QED BY <1>0, <1>2, <2>2, <2>3, <2>4, <3>2, <4>1, <4>2 DEF Apart, NoncesApart, HeldApart
    <3> QED BY <1>2, <3>1, <3>2
  <2>7. Taken'
    BY <1>0, <1>2, <2>1 DEF Apart, Taken
  <2>8. HasPending'
    BY <1>0, <1>2, <2>1, PendingBy, OthersPend
       DEF NonceInv, TypeInv, TypeOK, Attempts, Breaking
  <2>9. TryingOutside'
    BY <1>0, <2>1 DEF TryingOutside, TypeInv, TypeOK
  <2> QED BY <2>5, <2>6, <2>7, <2>8, <2>9 DEF Apart, Rest
<1> QED BY <1>1, <1>2 DEF RenameIntoPlace, disk

LEMMA NonceNext == NonceInv /\ [Next]_vars => NonceInv'
<1>1. ASSUME NonceInv, NEW p \in Procs, Step(p)
      PROVE  Rest'
  BY <1>1, NonceLocker, NoncePeek, NonceCheck, NonceAway, NonceCreatePending, NonceRename DEF Step
<1>2. ASSUME NonceInv, Next
      PROVE  NonceInv'
  <2>1. TypeInv'
    BY <1>2, TypeNext DEF NonceInv
  <2>2. Rest'
    BY <1>1, <1>2, NonceCall, NonceKill DEF Next
  <2> QED BY <2>1, <2>2 DEF NonceInv, Rest
<1>3. ASSUME NonceInv, UNCHANGED vars
      PROVE  NonceInv'
  <2>1. TypeInv'
    BY <1>3, TypeNext DEF NonceInv
  <2>2. HasPending' /\ TryingOutside' /\ AllDrawn' /\ HeldApart' /\ NoncesApart' /\ Taken'
    BY <1>3 DEF vars, NonceInv, Apart, HasPending, Attempts, Breaking, PendingDir, Pending, InfoOf,
                TryingOutside, AllDrawn, Drawn, HeldApart, NoncesApart, Taken
  <2> QED BY <2>1, <2>2 DEF NonceInv, Apart
<1> QED BY <1>2, <1>3

(* No two directories ever carry one nonce, and no nonce is both a lock and   *)
(* junk inside one, with careless breakers, stealers, tokens and servers      *)
(* whose rename moves a directory inside another.                             *)
THEOREM NoncesStayApart == Spec => []NoncesApart
<1>1. NonceInv => NoncesApart
  BY DEF NonceInv, Apart
<1> QED BY <1>1, NonceInit, NonceNext, PTL DEF Spec

-----------------------------------------------------------------------------
(* A lock that is lost stays lost, and unlock notices. *)

\* "held" changes to another lock only by the rename of its locker.
LEMMA HeldFromPending ==
  ASSUME NonceInv, NEW p \in Procs, Step(p) \/ Call(p) \/ Kill(p), held'.kind = "ok"
  PROVE  held' = held \/ (RenameIntoPlace(p) /\ held' = InfoOf(nonce[p]))
<1>1. CASE Step(p)
  <2>1. ASSUME NEW k, RenameAway(p, k) PROVE held'.kind # "ok"
    BY <2>1 DEF RenameAway, NoInfo
  <2> QED BY <1>1, <2>1
          DEF Step, CreatePendingDir, Create, RenameIntoPlace, Contend, Decide, Verify, WaitLock,
              ForceBreakPeek, ForceBreakRename, ForceBreakCheck, ForceBreakCorruptRename,
              ForceBreakCorruptCheck, BreakRename, Ask, Confirm, ReleaseRename, ReleaseDelete, disk
<1>2. CASE Call(p)
  BY <1>2 DEF Call, LockWrite, BreakLock, Unlock, UnlockLeavingInPlace, LockRead, UnlockRead,
              LeaveInPlace, DontLeaveInPlace, LockWithToken, disk
<1>3. CASE Kill(p)
  BY <1>3, ProcsAssumption DEF Kill, TornInfo
<1> QED BY <1>1, <1>2, <1>3

\* Of a process inside, no step changes the nonce; one that releases owns the lock.
LEMMA InsideStays ==
  ASSUME NonceInv, NEW p \in Procs, NEW q \in Procs, Step(q) \/ Call(q) \/ Kill(q), p \in Inside
  PROVE  /\ nonce'[p] = nonce[p]
         /\ pc'[p] = "rel_rename" /\ pc[p] # "rel_rename" => Own(p)
<1>0. /\ TypeInv /\ pc[p] \in {"idle", "confirm", "rel_rename"} /\ mode[p] = "w"
  BY DEF NonceInv, Inside
<1> USE <1>0 DEF TypeInv, TypeOK, Labels, At, Goto, Finish, Begin
<1>1. CASE q = p /\ Step(q)
  BY <1>1 DEF Step, CreatePendingDir, Create, RenameIntoPlace, Contend, Decide, Verify, WaitLock,
              ForceBreakPeek, ForceBreakRename, ForceBreakCheck, ForceBreakCorruptRename,
              ForceBreakCorruptCheck, BreakRename, Ask, Confirm, CallerUnlocked, ReleaseRename,
              ReleaseDelete
<1>2. CASE q = p /\ (Call(q) \/ Kill(q))
  BY <1>2 DEF Call, LockWrite, BreakLock, Unlock, UnlockLeavingInPlace, LockRead, UnlockRead,
              LeaveInPlace, DontLeaveInPlace, LockWithToken, Kill, object, flow
<1>3. CASE q # p
  <2>1. CASE Step(q)
    <3>1. ASSUME NEW r, NEW dirs, BreakRaises(q, r, dirs) PROVE pc'[p] = pc[p]
      BY <1>3, <3>1 DEF BreakRaises
    <3>2. ASSUME NEW r, BreakReturns(q, r) PROVE pc'[p] = pc[p]
      BY <1>3, <3>2 DEF BreakReturns
    <3>3. pc'[p] = pc[p]
      BY <1>3, <2>1, <3>1, <3>2
         DEF Step, CreatePendingDir, Create, RenameIntoPlace, Contend, Decide, Verify, WaitLock,
             ForceBreakPeek, ForceBreakRename, ForceBreakCheck, ForceBreakCorruptRename,
             ForceBreakCorruptCheck, CheckBroken, BreakRename, Ask, Confirm, CallerUnlocked,
             ReleaseRename, ReleaseDelete
    <3>4. nonce'[p] = nonce[p]
      BY <1>3, <2>1
         DEF Step, CreatePendingDir, Create, RenameIntoPlace, Contend, Decide, Verify, WaitLock,
             ForceBreakPeek, ForceBreakRename, ForceBreakCheck, ForceBreakCorruptRename,
             ForceBreakCorruptCheck, BreakRename, Ask, Confirm, ReleaseRename, ReleaseDelete, object
    <3> QED BY <3>3, <3>4
  <2>2. CASE Call(q) \/ Kill(q)
    BY <1>3, <2>2
       DEF Call, LockWrite, BreakLock, Unlock, UnlockLeavingInPlace, LockRead, UnlockRead,
           LeaveInPlace, DontLeaveInPlace, LockWithToken, Kill, object, flow
  <2> QED BY <1>3, <2>1, <2>2
<1> QED BY <1>1, <1>2, <1>3

(* A token is good for one lock: once that lock is gone, unlocked or broken,  *)
(* nothing that any number of lockers, breakers, bearers, kills and buggy     *)
(* servers do puts it back, and validate_token refuses its token for good.    *)
THEOREM GoneForGood == Spec => StaleTokensAreRefused
<1> DEFINE Refused == \A t \in issued : held # InfoOf(t) => held' # InfoOf(t)
<1>1. ASSUME NonceInv, Next
      PROVE  Refused
  <2> SUFFICES ASSUME NEW t \in issued, held # InfoOf(t), held' = InfoOf(t)
               PROVE  FALSE
    OBVIOUS
  <2>1. PICK q \in Procs : Step(q) \/ Call(q) \/ Kill(q)
    BY <1>1 DEF Next
  <2>2. RenameIntoPlace(q) /\ held' = InfoOf(nonce[q])
    BY <1>1, <2>1, HeldFromPending DEF InfoOf
  <2>3. PendingDir(q) \in tmp
    BY <1>1, <2>2 DEF NonceInv, HasPending, Attempts, RenameIntoPlace, At
  <2> QED BY <1>1, <2>2, <2>3 DEF NonceInv, Apart, Taken, PendingDir, Pending
<1>2. NonceInv /\ [Next]_vars => [Refused]_vars
  <2>1. UNCHANGED vars => [Refused]_vars
    OBVIOUS
  <2> QED BY <1>1, <2>1
<1> QED BY <1>2, NonceInit, NonceNext, PTL DEF Spec, StaleTokensAreRefused

-----------------------------------------------------------------------------
(* Pending directories are cleaned up, where no kill makes "held" unreadable. *)

\* A pending directory is that of a locker still at it, or of a dead process.
PendingOK ==
  \A d \in tmp : d.kind = "pending" =>
    pc[d.by] = "dead" \/ (Attempts(d.by) /\ d = PendingDir(d.by))
LockLabels == {"mkdir", "create", "rename", "contend", "decide", "verify", "wait"}
BreakLabels == {"ask", "fbc_rename", "fbc_check"}
CallsMatch ==
  \A p \in Procs : /\ pc[p] \in LockLabels => op[p] = "lock_write"
                   /\ pc[p] \in BreakLabels => op[p] # "lock_write"
PendingInv == TypeInv /\ held.kind # "corrupt" /\ CallsMatch /\ PendingOK

LEMMA PendingKept ==
  ASSUME PendingOK, NEW p \in Procs,
         \A d \in tmp \cup tmp' : d.by \in Procs,
         \A q \in Procs \ {p} : pc'[q] = pc[q] /\ op'[q] = op[q] /\ nonce'[q] = nonce[q],
         \A d \in tmp' : d.kind = "pending" /\ d.by # p => d \in tmp,
         \A d \in tmp' : d.kind = "pending" /\ d.by = p =>
           pc'[p] = "dead" \/ (Attempts(p)' /\ d = PendingDir(p)')
  PROVE  PendingOK'
<1> SUFFICES ASSUME NEW d \in tmp', d.kind = "pending", d.by # p
             PROVE  pc'[d.by] = "dead" \/ (Attempts(d.by)' /\ d = PendingDir(d.by)')
  BY DEF PendingOK
<1>1. pc[d.by] = "dead" \/ (Attempts(d.by) /\ d = PendingDir(d.by))
  BY DEF PendingOK
<1> QED BY <1>1 DEF Attempts, PendingDir, Pending, InfoOf

\* A step that makes no pending directory, and ends an attempt only by a kill or
\* when the attempt's directory is gone.
LEMMA PendingQuiet ==
  ASSUME PendingInv, NEW p \in Procs, nonce' = nonce, \A d \in tmp' : d.by \in Procs,
         \A q \in Procs \ {p} : pc'[q] = pc[q] /\ op'[q] = op[q],
         \A d \in tmp' : d.kind = "pending" => d \in tmp,
         pc[p] = "dead" => pc'[p] = "dead",
         Attempts(p) => pc'[p] = "dead" \/ Attempts(p)' \/ PendingDir(p) \notin tmp'
  PROVE  PendingOK'
<1>1. \A d \in tmp : d.by \in Procs
  BY DEF PendingInv, TypeInv, TypeOK, Dirs
<1>2. PendingDir(p)' = PendingDir(p)
  BY DEF PendingDir, Pending, InfoOf
<1>3. ASSUME NEW d \in tmp', d.kind = "pending", d.by = p
      PROVE  pc'[p] = "dead" \/ (Attempts(p)' /\ d = PendingDir(p)')
  BY <1>2, <1>3 DEF PendingInv, PendingOK
<1> QED BY <1>1, <1>3, PendingKept DEF PendingInv

LEMMA PendingInit == Init => PendingInv
BY TypeInit DEF Init, PendingInv, CallsMatch, LockLabels, BreakLabels, PendingOK, NoInfo

\* The info file in "held" stays readable, and each call keeps to its own steps.
LEMMA ReadableStays ==
  ASSUME "corrupt" \notin TornKinds, PendingInv, NEW p \in Procs, Step(p) \/ Call(p) \/ Kill(p)
  PROVE  held'.kind # "corrupt" /\ CallsMatch'
<1> USE DEF PendingInv, CallsMatch, LockLabels, BreakLabels, TypeInv, TypeOK, Labels, At, Goto,
            Finish, Begin
<1>1. CASE Step(p)
  <2>1. held'.kind # "corrupt"
    BY <1>1
       DEF Step, CreatePendingDir, Create, RenameIntoPlace, Contend, Decide, Verify, WaitLock,
           ForceBreakPeek, ForceBreakRename, ForceBreakCheck, ForceBreakCorruptRename,
           ForceBreakCorruptCheck, BreakRename, RenameAway, NoInfo, InfoOf, Ask, Confirm,
           ReleaseRename, ReleaseDelete, disk
  <2>2. CASE CreatePendingDir(p) \/ Create(p) \/ RenameIntoPlace(p) \/ Contend(p) \/ Decide(p)
             \/ Verify(p) \/ WaitLock(p) \/ Ask(p) \/ Confirm(p) \/ ReleaseRename(p)
             \/ ReleaseDelete(p)
    <3>1. /\ op' = op /\ \A q \in Procs \ {p} : pc'[q] = pc[q]
          /\ pc'[p] \in BreakLabels => pc[p] = "ask"
          /\ pc'[p] \in LockLabels => pc[p] \in LockLabels
      BY <2>2 DEF CreatePendingDir, Create, RenameIntoPlace, Contend, Decide, Verify, WaitLock, Ask,
                  Confirm, CallerUnlocked, ReleaseRename, ReleaseDelete
    <3> QED BY <2>1, <3>1
  <2>3. CASE ForceBreakPeek(p) \/ ForceBreakCheck(p) \/ ForceBreakCorruptCheck(p)
    <3>1. op' = op /\ \E l \in {"idle", "rename", "fb_rename"} :
            pc' = [pc EXCEPT ![p] = l] /\ (l = "rename" => op[p] = "lock_write")
      BY <2>3 DEF ForceBreakPeek, ForceBreakCheck, ForceBreakCorruptCheck, CheckBroken,
                  BreakRaises, BreakReturns
    <3> QED BY <2>1, <3>1
  <2>4. CASE ForceBreakRename(p) \/ ForceBreakCorruptRename(p)
    BY <2>1, <2>4 DEF ForceBreakRename, ForceBreakCorruptRename, BreakRename, BreakRaises
  <2> QED BY <1>1, <2>1, <2>2, <2>3, <2>4 DEF Step
<1>2. CASE Call(p)
  <2>1. held'.kind # "corrupt"
    BY <1>2 DEF Call, LockWrite, BreakLock, Unlock, UnlockLeavingInPlace, LockRead, UnlockRead,
                LeaveInPlace, DontLeaveInPlace, LockWithToken, disk
  <2>2. CASE LockWrite(p) \/ BreakLock(p) \/ Unlock(p)
    BY <2>1, <2>2 DEF LockWrite, BreakLock, Unlock
  <2>3. \/ LockWrite(p) \/ BreakLock(p) \/ Unlock(p)
        \/ /\ pc' = pc
           /\ pc[p] = "idle" \/ op' = op
           /\ \A q \in Procs \ {p} : op'[q] = op[q]
    BY <1>2 DEF Call, UnlockLeavingInPlace, LockRead, UnlockRead, LeaveInPlace,
                DontLeaveInPlace, LockWithToken, flow
  <2> QED BY <2>1, <2>2, <2>3
<1>3. CASE Kill(p)
  BY <1>3, ProcsAssumption DEF Kill, TornInfo
<1> QED BY <1>1, <1>2, <1>3

LEMMA PendingTypes == PendingInv => \A d \in tmp : d.by \in Procs
BY DEF PendingInv, TypeInv, TypeOK, Dirs

LEMMA PendingCall ==
  ASSUME PendingInv, NEW p \in Procs, Call(p)
  PROVE  PendingOK'
<1> USE DEF PendingInv, TypeInv, TypeOK
<1>1. /\ tmp' = tmp /\ ~Attempts(p)
      /\ \A q \in Procs \ {p} : pc'[q] = pc[q] /\ op'[q] = op[q] /\ nonce'[q] = nonce[q]
      /\ pc[p] # "dead" \/ pc'[p] = "dead"
  BY DEF Call, LockWrite, BreakLock, Unlock, UnlockLeavingInPlace, LockRead, UnlockRead,
         LeaveInPlace, DontLeaveInPlace, LockWithToken, Begin, At, Attempts, Breaking,
         disk, flow, object
<1>2. \A d \in tmp' : d.kind = "pending" /\ d.by = p => pc'[p] = "dead"
  BY <1>1 DEF PendingOK
<1> QED BY <1>1, <1>2, PendingTypes, PendingKept

LEMMA PendingKill ==
  ASSUME PendingInv, NEW p \in Procs, Kill(p)
  PROVE  PendingOK'
BY PendingTypes, PendingQuiet DEF PendingInv, TypeInv, TypeOK, Kill, object

LEMMA PendingLocker ==
  ASSUME PendingInv, NEW p \in Procs,
         \/ Create(p) \/ Contend(p) \/ Decide(p) \/ Verify(p) \/ WaitLock(p) \/ Ask(p)
         \/ Confirm(p) \/ ReleaseDelete(p) \/ RenameIntoPlace(p)
  PROVE  PendingOK'
<1> USE DEF PendingInv, TypeInv, TypeOK, At, Goto, Finish, Attempts, Breaking, CallsMatch,
        LockLabels, BreakLabels
<1>1. nonce' = nonce /\ tmp' \subseteq tmp
  BY DEF Create, Contend, Decide, RemovePendingDir, Verify, WaitLock, Ask, Confirm, ReleaseDelete,
         RenameIntoPlace, disk, object
<1>2. /\ \A q \in Procs \ {p} : pc'[q] = pc[q] /\ op'[q] = op[q]
      /\ pc[p] # "dead"
  BY DEF Create, Contend, Decide, Verify, WaitLock, Ask, Confirm, CallerUnlocked, ReleaseDelete,
         RenameIntoPlace
<1>3. Attempts(p) => Attempts(p)' \/ PendingDir(p) \notin tmp'
  BY DEF Create, Contend, Decide, RemovePendingDir, Verify, WaitLock, Ask, Confirm, CallerUnlocked,
         ReleaseDelete, RenameIntoPlace
<1> QED BY <1>1, <1>2, <1>3, PendingTypes, PendingQuiet

\* A break that raises takes the pending directory of a locker with it.
LEMMA PendingRaises ==
  ASSUME PendingInv, NEW p \in Procs, pc[p] # "dead", nonce' = nonce,
         NEW r, NEW dirs, BreakRaises(p, r, dirs),
         \A d \in dirs : d.by \in Procs /\ (d.kind = "pending" => d \in tmp),
         pc[p] \notin {"rename", "contend", "decide"}
  PROVE  PendingOK'
<1>1. /\ op[p] = "lock_write" => tmp' = dirs \ {PendingDir(p)}
      /\ tmp' \subseteq dirs
      /\ pc' = [pc EXCEPT ![p] = "idle"] /\ op' = op
  BY DEF BreakRaises, Finish
<1>2. Attempts(p) => PendingDir(p) \notin tmp'
  BY <1>1 DEF Attempts
<1>3. \A q \in Procs \ {p} : pc'[q] = pc[q] /\ op'[q] = op[q]
  BY <1>1 DEF PendingInv, TypeInv, TypeOK
<1> QED BY <1>1, <1>2, <1>3, PendingQuiet

\* A break that goes on, or returns to its locker, keeps it.
LEMMA PendingGoesOn ==
  ASSUME PendingInv, NEW p \in Procs, pc[p] # "dead", nonce' = nonce,
         \A d \in tmp' : d.by \in Procs /\ (d.kind = "pending" => d \in tmp),
         pc[p] \notin {"rename", "contend", "decide"},
         \/ \E r : BreakReturns(p, r)
         \/ \E l \in {"fb_rename", "fb_check"} : Goto(p, l)
         \/ Goto(p, "fbc_check") /\ pc[p] = "fbc_rename"
  PROVE  PendingOK'
<1>1. /\ \A q \in Procs \ {p} : pc'[q] = pc[q]
      /\ op' = op
      /\ op[p] = "lock_write" =>
           pc'[p] \in {"rename", "fb_rename", "fb_check"} \/ pc[p] = "fbc_rename"
  BY DEF BreakReturns, Goto, Finish, PendingInv, TypeInv, TypeOK
<1>2. Attempts(p) => Attempts(p)'
  BY <1>1 DEF Attempts, Breaking, PendingInv, CallsMatch, BreakLabels
<1> QED BY <1>1, <1>2, PendingQuiet

LEMMA PendingBreaker ==
  ASSUME PendingInv, NEW p \in Procs,
         \/ ForceBreakPeek(p) \/ ForceBreakRename(p) \/ ForceBreakCheck(p)
         \/ ForceBreakCorruptRename(p) \/ ForceBreakCorruptCheck(p)
  PROVE  PendingOK'
<1>1. pc[p] \in {"fb_peek", "fb_rename", "fb_check", "fbc_rename", "fbc_check"} /\ nonce' = nonce
  BY DEF ForceBreakPeek, ForceBreakRename, ForceBreakCheck, ForceBreakCorruptRename,
         ForceBreakCorruptCheck, BreakRename, At, object
<1>2. \A d \in tmp : d.by \in Procs
  BY PendingTypes
<1>3. CASE ForceBreakPeek(p)
  <2>1. CASE \E r : BreakRaises(p, r, tmp)
    BY <1>1, <1>2, <2>1, PendingRaises
  <2>2. CASE tmp' = tmp /\ (BreakReturns(p, "AttributeError") \/ Goto(p, "fb_rename"))
    BY <1>1, <1>2, <2>2, PendingGoesOn
  <2> QED BY <1>3, <2>1, <2>2 DEF ForceBreakPeek
<1>4. ASSUME NEW from \in {"fb_rename", "fbc_rename"}, NEW to,
             BreakRename(p, from, to),
             to = "fb_check" \/ (to = "fbc_check" /\ from = "fbc_rename")
      PROVE  PendingOK'
  <2>1. CASE BreakRaises(p, "NoSuchFile", tmp)
    BY <1>1, <1>2, <2>1, PendingRaises
  <2>2. CASE RenameAway(p, "broken") /\ Goto(p, to)
    <3>1. \A d \in tmp' : d.by \in Procs /\ (d.kind = "pending" => d \in tmp)
      BY <1>2, <2>2 DEF RenameAway
    <3> QED BY <1>1, <1>4, <2>2, <3>1, PendingGoesOn DEF BreakRename, At
  <2> QED BY <1>4, <2>1, <2>2 DEF BreakRename
<1>5. CASE ForceBreakCheck(p) \/ ForceBreakCorruptCheck(p)
  <2>1. PICK d \in Moved(p, "broken") :
            CheckBroken(p, d) \/ BreakRaises(p, "LockCorrupt", Abandon(d))
    BY <1>5 DEF ForceBreakCheck, ForceBreakCorruptCheck
  <2>2. \A e \in Abandon(d) : e.by \in Procs /\ (e.kind = "pending" => e \in tmp)
    <3>1. d \in tmp /\ d \in Dirs
      BY DEF Moved, PendingInv, TypeInv, TypeOK
    <3> QED BY <1>2, <3>1 DEF Abandon, Dirs
  <2>3. CASE \E r : BreakRaises(p, r, Abandon(d))
    BY <1>1, <2>2, <2>3, PendingRaises
  <2>4. CASE tmp' = tmp \ {d} /\ BreakReturns(p, "ok")
    BY <1>1, <1>2, <2>4, PendingGoesOn
  <2> QED BY <2>1, <2>3, <2>4 DEF CheckBroken
<1> QED BY <1>3, <1>4, <1>5 DEF ForceBreakRename, ForceBreakCorruptRename

LEMMA PendingCreate ==
  ASSUME PendingInv, NEW p \in Procs, CreatePendingDir(p) \/ ReleaseRename(p)
  PROVE  PendingOK'
<1> USE DEF PendingInv, TypeInv, TypeOK, At, Goto, Finish, Attempts, Breaking
<1>1. CASE ReleaseRename(p) \/ (CreatePendingDir(p) /\ ~lockdir)
  <2>1. \A d \in tmp' : d.by \in Procs /\ (d.kind = "pending" => d \in tmp)
    BY <1>1, PendingTypes DEF ReleaseRename, CreatePendingDir, RenameAway, disk
  <2>2. /\ nonce' = nonce /\ op' = op /\ pc[p] \in {"rel_rename", "mkdir"}
        /\ \A q \in Procs \ {p} : pc'[q] = pc[q]
    BY <1>1 DEF ReleaseRename, CreatePendingDir, CallerUnlocked, object
  <2> QED BY <2>1, <2>2, PendingQuiet
<1>2. CASE CreatePendingDir(p) /\ lockdir
  <2> DEFINE t == Pending(p, FreshNonce(p))
  <2>1. /\ tmp' = tmp \cup {t} /\ t.by = p
        /\ pc[p] = "mkdir" /\ pc' = [pc EXCEPT ![p] = "rename"] /\ op' = op
        /\ \A q \in Procs \ {p} : nonce'[q] = nonce[q]
        /\ nonce'[p] = FreshNonce(p)
    BY <1>2 DEF CreatePendingDir, Pending
  <2>2. t = PendingDir(p)' /\ Attempts(p)'
    BY <2>1 DEF PendingDir, Pending, InfoOf
  <2> HIDE DEF t
  <2>3. \A d \in tmp : d.kind = "pending" => d.by # p
    BY <2>1 DEF PendingOK
  <2>4. \A d \in tmp' : d.kind = "pending" /\ d.by # p => d \in tmp
    BY <2>1
  <2>5. \A d \in tmp' : d.kind = "pending" /\ d.by = p => Attempts(p)' /\ d = PendingDir(p)'
    BY <2>1, <2>2, <2>3
  <2> QED BY <2>1, <2>4, <2>5, PendingTypes, PendingKept
<1> QED BY <1>1, <1>2

LEMMA PendingNext ==
  ASSUME "corrupt" \notin TornKinds
  PROVE  PendingInv /\ [Next]_vars => PendingInv'
<1>1. ASSUME PendingInv, Next
      PROVE  PendingInv'
  <2>1. PICK p \in Procs : Step(p) \/ Call(p) \/ Kill(p)
    BY <1>1 DEF Next
  <2>2. PendingOK'
    BY <1>1, <2>1, PendingCall, PendingKill, PendingLocker, PendingBreaker, PendingCreate DEF Step
  <2>3. held'.kind # "corrupt" /\ CallsMatch'
    BY <1>1, <2>1, ReadableStays
  <2> QED BY <1>1, <2>2, <2>3, TypeNext DEF PendingInv
<1>2. ASSUME PendingInv, UNCHANGED vars
      PROVE  PendingInv'
  <2>1. TypeInv'
    BY <1>2, TypeNext DEF PendingInv
  <2> QED BY <1>2, <2>1 DEF PendingInv, CallsMatch, PendingOK, Attempts, PendingDir, Pending,
                            InfoOf, vars
<1> QED BY <1>1, <1>2

(* A lock attempt that ends without being killed has removed its pending      *)
(* directory, in whatever way it ends and whoever breaks which lock meanwhile; *)
(* only a kill that leaves an unreadable info file makes a live locker leave   *)
(* one behind.                                                                *)
THEOREM NoPendingStays ==
  ASSUME "corrupt" \notin TornKinds
  PROVE  Spec => []NoPendingLeftBehind
<1>1. PendingInv => NoPendingLeftBehind
  BY PendingTypes
     DEF PendingInv, PendingOK, CallsMatch, BreakLabels, NoPendingLeftBehind, Attempts,
         Attempting, Breaking
<1> QED BY <1>1, PendingInit, PendingNext, PTL DEF Spec

-----------------------------------------------------------------------------
(* Tokens, where nobody breaks locks. *)

\* Nobody breaks locks: no break-lock, and stealers cannot tell their own host.
NoBreaks == Users = {} /\ \A p \in Stealers : HostName[p] = LocalHost

NoBreaker ==
  \A p \in Procs : /\ pc[p] \notin Breaking \cup {"ask", "fbc_rename", "fbc_check"}
                   /\ pc[p] \in {"confirm", "rel_rename"} => mode[p] = "w"
Torn == held.kind \in {"empty", "corrupt"}
Unbroken == \A p \in Inside : held = InfoOf(nonce[p]) \/ Torn
UnbrokenInv == NonceInv /\ NoBreaker /\ Unbroken /\ SharedByToken /\ SoleReleaser

LEMMA UnbrokenInit == Init => UnbrokenInv
BY NonceInit DEF Init, UnbrokenInv, NoBreaker, Unbroken, SharedByToken, SoleReleaser, Inside, Breaking

LEMMA NoBreakerStays ==
  ASSUME NoBreaks, UnbrokenInv, NEW p \in Procs, Step(p) \/ Call(p) \/ Kill(p)
  PROVE  NoBreaker'
<1> USE DEF NoBreaker, Breaking, At, Goto, Finish, Begin
<1>0. TypeOK /\ NoBreaker
  BY DEF UnbrokenInv, NonceInv, TypeInv
<1>1. CASE Step(p)
  <2>1. \/ CreatePendingDir(p) \/ Create(p) \/ RenameIntoPlace(p) \/ Contend(p) \/ Decide(p)
        \/ Verify(p) \/ WaitLock(p) \/ Confirm(p) \/ ReleaseRename(p) \/ ReleaseDelete(p)
    BY <1>0, <1>1 DEF Step, ForceBreakPeek, ForceBreakRename, ForceBreakCheck,
                      ForceBreakCorruptRename, ForceBreakCorruptCheck, BreakRename, Ask
  <2>2. ~(p \in Stealers /\ KnownDead(p, seen[p]))
    BY DEF NoBreaks, KnownDead
  <2>3. \A q \in Procs \ {p} : pc'[q] = pc[q] /\ mode'[q] = mode[q]
    BY <1>0, <2>1 DEF CreatePendingDir, Create, RenameIntoPlace, Contend, Decide, Verify, WaitLock,
                      Confirm, ReleaseRename, ReleaseDelete, CallerUnlocked, TypeOK, object
  <2>4. /\ pc'[p] \notin Breaking \cup {"ask", "fbc_rename", "fbc_check"}
        /\ pc'[p] \in {"confirm", "rel_rename"} => mode'[p] = "w"
    BY <1>0, <2>1, <2>2 DEF CreatePendingDir, Create, RenameIntoPlace, Contend, Decide, Verify,
                      WaitLock, Confirm, ReleaseRename, ReleaseDelete, CallerUnlocked, TypeOK,
                      object
  <2> QED BY <1>0, <2>3, <2>4
<1>2. CASE Call(p)
  <2>1. CASE LockWrite(p) \/ BreakLock(p) \/ Unlock(p)
    BY <1>0, <2>1 DEF NoBreaks, LockWrite, BreakLock, Unlock, TypeOK, object
  <2>2. CASE pc' = pc /\ pc[p] = "idle" /\ \A q \in Procs \ {p} : mode'[q] = mode[q]
    BY <1>0, <2>2
  <2>3. LockWrite(p) \/ BreakLock(p) \/ Unlock(p)
        \/ (pc' = pc /\ pc[p] = "idle" /\ \A q \in Procs \ {p} : mode'[q] = mode[q])
    BY <1>0, <1>2 DEF Call, UnlockLeavingInPlace, LockRead, UnlockRead, LeaveInPlace,
                      DontLeaveInPlace, LockWithToken, TypeOK, flow
  <2> QED BY <2>1, <2>2, <2>3
<1>3. CASE Kill(p)
  BY <1>0, <1>3 DEF Kill, TypeOK, object
<1> QED BY <1>1, <1>2, <1>3

\* How "held" and those inside change together.
LEMMA UnbrokenShape ==
  ASSUME NoBreaks, UnbrokenInv, NEW p \in Procs, Step(p) \/ Call(p) \/ Kill(p)
  PROVE  \/ held' = held /\ Inside' \subseteq Inside
         \/ held' = held /\ Inside' \subseteq Inside \cup {p} /\ held = InfoOf(nonce'[p])
         \/ Inside' \subseteq Inside /\ held.kind = "none"
         \/ Inside' \subseteq Inside /\ Torn'
         \/ Inside' \subseteq Inside \ {p} /\ p \in Inside /\ pc[p] = "rel_rename"
<1> USE DEF Inside, At, Goto, Finish, Begin
<1>0. TypeOK /\ NoBreaker
  BY DEF UnbrokenInv, NonceInv, TypeInv
<1>1. CASE Step(p)
  <2>1. \/ CreatePendingDir(p) \/ Create(p) \/ RenameIntoPlace(p) \/ Contend(p) \/ Decide(p)
        \/ Verify(p) \/ WaitLock(p) \/ Confirm(p) \/ ReleaseRename(p) \/ ReleaseDelete(p)
    BY <1>0, <1>1 DEF Step, ForceBreakPeek, ForceBreakRename, ForceBreakCheck, NoBreaker, Breaking,
                      ForceBreakCorruptRename, ForceBreakCorruptCheck, BreakRename, Ask
  <2>2. TryingOutside
    BY DEF UnbrokenInv, NonceInv
  <2>3. CASE RenameIntoPlace(p)
    <3>1. Inside' \subseteq Inside
      BY <1>0, <2>2, <2>3 DEF RenameIntoPlace, TryingOutside, TypeOK, object
    <3> QED BY <2>3, <3>1 DEF RenameIntoPlace, HeldFree, disk
  <2>4. CASE ReleaseRename(p)
    <3>1. p \in Inside /\ pc[p] = "rel_rename" /\ Inside' \subseteq Inside \ {p}
      BY <1>0, <2>4 DEF ReleaseRename, CallerUnlocked, NoBreaker, TypeOK
    <3> QED BY <3>1
  <2>5. CASE Verify(p)
    <3>1. held' = held /\ nonce' = nonce /\ (Own(p) => held = InfoOf(nonce[p]))
      BY <1>0, <2>5 DEF Verify, Own, InfoOf, TypeOK, Info, disk, object
    <3>2. Inside' \subseteq Inside \cup {p} /\ (~Own(p) => Inside' \subseteq Inside)
      BY <1>0, <2>2, <2>5 DEF Verify, TryingOutside, TypeOK, object
    <3> QED BY <3>1, <3>2
  <2>6. CASE CreatePendingDir(p) \/ Create(p) \/ Contend(p) \/ Decide(p) \/ WaitLock(p)
    <3>1. held' = held /\ mode' = mode /\ mode[p] # "w"
      BY <2>2, <2>6 DEF CreatePendingDir, Create, Contend, Decide, WaitLock, TryingOutside,
                        disk, object
    <3>2. \A q \in Procs \ {p} : pc'[q] = pc[q]
      BY <1>0, <2>6 DEF CreatePendingDir, Create, Contend, Decide, WaitLock, TypeOK
    <3> QED BY <3>1, <3>2
  <2>7. CASE Confirm(p) \/ ReleaseDelete(p)
    <3>1. held' = held /\ \A q \in Procs \ {p} : pc'[q] = pc[q] /\ mode'[q] = mode[q]
      BY <1>0, <2>7 DEF Confirm, ReleaseDelete, CallerUnlocked, TypeOK, disk
    <3>2. mode'[p] # "w" \/ (pc[p] = "confirm" /\ mode[p] = "w")
      BY <1>0, <2>7 DEF Confirm, ReleaseDelete, CallerUnlocked, TypeOK, NoBreaker
    <3> QED BY <3>1, <3>2
  <2> QED BY <2>1, <2>3, <2>4, <2>5, <2>6, <2>7
<1>2. CASE Call(p)
  <2>1. CASE \E t \in issued : LockWithToken(p, t)
    <3>1. PICK t \in issued : LockWithToken(p, t)
      BY <2>1
    <3>2. held' = held /\ Inside' \subseteq Inside \cup {p}
      BY <1>0, <3>1 DEF LockWithToken, TypeOK, disk
    <3>3. CASE mode'[p] = "w" /\ nonce'[p] = t /\ held.kind = "ok" /\ held.nonce = t
      <4>1. held = InfoOf(t)
        BY <1>0, <3>3 DEF TypeOK, Info, InfoOf
      <4> QED BY <3>2, <3>3, <4>1
    <3>4. CASE UNCHANGED mode
      <4>1. Inside' \subseteq Inside
        BY <3>1, <3>4 DEF LockWithToken
      <4> QED BY <3>2, <4>1
    <3> QED BY <1>0, <3>1, <3>3, <3>4 DEF LockWithToken, TypeOK
  <2>2. CASE LockWrite(p) \/ BreakLock(p) \/ Unlock(p) \/ UnlockLeavingInPlace(p)
    <3>1. held' = held /\ \A q \in Procs \ {p} : pc'[q] = pc[q] /\ mode'[q] = mode[q]
      BY <1>0, <2>2 DEF LockWrite, BreakLock, Unlock, UnlockLeavingInPlace, TypeOK, disk, object
    <3>2. mode'[p] = "w" => mode[p] = "w" /\ pc[p] = "idle"
      BY <1>0, <2>2 DEF LockWrite, BreakLock, Unlock, UnlockLeavingInPlace, TypeOK, object
    <3> QED BY <3>1, <3>2
  <2>3. CASE LockRead(p) \/ UnlockRead(p) \/ LeaveInPlace(p) \/ DontLeaveInPlace(p)
    BY <1>0, <2>3 DEF LockRead, UnlockRead, LeaveInPlace, DontLeaveInPlace, TypeOK, disk, flow
  <2> QED BY <1>2, <2>1, <2>2, <2>3 DEF Call
<1>3. CASE Kill(p)
  <2>1. Inside' \subseteq Inside /\ (held' = held \/ Torn')
    BY <1>0, <1>3, ProcsAssumption DEF Kill, Torn, TornInfo, TypeOK, object
  <2> QED BY <2>1
<1> QED BY <1>1, <1>2, <1>3

LEMMA UnbrokenNext ==
  ASSUME NoBreaks
  PROVE  UnbrokenInv /\ [Next /\ SoleReleaser']_vars => UnbrokenInv'
<1>1. ASSUME UnbrokenInv, NEW p \in Procs, Step(p) \/ Call(p) \/ Kill(p)
      PROVE  Unbroken' /\ SharedByToken'
  <2>1. Unbroken /\ SharedByToken /\ SoleReleaser /\ NonceInv
    BY <1>1 DEF UnbrokenInv
  <2>2. \A q \in Inside : nonce'[q] = nonce[q]
    <3>1. \A q \in Inside : q \in Procs
      BY DEF Inside
    <3> QED BY <1>1, <2>1, <3>1, InsideStays
  <2>3. held.kind = "none" => Inside = {}
    BY <2>1 DEF Unbroken, Torn, InfoOf
  <2>4. CASE held' = held /\ Inside' \subseteq Inside
    BY <2>1, <2>2, <2>4 DEF Unbroken, SharedByToken, Torn
  <2>5. CASE held' = held /\ Inside' \subseteq Inside \cup {p} /\ held = InfoOf(nonce'[p])
    <3>1. \A q \in Inside' : held = InfoOf(nonce'[q])
      BY <2>1, <2>2, <2>5 DEF Unbroken, Torn, InfoOf
    <3>2. \A q, r \in Inside' : nonce'[q] = nonce'[r]
      BY <3>1 DEF InfoOf
    <3> QED BY <2>5, <3>1, <3>2 DEF Unbroken, SharedByToken
  <2>6. CASE Inside' \subseteq Inside /\ held.kind = "none"
    BY <2>3, <2>6 DEF Unbroken, SharedByToken
  <2>7. CASE Inside' \subseteq Inside /\ Torn'
    BY <2>1, <2>2, <2>7 DEF Unbroken, SharedByToken
  <2>8. CASE Inside' \subseteq Inside \ {p} /\ p \in Inside /\ pc[p] = "rel_rename"
    <3>1. \A q \in Inside : q = p
      BY <2>1, <2>8 DEF SharedByToken, SoleReleaser, Inside
    <3>2. Inside' = {}
      BY <2>8, <3>1
    <3> QED BY <3>2 DEF Unbroken, SharedByToken
  <2> QED BY <1>1, <2>4, <2>5, <2>6, <2>7, <2>8, UnbrokenShape
<1>2. ASSUME UnbrokenInv, UNCHANGED vars
      PROVE  NoBreaker' /\ Unbroken' /\ SharedByToken' /\ SoleReleaser'
  BY <1>2 DEF UnbrokenInv, NoBreaker, Unbroken, Torn, SharedByToken, SoleReleaser, Inside, vars
<1>3. UnbrokenInv /\ [Next]_vars => NonceInv'
  BY NonceNext DEF UnbrokenInv
<1>4. ASSUME UnbrokenInv, Next
      PROVE  NoBreaker'
  BY <1>4, NoBreakerStays DEF Next
<1> QED BY <1>1, <1>2, <1>3, <1>4 DEF Next, UnbrokenInv

(* What tokens promise, for objects that do their part (SoleReleaser), where  *)
(* nobody breaks locks: there is one lock at a time and all who have it bear  *)
(* its token, however many objects are given it and in whatever order they    *)
(* lock and unlock, with kills, torn info files and buggy servers.            *)
THEOREM OneLockAtATime ==
  ASSUME NoBreaks
  PROVE  TokenSpec => []SharedByToken
<1>1. UnbrokenInv => SharedByToken
  BY DEF UnbrokenInv
<1>2. UnbrokenInv /\ [Next /\ SoleReleaser']_vars => UnbrokenInv'
  BY UnbrokenNext
<1> QED BY <1>1, <1>2, UnbrokenInit, PTL DEF TokenSpec
=============================================================================
