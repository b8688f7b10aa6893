----------------------------- MODULE PackProofs -----------------------------
(***************************************************************************)
(* Theorems about PackCollection, for any processes, revisions and number  *)
(* of packs: type correctness always, and, where no two processes come up  *)
(* with the very same pack file and nobody fails to list obsolete_packs/,  *)
(* that concurrent savers of pack-names lose nothing and that a pack's     *)
(* files outlive its name.                                                 *)
(***************************************************************************)
EXTENDS PackCollection, TLAPS

USE DEF vars, mvars, disk, flow, memory, group, work, history, At, Goto, Set

-----------------------------------------------------------------------------
(* Types *)

\* PackTypeOK with one conjunct for each variable.
TypeInv ==
  /\ lock \in Procs \cup {Free, Lost} /\ inside \subseteq alive /\ alive \subseteq Procs
  /\ names \subseteq PackNames /\ packs \subseteq PackNames /\ obsolete \subseteq PackNames
  /\ upload \subseteq PackNames /\ made \subseteq PackNames
  /\ pc \in [Procs -> Labels] /\ op \in [Procs -> {"none", "commit", "pack"}]
  /\ failed \subseteq Procs
  /\ mem \in [Procs -> SUBSET PackNames] /\ atLoad \in [Procs -> SUBSET PackNames]
  /\ resumed \in [Procs -> SUBSET PackNames] /\ plan \in [Procs -> SUBSET PackNames]
  /\ todo \in [Procs -> SUBSET PackNames] /\ merged \in [Procs -> SUBSET PackNames]
  /\ new \in [Procs -> SUBSET Revs] /\ clear \in [Procs -> BOOLEAN]
  /\ published \subseteq Revs

LEMMA TypeInvIsTypeOK == TypeInv <=> PackTypeOK
<1>1. TypeInv => PackTypeOK
  BY DEF TypeInv, PackTypeOK, MutexTypeOK
<1>2. PackTypeOK => TypeInv
  BY DEF TypeInv, PackTypeOK, MutexTypeOK
<1> QED
  BY <1>1, <1>2

\* One process's part of a function changes.
LEMMA SetType ==
  ASSUME NEW V, NEW f \in [Procs -> V], NEW p \in Procs, NEW v \in V
  PROVE  /\ [f EXCEPT ![p] = v] \in [Procs -> V]
         /\ [f EXCEPT ![p] = v][p] = v
         /\ \A q \in Procs : q # p => [f EXCEPT ![p] = v][q] = f[q]
OBVIOUS

LEMMA RevsOfType ==
  ASSUME NEW S, S \subseteq PackNames
  PROVE  RevsOf(S) \subseteq Revs
BY DEF RevsOf, PackNames

\* A pack gets a name that tells its revisions.
LEMMA NewNameFacts ==
  ASSUME NEW R, R \subseteq Revs, NewNames(R) # {}
  PROVE  /\ NewName(R) \in PackNames /\ NewName(R).revs = R
         /\ ~SameBytes => NewName(R) \notin made
<1>1. NewName(R) \in NewNames(R)
  BY DEF NewName
<1>2. QED
  BY <1>1 DEF NewNames, PackNames

LEMMA DiskNodesType ==
  ASSUME TypeInv, NEW p \in Procs
  PROVE  DiskNodes(p) \in SUBSET PackNames
BY DEF TypeInv, DiskNodes

LEMMA TypeInit == PInit => TypeInv
BY DEF PInit, MInit, TypeInv, Labels

\* The types of what Return and ReloadPackNames leave.
LEMMA ReturnType ==
  ASSUME TypeInv, NEW p \in Procs, Return(p)
  PROVE  /\ pc' \in [Procs -> Labels] /\ op' \in [Procs -> {"none", "commit", "pack"}]
         /\ plan' \in [Procs -> SUBSET PackNames] /\ todo' \in [Procs -> SUBSET PackNames]
         /\ merged' \in [Procs -> SUBSET PackNames] /\ clear' \in [Procs -> BOOLEAN]
<1>1. clear' \in [Procs -> BOOLEAN]
  BY SetType DEF Return, TypeInv
<1>2. QED
  BY <1>1 DEF Return, TypeInv, Labels

LEMMA CompleteType ==
  ASSUME TypeInv, NEW p \in Procs, Complete(p)
  PROVE  /\ pc' \in [Procs -> Labels] /\ op' \in [Procs -> {"none", "commit", "pack"}]
         /\ plan' \in [Procs -> SUBSET PackNames] /\ todo' \in [Procs -> SUBSET PackNames]
         /\ merged' \in [Procs -> SUBSET PackNames] /\ clear' \in [Procs -> BOOLEAN]
BY ReturnType DEF Complete, TypeInv, Labels

LEMMA ReloadType ==
  ASSUME TypeInv, NEW p \in Procs, ReloadPackNames(p)
  PROVE  mem' \in [Procs -> SUBSET PackNames] /\ atLoad' \in [Procs -> SUBSET PackNames]
BY DiskNodesType DEF ReloadPackNames, TypeInv

LEMMA ReloadOrRaiseType ==
  ASSUME TypeInv, NEW p \in Procs, NEW l \in Labels, ReloadOrRaise(p, l)
  PROVE  /\ mem' \in [Procs -> SUBSET PackNames] /\ atLoad' \in [Procs -> SUBSET PackNames]
         /\ pc' \in [Procs -> Labels] /\ op' \in [Procs -> {"none", "commit", "pack"}]
         /\ plan' \in [Procs -> SUBSET PackNames] /\ todo' \in [Procs -> SUBSET PackNames]
         /\ merged' \in [Procs -> SUBSET PackNames] /\ clear' \in [Procs -> BOOLEAN]
         /\ failed' \subseteq Procs
<1>1. CASE Restart(p, l)
  BY <1>1, ReloadType DEF Restart, TypeInv
<1>2. CASE Raise(p)
  BY <1>2, ReloadType, ReturnType DEF Raise, TypeInv
<1> QED
  BY <1>1, <1>2 DEF ReloadOrRaise

\* The calls.
LEMMA TypeCall ==
  ASSUME TypeInv, NEW p \in Procs, Call(p)
  PROVE  TypeInv'
<1>1. CASE Lock(p)
  BY <1>1, ReloadType DEF Lock, TypeInv, Labels
<1>2. CASE Unlock(p)
  BY <1>2 DEF Unlock, TypeInv, Labels
<1>3. CASE ReadIndex(p)
  <2>1. PICK x \in mem[p] :
          \/ /\ Goto(p, "reading") /\ todo' = Set(todo, p, {x})
             /\ UNCHANGED <<memory, op, failed, plan, merged, clear>>
          \/ ReloadOrRaise(p, "locked")
    BY <1>3 DEF ReadIndex
  <2>2. x \in PackNames /\ "locked" \in Labels
    BY DEF TypeInv, Labels
  <2>3. CASE ReloadOrRaise(p, "locked")
    BY <1>3, <2>2, <2>3, ReloadOrRaiseType DEF ReadIndex, TypeInv
  <2>4. CASE /\ Goto(p, "reading") /\ todo' = Set(todo, p, {x})
             /\ UNCHANGED <<memory, op, failed, plan, merged, clear>>
    BY <1>3, <2>2, <2>4 DEF ReadIndex, TypeInv, Labels
  <2> QED
    BY <2>1, <2>3, <2>4
<1>4. CASE ReadOtherIndex(p)
  <2>1. "reading" \in Labels
    BY DEF Labels
  <2> QED
    BY <1>4, <2>1, ReloadOrRaiseType DEF ReadOtherIndex, TypeInv
<1>5. CASE StartWriteGroup(p)
  BY <1>5 DEF StartWriteGroup, TypeInv, Labels
<1>6. CASE Insert(p)
  BY <1>6 DEF Insert, TypeInv
<1>7. CASE AbortWriteGroup(p)
  BY <1>7 DEF AbortWriteGroup, TypeInv, Labels
<1>8. CASE SuspendWriteGroup(p)
  BY <1>8, NewNameFacts DEF SuspendWriteGroup, TypeInv, Labels
<1>9. CASE ResumeWriteGroup(p)
  BY <1>9 DEF ResumeWriteGroup, TypeInv, Labels
<1>10. CASE CommitWriteGroup(p)
  BY <1>10, NewNameFacts DEF CommitWriteGroup, TypeInv, Labels
<1>11. CASE Pack(p)
  BY <1>11 DEF Pack, TypeInv, Labels
<1> QED
  BY <1>1, <1>2, <1>3, <1>4, <1>5, <1>6, <1>7, <1>8, <1>9, <1>10, <1>11 DEF Call

\* The steps of a call that has started.
LEMMA TypeStep ==
  ASSUME TypeInv, NEW p \in Procs, Step(p)
  PROVE  TypeInv'
<1>1. CASE ReadData(p)
  <2>1. PICK x \in todo[p] :
          \/ Return(p) /\ UNCHANGED <<memory, failed>>
          \/ ReloadOrRaise(p, "locked")
          \/ ReloadPackNames(p) /\ Return(p) /\ UNCHANGED failed
    BY <1>1 DEF ReadData
  <2>2. "locked" \in Labels
    BY DEF Labels
  <2>3. CASE Return(p) /\ UNCHANGED <<memory, failed>>
    BY <1>1, <2>3, ReturnType DEF ReadData, TypeInv
  <2>4. CASE ReloadOrRaise(p, "locked")
    BY <1>1, <2>2, <2>4, ReloadOrRaiseType DEF ReadData, TypeInv
  <2>5. CASE ReloadPackNames(p) /\ Return(p) /\ UNCHANGED failed
    BY <1>1, <2>5, ReturnType, ReloadType DEF ReadData, TypeInv
  <2> QED
    BY <2>1, <2>3, <2>4, <2>5
<1>2. CASE NoAutopack(p)
  <2>1. clear' \in [Procs -> BOOLEAN]
    BY <1>2, SetType DEF NoAutopack, TypeInv
  <2> QED
    BY <1>2, <2>1 DEF NoAutopack, TypeInv, Labels
<1>3. CASE PlanPacking(p)
  <2>1. clear' \in [Procs -> BOOLEAN]
    BY <1>3, SetType DEF PlanPacking, TypeInv
  <2> QED
    BY <1>3, <2>1 DEF PlanPacking, TypeInv, Labels
<1>4. CASE CopyPack(p)
  <2>1. PICK x \in todo[p] :
          \/ /\ todo' = Set(todo, p, todo[p] \ {x})
             /\ UNCHANGED <<memory, flow, plan, merged, clear>>
          \/ \E l \in {"plan", "replan"} : ReloadOrRaise(p, l)
          \/ Unretried(p)
    BY <1>4 DEF CopyPack
  <2>2. {"plan", "replan"} \subseteq Labels
    BY DEF Labels
  <2>3. ASSUME NEW l \in {"plan", "replan"}, ReloadOrRaise(p, l) PROVE TypeInv'
    BY <1>4, <2>2, <2>3, ReloadOrRaiseType DEF CopyPack, TypeInv
  <2>5. CASE Unretried(p)
    BY <1>4, <2>5, ReturnType DEF CopyPack, Unretried, TypeInv
  <2>4. CASE /\ todo' = Set(todo, p, todo[p] \ {x})
             /\ UNCHANGED <<memory, flow, plan, merged, clear>>
    BY <1>4, <2>4 DEF CopyPack, TypeInv
  <2> QED
    BY <2>1, <2>3, <2>4, <2>5
<1>5. CASE FinishPack(p)
  <2>1. RevsOf(plan[p]) \subseteq Revs
    BY RevsOfType DEF TypeInv
  <2> QED
    BY <1>5, <2>1, NewNameFacts DEF FinishPack, TypeInv, Labels
<1>6. CASE PackExists(p)
  <2>1. RevsOf(plan[p]) \subseteq Revs
    BY RevsOfType DEF TypeInv
  <2> QED
    BY <1>6, <2>1, NewNameFacts, ReturnType DEF PackExists, TypeInv
<1>7. CASE AlreadyPacked(p)
  BY <1>7 DEF AlreadyPacked, TypeInv, Labels
<1>8. CASE CleanObsolete(p)
  BY <1>8, ReturnType DEF CleanObsolete, TypeInv
<1>9. CASE LockNames(p)
  BY <1>9 DEF LockNames, Take, TypeInv, Labels
<1>10. CASE NamesContention(p)
  BY <1>10, ReturnType DEF NamesContention, TypeInv
<1>11. CASE NamesLocked(p)
  BY <1>11 DEF NamesLocked, Enter, TypeInv, Labels
<1>12. CASE ReadNames(p)
  BY <1>12, DiskNodesType DEF ReadNames, TypeInv, Labels
<1>13. CASE WriteNames(p)
  <2>1. RevsOf(merged[p]) \subseteq Revs
    BY RevsOfType DEF TypeInv
  <2> QED
    BY <1>13, <2>1 DEF WriteNames, TypeInv, Labels
<1>14. CASE ClearObsolete(p)
  BY <1>14 DEF ClearObsolete, TypeInv, Labels
<1>15. CASE UnlockNames(p)
  BY <1>15, CompleteType DEF UnlockNames, Leave, TypeInv, Labels
<1>16. CASE ObsoletePack(p)
  <2>1. PICK x \in plan[p] :
          /\ packs' = packs \ {x} /\ obsolete' = obsolete \cup (packs \cap {x})
          /\ \/ Complete(p)
             \/ /\ plan' = Set(plan, p, plan[p] \ {x})
                /\ UNCHANGED <<pc, op, todo, merged, clear>>
    BY <1>16 DEF ObsoletePack
  <2>2. CASE Complete(p)
    BY <1>16, <2>1, <2>2, CompleteType DEF ObsoletePack, TypeInv
  <2>3. CASE /\ plan' = Set(plan, p, plan[p] \ {x})
             /\ UNCHANGED <<pc, op, todo, merged, clear>>
    BY <1>16, <2>1, <2>3 DEF ObsoletePack, TypeInv
  <2> QED
    BY <2>1, <2>2, <2>3
<1>17. CASE WriteFails(p) \/ ClearFails(p)
  BY <1>17, ReturnType DEF WriteFails, ClearFails, Leave, TypeInv
<1>18. CASE CountRevisions(p)
  <2>1. "plan" \in Labels
    BY DEF Labels
  <2> QED
    BY <1>18, <2>1, ReloadOrRaiseType DEF CountRevisions, TypeInv
<1>19. CASE CountAgain(p)
  BY <1>19, ReturnType DEF CountAgain, Unretried, TypeInv
<1> QED
  BY <1>1, <1>2, <1>3, <1>4, <1>5, <1>6, <1>7, <1>8, <1>9, <1>10, <1>11, <1>12, <1>13,
     <1>14, <1>15, <1>16, <1>17, <1>18, <1>19 DEF Step

LEMMA TypeKill ==
  ASSUME TypeInv, NEW p \in Procs, Kill(p)
  PROVE  TypeInv'
<1>1. clear' \in [Procs -> BOOLEAN]
  BY SetType DEF Kill, TypeInv
<1> QED
  BY <1>1 DEF Kill, Die, TypeInv, Labels

LEMMA TypeNext == TypeInv /\ [PNext]_vars => TypeInv'
<1> SUFFICES ASSUME TypeInv, [PNext]_vars PROVE TypeInv'
  OBVIOUS
<1>1. CASE BreakNamesLock
  BY <1>1 DEF BreakNamesLock, Break, TypeInv
<1>2. CASE \E p \in Procs : Step(p) \/ Call(p) \/ Kill(p)
  BY <1>2, TypeStep, TypeCall, TypeKill
<1>3. CASE UNCHANGED vars
  BY <1>3 DEF TypeInv
<1> QED
  BY <1>1, <1>2, <1>3 DEF PNext

(* Every reachable state of a pack repository and its users is well typed,    *)
(* identical pack files included.                                             *)
THEOREM PackTypes == PSpec => []PackTypeOK
<1>1. PSpec => []TypeInv
  BY TypeInit, TypeNext, PTL DEF PSpec
<1> QED
  BY <1>1, TypeInvIsTypeOK, PTL

-----------------------------------------------------------------------------
(* The revisions of a set of packs *)

LEMMA RevsOfMono ==
  ASSUME NEW S, NEW T, S \subseteq T
  PROVE  RevsOf(S) \subseteq RevsOf(T)
BY DEF RevsOf

LEMMA RevsOfUnion ==
  ASSUME NEW S, NEW T
  PROVE  RevsOf(S \cup T) = RevsOf(S) \cup RevsOf(T)
BY DEF RevsOf

LEMMA RevsOfOne ==
  ASSUME NEW x
  PROVE  RevsOf({x}) = x.revs /\ RevsOf({}) = {}
BY DEF RevsOf

\* A set covered by two others has no revisions but theirs.
LEMMA RevsOfCover ==
  ASSUME NEW S, NEW T, NEW U, S \subseteq T \cup U
  PROVE  RevsOf(S) \subseteq RevsOf(T) \cup RevsOf(U)
BY RevsOfMono, RevsOfUnion

-----------------------------------------------------------------------------
(* The invariant *)

SafeInv == PackInv /\ NamesHaveFiles /\ NothingLost /\ ReloadAlwaysHelps

\* Labels at which nothing is promised about the packs a process works on.
Quiet == {"unlocked", "locked", "group", "reading", "plan", "replan", "clean"}

\* Nobody but p is affected in what it keeps in memory.
Others(p) ==
  \A q \in Procs \ {p} :
    /\ pc'[q] = pc[q] /\ mem'[q] = mem[q] /\ atLoad'[q] = atLoad[q]
    /\ resumed'[q] = resumed[q] /\ plan'[q] = plan[q] /\ todo'[q] = todo[q]
    /\ merged'[q] = merged[q]

\* A merge of the names drops nothing they give access to: what p removes it
\* replaces.
LEMMA MergeKeeps ==
  ASSUME TypeInv, SafeInv, NEW p \in Procs, pc[p] \notin Written
  PROVE  /\ RevsOf(names) \subseteq RevsOf(DiskNodes(p))
         /\ RevsOf(atLoad[p]) \subseteq RevsOf(DiskNodes(p))
         /\ RevsOf(mem[p]) \subseteq RevsOf(DiskNodes(p))
<1>1. /\ names \subseteq DiskNodes(p) \cup Gone(p)
      /\ Pend(p) \subseteq DiskNodes(p)
      /\ mem[p] \subseteq Pend(p) \cup atLoad[p]
  BY DEF DiskNodes, Gone, Pend
<1>2. /\ RevsOf(Gone(p)) \subseteq RevsOf(Pend(p))
      /\ RevsOf(atLoad[p]) \subseteq published /\ published \subseteq RevsOf(names)
  BY DEF SafeInv, PackInv, RevsOK, NothingLost
<1>3. RevsOf(Pend(p)) \subseteq RevsOf(DiskNodes(p))
  BY <1>1, RevsOfMono
<1>4. RevsOf(names) \subseteq RevsOf(DiskNodes(p)) \cup RevsOf(Gone(p))
  BY <1>1, RevsOfCover
<1>5. RevsOf(mem[p]) \subseteq RevsOf(Pend(p)) \cup RevsOf(atLoad[p])
  BY <1>1, RevsOfCover
<1> QED
  BY <1>2, <1>3, <1>4, <1>5

\* Whoever misses the files of a pack it knows finds other names on a reload.
LEMMA MissingIsNews ==
  ASSUME TypeInv, SafeInv, NEW p \in Procs, pc[p] \notin Written,
         NEW x \in mem[p], x \notin packs
  PROVE  ReloadChanges(p)
<1>1. Pend(p) \subseteq packs /\ names \subseteq packs
  BY DEF SafeInv, PackInv, PendingOK, NamesHaveFiles
<1>2. x \notin DiskNodes(p)
  BY <1>1 DEF DiskNodes, Pend
<1> QED
  BY <1>2 DEF ReloadChanges

\* A step of p that leaves the disk alone, ends at a quiet label and changes
\* p's names only by reloading them.
LEMMA LocalStep ==
  ASSUME TypeInv, TypeInv', SafeInv, NEW p \in Procs, Others(p),
         UNCHANGED <<mvars, names, packs, upload, failed, history>>,
         pc[p] \notin Written \cup {"dead"}, pc'[p] \in Quiet,
         plan'[p] \subseteq plan[p], resumed'[p] \subseteq resumed[p],
         \/ mem'[p] = mem[p] /\ atLoad'[p] = atLoad[p]
         \/ mem'[p] = DiskNodes(p) /\ atLoad'[p] = names
  PROVE  SafeInv'
<1> USE DEF Written
<1>1. /\ \A q \in Procs \ {p} : Pend(q)' = Pend(q) /\ Gone(q)' = Gone(q)
      /\ Pend(p)' = Pend(p) /\ Gone(p)' \subseteq Gone(p)
      /\ mem'[p] \cup atLoad'[p] \subseteq mem[p] \cup atLoad[p] \cup names
      /\ \A q \in Procs \ {p} : DiskNodes(q)' = DiskNodes(q)
  <2>1. \A q \in Procs \ {p} : Pend(q)' = Pend(q) /\ Gone(q)' = Gone(q)
                               /\ DiskNodes(q)' = DiskNodes(q)
    BY DEF Others, Pend, Gone, DiskNodes
  <2>2. Pend(p) \cap names = {}
    BY DEF SafeInv, PackInv, PendingOK
  <2>3. Pend(p)' = Pend(p) /\ Gone(p)' \subseteq Gone(p)
    BY <2>2 DEF Pend, Gone, DiskNodes, Quiet
  <2>4. mem'[p] \cup atLoad'[p] \subseteq mem[p] \cup atLoad[p] \cup names
    BY DEF DiskNodes
  <2> QED
    BY <2>1, <2>3, <2>4
<1>2. StagedOK'
  BY <1>1 DEF SafeInv, PackInv, StagedOK, Others
<1>3. RevsOK'
  <2>1. RevsOf(Gone(p)') \subseteq RevsOf(Gone(p))
    BY <1>1, RevsOfMono
  <2>2. RevsOf(atLoad'[p]) \subseteq published
    BY DEF SafeInv, PackInv, RevsOK
  <2> QED
    BY <1>1, <2>1, <2>2 DEF SafeInv, PackInv, RevsOK, Others
<1>4. MadeOK'
  BY <1>1 DEF SafeInv, PackInv, MadeOK, Others
<1>5. \A q \in Procs : LockOK(q)'
  BY DEF SafeInv, PackInv, LockOK, Others, Quiet
<1>6. \A q \in Procs : PendingOK(q)'
  BY <1>1 DEF SafeInv, PackInv, PendingOK, Others
<1>7. \A q \in Procs : PlanOK(q)'
  <2>1. PlanOK(p)'
    BY DEF PlanOK, Quiet, Saving
  <2>2. ASSUME NEW q \in Procs \ {p} PROVE PlanOK(q)'
    BY <1>1 DEF SafeInv, PackInv, PlanOK, Others, Saving
  <2> QED
    BY <2>1, <2>2
<1> QED
  BY <1>2, <1>3, <1>4, <1>5, <1>6, <1>7
     DEF SafeInv, PackInv, NamesHaveFiles, NothingLost, ReloadAlwaysHelps

\* A reload that raises never happens; one that restarts is a local step.
LEMMA ReloadStep ==
  ASSUME TypeInv, TypeInv', SafeInv, NEW p \in Procs, NEW l \in Quiet, ReloadOrRaise(p, l),
         UNCHANGED <<mvars, disk, group, history>>,
         pc[p] \notin Written \cup {"dead"},
         NEW x \in mem[p], x \notin packs
  PROVE  SafeInv'
<1>1. ReloadChanges(p)
  BY MissingIsNews
<1>2. Restart(p, l)
  BY <1>1 DEF ReloadOrRaise, Raise
<1>3. Others(p) /\ pc'[p] = l
  BY <1>2 DEF Restart, ReloadPackNames, Others, TypeInv
<1>4. mem'[p] = DiskNodes(p) /\ atLoad'[p] = names
  BY <1>2 DEF Restart, ReloadPackNames, TypeInv
<1>5. UNCHANGED failed /\ plan'[p] \subseteq plan[p] /\ resumed'[p] \subseteq resumed[p]
  BY <1>2 DEF Restart
<1> QED
  BY <1>3, <1>4, <1>5, LocalStep

\* A missing file where nothing reloads ends the operation.
LEMMA UnretriedStep ==
  ASSUME TypeInv, TypeInv', SafeInv, NEW p \in Procs, Unretried(p),
         UNCHANGED <<mvars, disk, group, history>>, pc[p] \notin Written \cup {"dead"}
  PROVE  SafeInv'
<1>1. Others(p) /\ pc'[p] \in Quiet /\ plan'[p] = {} /\ UNCHANGED <<memory, failed>>
  BY DEF Unretried, Return, Others, Quiet, TypeInv
<1> QED
  BY <1>1, LocalStep

-----------------------------------------------------------------------------
(* The calls *)

\* Packs that appear nowhere yet, as one that was just made.
Unused(N) ==
  /\ N \cap (names \cup packs \cup upload \cup made) = {}
  /\ \A q \in Procs : N \cap (mem[q] \cup atLoad[q] \cup resumed[q] \cup plan[q]) = {}

LEMMA FreshIsNew ==
  ASSUME TypeInv, SafeInv, ~SameBytes, NEW R, R \subseteq Revs, NewNames(R) # {}
  PROVE  Unused({NewName(R)})
<1>1. NewName(R) \notin made
  BY NewNameFacts
<1> QED
  BY <1>1 DEF SafeInv, PackInv, MadeOK, Unused

LEMMA SafeSuspend ==
  ASSUME TypeInv, TypeInv', SafeInv, ~SameBytes, NEW p \in Procs, SuspendWriteGroup(p)
  PROVE  SafeInv'
<1> USE DEF Written
<1>1. PICK N : /\ upload' = upload \cup resumed[p] \cup N /\ made' = made \cup N
               /\ Unused(N)
  <2>1. CASE new[p] = {}
    <3>1. upload' = upload \cup resumed[p] \cup {} /\ made' = made \cup {}
      BY <2>1 DEF SuspendWriteGroup
    <3>2. Unused({})
      BY DEF Unused
    <3> QED
      BY <3>1, <3>2
  <2>2. CASE new[p] # {}
    <3>1. /\ upload' = upload \cup resumed[p] \cup {NewName(new[p])}
          /\ made' = made \cup {NewName(new[p])} /\ NewNames(new[p]) # {}
      BY <2>2 DEF SuspendWriteGroup
    <3>2. new[p] \subseteq Revs
      BY DEF TypeInv
    <3>3. Unused({NewName(new[p])})
      BY <3>1, <3>2, FreshIsNew
    <3> QED
      BY <3>1, <3>3
  <2> QED
    BY <2>1, <2>2
<1>2. /\ resumed'[p] = {} /\ Others(p) /\ pc[p] = "group" /\ pc'[p] = "locked"
      /\ UNCHANGED <<mvars, names, packs, failed, memory, work, published>>
  BY DEF SuspendWriteGroup, Others, TypeInv
<1>3. \A q \in Procs : Pend(q)' = Pend(q) /\ Gone(q)' = Gone(q) /\ DiskNodes(q)' = DiskNodes(q)
  BY <1>2 DEF Others, Pend, Gone, DiskNodes
<1>4. StagedOK'
  BY <1>1, <1>2 DEF SafeInv, PackInv, StagedOK, Others, Unused
<1>5. RevsOK'
  BY <1>2, <1>3 DEF SafeInv, PackInv, RevsOK
<1>6. MadeOK'
  BY <1>1, <1>2 DEF SafeInv, PackInv, MadeOK, Others
<1>7. \A q \in Procs : LockOK(q)'
  BY <1>2 DEF SafeInv, PackInv, LockOK, Others
<1>8. \A q \in Procs : PendingOK(q)'
  BY <1>2, <1>3 DEF SafeInv, PackInv, PendingOK
<1>9. \A q \in Procs : PlanOK(q)'
  BY <1>2, <1>3 DEF SafeInv, PackInv, PlanOK, Others, Saving
<1> QED
  BY <1>2, <1>4, <1>5, <1>6, <1>7, <1>8, <1>9
     DEF SafeInv, PackInv, NamesHaveFiles, NothingLost, ReloadAlwaysHelps

LEMMA SafeResume ==
  ASSUME TypeInv, TypeInv', SafeInv, NEW p \in Procs, ResumeWriteGroup(p)
  PROVE  SafeInv'
<1> USE DEF Written
<1>1. PICK T \in SUBSET upload : upload' = upload \ T /\ resumed' = Set(resumed, p, T)
  BY DEF ResumeWriteGroup
<1>2. /\ resumed'[p] = T /\ Others(p) /\ pc[p] = "locked" /\ pc'[p] = "group"
      /\ UNCHANGED <<mvars, names, packs, failed, memory, work, history>>
  BY <1>1 DEF ResumeWriteGroup, Others, TypeInv
<1>3. \A q \in Procs : Pend(q)' = Pend(q) /\ Gone(q)' = Gone(q) /\ DiskNodes(q)' = DiskNodes(q)
  BY <1>2 DEF Others, Pend, Gone, DiskNodes
<1>4. StagedOK'
  BY <1>1, <1>2 DEF SafeInv, PackInv, StagedOK, Others
<1>5. RevsOK'
  BY <1>2, <1>3 DEF SafeInv, PackInv, RevsOK
<1>6. MadeOK'
  BY <1>1, <1>2 DEF SafeInv, PackInv, MadeOK, Others
<1>7. \A q \in Procs : LockOK(q)'
  BY <1>2 DEF SafeInv, PackInv, LockOK, Others
<1>8. \A q \in Procs : PendingOK(q)'
  BY <1>2, <1>3 DEF SafeInv, PackInv, PendingOK
<1>9. \A q \in Procs : PlanOK(q)'
  BY <1>2, <1>3 DEF SafeInv, PackInv, PlanOK, Others, Saving
<1> QED
  BY <1>2, <1>4, <1>5, <1>6, <1>7, <1>8, <1>9
     DEF SafeInv, PackInv, NamesHaveFiles, NothingLost, ReloadAlwaysHelps

\* The new packs are p's alone, on disk and not published.
LEMMA SafeCommit ==
  ASSUME TypeInv, TypeInv', SafeInv, ~SameBytes, NEW p \in Procs, CommitWriteGroup(p)
  PROVE  SafeInv'
<1> USE DEF Written
<1>1. /\ resumed'[p] = {} /\ Others(p) /\ pc[p] = "group" /\ pc'[p] \in Quiet
      /\ UNCHANGED <<mvars, names, upload, failed, atLoad, work, published>>
  BY DEF CommitWriteGroup, Others, Quiet, TypeInv
<1>2. CASE new[p] = {} /\ resumed[p] = {}
  <2>1. UNCHANGED <<packs, mem, made>>
    BY <1>2 DEF CommitWriteGroup
  <2> QED
    BY <1>1, <2>1, LocalStep
<1>3. CASE ~(new[p] = {} /\ resumed[p] = {})
  <2>1. PICK N : /\ packs' = packs \cup resumed[p] \cup N /\ made' = made \cup N
                 /\ mem'[p] = mem[p] \cup resumed[p] \cup N
                 /\ Unused(N)
    <3>1. CASE new[p] = {}
      <4>1. /\ packs' = packs \cup resumed[p] \cup {} /\ made' = made \cup {}
            /\ mem'[p] = mem[p] \cup resumed[p] \cup {}
        BY <1>3, <3>1 DEF CommitWriteGroup, TypeInv
      <4>2. Unused({})
        BY DEF Unused
      <4> QED
        BY <4>1, <4>2
    <3>2. CASE new[p] # {}
      <4>1. /\ packs' = packs \cup resumed[p] \cup {NewName(new[p])}
            /\ mem'[p] = mem[p] \cup resumed[p] \cup {NewName(new[p])}
            /\ made' = made \cup {NewName(new[p])} /\ NewNames(new[p]) # {}
        BY <3>2 DEF CommitWriteGroup, TypeInv
      <4>2. new[p] \subseteq Revs
        BY DEF TypeInv
      <4>3. Unused({NewName(new[p])})
        BY <4>1, <4>2, FreshIsNew
      <4> QED
        BY <4>1, <4>3
    <3> QED
      BY <3>1, <3>2
  <2> DEFINE M == resumed[p] \cup N
  <2>2. /\ M \cap (names \cup packs \cup upload) = {}
        /\ \A q \in Procs : M \cap (mem[q] \cup atLoad[q] \cup plan[q]) = {}
        /\ \A q \in Procs \ {p} : M \cap resumed[q] = {}
        /\ packs' = packs \cup M /\ mem'[p] = mem[p] \cup M
        /\ M \subseteq made' /\ made \subseteq made'
    BY <2>1 DEF SafeInv, PackInv, StagedOK, MadeOK, Unused
  <2> HIDE DEF M
  <2>3. /\ \A q \in Procs \ {p} : Pend(q)' = Pend(q)
        /\ \A q \in Procs : Gone(q)' = Gone(q)
        /\ \A q \in Procs \ {p} : DiskNodes(q)' = DiskNodes(q)
        /\ Pend(p)' = Pend(p) \cup M
    <3>1. \A q \in Procs \ {p} : Pend(q)' = Pend(q) /\ Gone(q)' = Gone(q)
                                 /\ DiskNodes(q)' = DiskNodes(q)
      BY <1>1 DEF Others, Pend, Gone, DiskNodes
    <3>2. Pend(p)' = Pend(p) \cup M /\ Gone(p)' = Gone(p)
      BY <1>1, <2>2 DEF Pend, Gone, Quiet
    <3> QED
      BY <3>1, <3>2
  <2>4. StagedOK'
    BY <1>1, <2>2 DEF SafeInv, PackInv, StagedOK, Others
  <2>5. RevsOK'
    <3>1. RevsOf(Pend(p)) \subseteq RevsOf(Pend(p)')
      BY <2>3, RevsOfMono
    <3> QED
      BY <1>1, <2>3, <3>1 DEF SafeInv, PackInv, RevsOK
  <2>6. MadeOK'
    BY <1>1, <2>2 DEF SafeInv, PackInv, MadeOK, Others
  <2>7. \A q \in Procs : LockOK(q)'
    BY <1>1 DEF SafeInv, PackInv, LockOK, Others, Quiet
  <2>8. \A q \in Procs : PendingOK(q)'
    <3>1. PendingOK(p)'
      BY <1>1, <2>2, <2>3 DEF SafeInv, PackInv, PendingOK, Others
    <3>2. ASSUME NEW q \in Procs \ {p} PROVE PendingOK(q)'
      <4>1. Pend(q) \subseteq mem[q]
        BY DEF Pend
      <4> QED
        BY <1>1, <2>2, <2>3, <4>1 DEF SafeInv, PackInv, PendingOK, Others
    <3> QED
      BY <3>1, <3>2
  <2>9. \A q \in Procs : PlanOK(q)'
    <3>1. PlanOK(p)'
      BY <1>1 DEF PlanOK, Quiet, Saving
    <3>2. ASSUME NEW q \in Procs \ {p} PROVE PlanOK(q)'
      BY <1>1, <2>3 DEF SafeInv, PackInv, PlanOK, Others, Saving
    <3> QED
      BY <3>1, <3>2
  <2> QED
    BY <1>1, <2>2, <2>4, <2>5, <2>6, <2>7, <2>8, <2>9
       DEF SafeInv, PackInv, NamesHaveFiles, NothingLost, ReloadAlwaysHelps
<1> QED
  BY <1>2, <1>3

LEMMA SafeCall ==
  ASSUME TypeInv, TypeInv', SafeInv, ~SameBytes, NEW p \in Procs, Call(p)
  PROVE  SafeInv'
<1> USE DEF Written
<1>1. CASE Lock(p)
  <2>1. /\ Others(p) /\ pc[p] = "unlocked" /\ pc'[p] \in Quiet
        /\ mem'[p] = DiskNodes(p) /\ atLoad'[p] = names
        /\ UNCHANGED <<mvars, disk, failed, group, work, history>>
    BY <1>1 DEF Lock, ReloadPackNames, Others, Quiet, TypeInv
  <2> QED
    BY <2>1, LocalStep
<1>2. CASE Unlock(p)
  <2>1. /\ Others(p) /\ pc[p] = "locked" /\ pc'[p] \in Quiet
        /\ UNCHANGED <<mvars, disk, failed, memory, group, work, history>>
    BY <1>2 DEF Unlock, Others, Quiet, TypeInv
  <2> QED
    BY <2>1, LocalStep
<1>3. CASE ReadIndex(p)
  <2>1. PICK x \in mem[p] :
          \/ /\ Goto(p, "reading") /\ todo' = Set(todo, p, {x})
             /\ UNCHANGED <<memory, op, failed, plan, merged, clear>>
          \/ x \notin packs /\ ReloadOrRaise(p, "locked")
    BY <1>3 DEF ReadIndex
  <2>2. pc[p] = "locked" /\ UNCHANGED <<mvars, disk, group, history>>
    BY <1>3 DEF ReadIndex
  <2>3. CASE x \notin packs /\ ReloadOrRaise(p, "locked")
    <3>1. "locked" \in Quiet
      BY DEF Quiet
    <3> QED
      BY <2>2, <2>3, <3>1, ReloadStep
  <2>4. CASE /\ Goto(p, "reading") /\ todo' = Set(todo, p, {x})
             /\ UNCHANGED <<memory, op, failed, plan, merged, clear>>
    <3>1. Others(p) /\ pc'[p] \in Quiet
      BY <2>2, <2>4 DEF Others, Quiet, TypeInv
    <3> QED
      BY <2>2, <2>4, <3>1, LocalStep
  <2> QED
    BY <2>1, <2>3, <2>4
<1>4. CASE ReadOtherIndex(p)
  <2>1. PICK x \in mem[p] : x \notin packs
    BY <1>4 DEF ReadOtherIndex
  <2>2. "reading" \in Quiet
    BY DEF Quiet
  <2> QED
    BY <1>4, <2>1, <2>2, ReloadStep DEF ReadOtherIndex
<1>5. CASE StartWriteGroup(p)
  <2>1. /\ Others(p) /\ pc[p] = "locked" /\ pc'[p] \in Quiet
        /\ UNCHANGED <<mvars, disk, failed, memory, group, work, history>>
    BY <1>5 DEF StartWriteGroup, Others, Quiet, TypeInv
  <2> QED
    BY <2>1, LocalStep
<1>6. CASE Insert(p)
  <2>1. /\ Others(p) /\ pc[p] = "group" /\ pc'[p] \in Quiet
        /\ UNCHANGED <<mvars, disk, failed, memory, resumed, work, history>>
    BY <1>6 DEF Insert, Others, Quiet, TypeInv
  <2> QED
    BY <2>1, LocalStep
<1>7. CASE AbortWriteGroup(p)
  <2>1. /\ Others(p) /\ pc[p] = "group" /\ pc'[p] \in Quiet /\ resumed'[p] = {}
        /\ UNCHANGED <<mvars, disk, failed, memory, work, history>>
    BY <1>7 DEF AbortWriteGroup, Others, Quiet, TypeInv
  <2> QED
    BY <2>1, LocalStep
<1>8. CASE SuspendWriteGroup(p)
  BY <1>8, SafeSuspend
<1>9. CASE ResumeWriteGroup(p)
  BY <1>9, SafeResume
<1>10. CASE CommitWriteGroup(p)
  BY <1>10, SafeCommit
<1>11. CASE Pack(p)
  <2>1. /\ Others(p) /\ pc[p] = "locked" /\ pc'[p] \in Quiet
        /\ UNCHANGED <<mvars, disk, failed, memory, group, work, history>>
    BY <1>11 DEF Pack, Others, Quiet, TypeInv
  <2> QED
    BY <2>1, LocalStep
<1> QED
  BY <1>1, <1>2, <1>3, <1>4, <1>5, <1>6, <1>7, <1>8, <1>9, <1>10, <1>11 DEF Call

-----------------------------------------------------------------------------
(* Packing *)

\* The packs to combine are chosen among those p knows.
LEMMA SafePlan ==
  ASSUME TypeInv, TypeInv', SafeInv, NEW p \in Procs, Others(p),
         UNCHANGED <<mvars, disk, failed, memory, group, merged, history>>,
         pc[p] \in {"plan", "replan"},
         \/ pc'[p] = "lock_names" /\ plan'[p] = {}
         \/ pc'[p] = "copy" /\ plan'[p] \subseteq mem[p] /\ todo'[p] = plan'[p]
  PROVE  SafeInv'
<1> USE DEF Written
<1>1. \A q \in Procs : Pend(q)' = Pend(q) /\ Gone(q)' = Gone(q) /\ DiskNodes(q)' = DiskNodes(q)
  BY DEF Others, Pend, Gone, DiskNodes
<1>2. plan'[p] \subseteq mem[p] /\ RevsOf({}) = {}
  BY RevsOfOne
<1>3. StagedOK'
  BY <1>2 DEF SafeInv, PackInv, StagedOK, Others
<1>4. RevsOK'
  BY <1>1 DEF SafeInv, PackInv, RevsOK
<1>5. MadeOK'
  BY <1>2 DEF SafeInv, PackInv, MadeOK, Others
<1>6. \A q \in Procs : LockOK(q)'
  BY DEF SafeInv, PackInv, LockOK, Others
<1>7. \A q \in Procs : PendingOK(q)'
  BY <1>1, <1>2 DEF SafeInv, PackInv, PendingOK, Others
<1>8. \A q \in Procs : PlanOK(q)'
  <2>1. PlanOK(p)'
    BY <1>2 DEF PlanOK, Saving
  <2>2. ASSUME NEW q \in Procs \ {p} PROVE PlanOK(q)'
    BY <1>1 DEF SafeInv, PackInv, PlanOK, Others, Saving
  <2> QED
    BY <2>1, <2>2
<1> QED
  BY <1>3, <1>4, <1>5, <1>6, <1>7, <1>8
     DEF SafeInv, PackInv, NamesHaveFiles, NothingLost, ReloadAlwaysHelps

\* Reading one more of its packs changes nothing that others can see.
LEMMA SafeCopy ==
  ASSUME TypeInv, TypeInv', SafeInv, NEW p \in Procs, CopyPack(p)
  PROVE  SafeInv'
<1> USE DEF Written
<1>1. PICK x \in todo[p] :
        \/ /\ todo' = Set(todo, p, todo[p] \ {x})
           /\ UNCHANGED <<memory, flow, plan, merged, clear>>
        \/ x \notin packs /\ \E l \in {"plan", "replan"} : ReloadOrRaise(p, l)
        \/ Unretried(p)
  BY DEF CopyPack
<1>2. pc[p] = "copy" /\ UNCHANGED <<mvars, disk, group, history>>
  BY DEF CopyPack
<1>3. ASSUME x \notin packs, NEW l \in {"plan", "replan"}, ReloadOrRaise(p, l)
      PROVE  SafeInv'
  <2>1. l \in Quiet
    BY DEF Quiet
  <2>2. x \in mem[p]
    BY <1>2 DEF SafeInv, PackInv, PlanOK
  <2> QED
    BY <1>2, <1>3, <2>1, <2>2, ReloadStep
<1>4. CASE /\ todo' = Set(todo, p, todo[p] \ {x})
           /\ UNCHANGED <<memory, flow, plan, merged, clear>>
  <2>1. \A q \in Procs : Pend(q)' = Pend(q) /\ Gone(q)' = Gone(q) /\ DiskNodes(q)' = DiskNodes(q)
    BY <1>2, <1>4 DEF Pend, Gone, DiskNodes
  <2>2. \A q \in Procs : todo'[q] \subseteq todo[q]
    BY <1>4 DEF TypeInv
  <2>3. StagedOK' /\ MadeOK' /\ RevsOK'
    BY <1>2, <1>4, <2>1 DEF SafeInv, PackInv, StagedOK, MadeOK, RevsOK
  <2>4. \A q \in Procs : LockOK(q)' /\ PendingOK(q)' /\ PlanOK(q)'
    BY <1>2, <1>4, <2>1, <2>2 DEF SafeInv, PackInv, LockOK, PendingOK, PlanOK
  <2> QED
    BY <1>2, <1>4, <2>3, <2>4
       DEF SafeInv, PackInv, NamesHaveFiles, NothingLost, ReloadAlwaysHelps
<1>5. CASE Unretried(p)
  BY <1>2, <1>5, UnretriedStep
<1> QED
  BY <1>1, <1>3, <1>4, <1>5

\* The combined pack has all the revisions of the packs it replaces.
LEMMA SafeFinish ==
  ASSUME TypeInv, TypeInv', SafeInv, ~SameBytes, NEW p \in Procs, FinishPack(p)
  PROVE  SafeInv'
<1> USE DEF Written
<1> DEFINE N == NewName(RevsOf(plan[p]))
<1>1. RevsOf(plan[p]) \subseteq Revs /\ NewNames(RevsOf(plan[p])) # {}
  BY RevsOfType DEF TypeInv, FinishPack
<1>2. RevsOf({N}) = RevsOf(plan[p])
  BY <1>1, NewNameFacts, RevsOfOne
<1>3. /\ N \notin names \cup packs \cup upload \cup made
      /\ \A q \in Procs : N \notin mem[q] \cup atLoad[q] \cup resumed[q] \cup plan[q]
  BY <1>1, FreshIsNew DEF Unused
<1>4. /\ packs' = packs \cup {N} /\ mem'[p] = (mem[p] \ plan[p]) \cup {N}
      /\ made' = made \cup {N} /\ pc[p] = "copy" /\ pc'[p] = "lock_names" /\ Others(p)
      /\ UNCHANGED <<mvars, names, upload, failed, atLoad, resumed, plan, published>>
  BY DEF FinishPack, Others, TypeInv
<1> HIDE DEF N
<1>5. plan[p] \subseteq mem[p]
  BY <1>4 DEF SafeInv, PackInv, PlanOK
<1>6. /\ \A q \in Procs \ {p} : Pend(q)' = Pend(q) /\ Gone(q)' = Gone(q)
                               /\ DiskNodes(q)' = DiskNodes(q)
      /\ Pend(p)' = (Pend(p) \ plan[p]) \cup {N}
      /\ Gone(p)' \subseteq Gone(p) \cup plan[p]
  <2>1. \A q \in Procs \ {p} : Pend(q)' = Pend(q) /\ Gone(q)' = Gone(q)
                               /\ DiskNodes(q)' = DiskNodes(q)
    BY <1>4 DEF Others, Pend, Gone, DiskNodes
  <2>2. /\ Pend(p)' = (Pend(p) \ plan[p]) \cup {N}
        /\ Gone(p)' \subseteq Gone(p) \cup plan[p]
    BY <1>3, <1>4 DEF Pend, Gone
  <2> QED
    BY <2>1, <2>2
<1>7. StagedOK'
  BY <1>3, <1>4 DEF SafeInv, PackInv, StagedOK, Others
<1>8. RevsOf(plan[p]) \subseteq RevsOf(Pend(p)')
  BY <1>2, <1>6, RevsOfMono
<1>9. RevsOK'
  <2>1. RevsOf(Gone(p)') \subseteq RevsOf(Gone(p)) \cup RevsOf(plan[p])
    BY <1>6, RevsOfCover
  <2>2. RevsOf(Pend(p)) \subseteq RevsOf(Pend(p)') \cup RevsOf(plan[p])
    BY <1>6, RevsOfCover
  <2>3. RevsOf(Gone(p)') \subseteq RevsOf(Pend(p)')
    BY <1>8, <2>1, <2>2 DEF SafeInv, PackInv, RevsOK
  <2> QED
    BY <1>4, <1>6, <2>3 DEF SafeInv, PackInv, RevsOK
<1>10. MadeOK'
  BY <1>4 DEF SafeInv, PackInv, MadeOK, Others
<1>11. \A q \in Procs : LockOK(q)'
  BY <1>4 DEF SafeInv, PackInv, LockOK, Others
<1>12. \A q \in Procs : PendingOK(q)'
  <2>1. PendingOK(p)'
    BY <1>3, <1>4, <1>6 DEF SafeInv, PackInv, PendingOK, Others
  <2>2. ASSUME NEW q \in Procs \ {p} PROVE PendingOK(q)'
    <3>1. Pend(q) \subseteq mem[q]
      BY DEF Pend
    <3> QED
      BY <1>3, <1>4, <1>6, <3>1 DEF SafeInv, PackInv, PendingOK, Others
  <2> QED
    BY <2>1, <2>2
<1>13. \A q \in Procs : PlanOK(q)'
  <2>1. PlanOK(p)'
    <3>1. plan[p] \cap mem'[p] = {}
      BY <1>3, <1>4
    <3>2. (plan[p] \ atLoad[p]) \cap names = {}
      BY <1>4, <1>5 DEF SafeInv, PackInv, PendingOK, Pend
    <3> QED
      BY <1>4, <1>8, <3>1, <3>2 DEF PlanOK, Saving
  <2>2. ASSUME NEW q \in Procs \ {p} PROVE PlanOK(q)'
    BY <1>4, <1>6 DEF SafeInv, PackInv, PlanOK, Others, Saving
  <2> QED
    BY <2>1, <2>2
<1> QED
  BY <1>4, <1>7, <1>9, <1>10, <1>11, <1>12, <1>13
     DEF SafeInv, PackInv, NamesHaveFiles, NothingLost, ReloadAlwaysHelps

-----------------------------------------------------------------------------
(* _save_pack_names *)

\* Taking and entering the lock, and reading the names under it, move p from
\* one label of Saving to the next.
LEMMA SafeSaving ==
  ASSUME TypeInv, TypeInv', SafeInv, NEW p \in Procs,
         LockNames(p) \/ NamesLocked(p) \/ ReadNames(p)
  PROVE  SafeInv'
<1> USE DEF Written
<1>1. /\ Others(p) /\ UNCHANGED <<alive, disk, failed, memory, group, plan, todo, history>>
      /\ pc[p] \in {"lock_names", "names_taken", "merge"}
      /\ pc'[p] \in {"names_taken", "merge", "write"}
      /\ pc'[p] = "write" => merged'[p] = DiskNodes(p)
  BY DEF LockNames, NamesLocked, ReadNames, Take, Enter, Others, TypeInv
<1>2. \A q \in Procs : Pend(q)' = Pend(q) /\ Gone(q)' = Gone(q) /\ DiskNodes(q)' = DiskNodes(q)
  BY <1>1 DEF Others, Pend, Gone, DiskNodes
<1>3. StagedOK' /\ MadeOK' /\ RevsOK'
  BY <1>1, <1>2 DEF SafeInv, PackInv, StagedOK, MadeOK, RevsOK
<1>4. \A q \in Procs : LockOK(q)'
  <2>1. CASE LockNames(p)
    BY <1>1, <2>1, MutexAssumption DEF LockNames, Take, SafeInv, PackInv, LockOK, Others, TypeInv
  <2>2. CASE NamesLocked(p)
    BY <1>1, <2>2 DEF NamesLocked, Enter, SafeInv, PackInv, LockOK, Others, TypeInv
  <2>3. CASE ReadNames(p)
    BY <1>1, <2>3 DEF ReadNames, SafeInv, PackInv, LockOK, Others, TypeInv
  <2> QED
    BY <2>1, <2>2, <2>3
<1>5. \A q \in Procs : PendingOK(q)'
  BY <1>1, <1>2 DEF SafeInv, PackInv, PendingOK
<1>6. \A q \in Procs : PlanOK(q)'
  <2>1. PlanOK(p)'
    BY <1>1, <1>2 DEF SafeInv, PackInv, PlanOK, Saving
  <2>2. ASSUME NEW q \in Procs \ {p} PROVE PlanOK(q)'
    BY <1>1, <1>2 DEF SafeInv, PackInv, PlanOK, Others, Saving
  <2> QED
    BY <2>1, <2>2
<1> QED
  BY <1>1, <1>3, <1>4, <1>5, <1>6
     DEF SafeInv, PackInv, NamesHaveFiles, NothingLost, ReloadAlwaysHelps

\* The heart of the matter: the names are replaced by a merge that was made
\* under the same lock.
LEMMA SafeWrite ==
  ASSUME TypeInv, TypeInv', SafeInv, NEW p \in Procs, WriteNames(p)
  PROVE  SafeInv'
<1> USE DEF Written
<1> DEFINE D == DiskNodes(p)
<1>1. pc[p] = "write" /\ merged[p] = D /\ lock = p
  BY DEF WriteNames, SafeInv, PackInv, PlanOK, LockOK
<1>2. /\ names' = D /\ atLoad'[p] = D /\ mem'[p] = mem[p] /\ merged'[p] = D
      /\ published' = published \cup RevsOf(D)
      /\ pc'[p] = "clear" /\ Others(p)
      /\ UNCHANGED <<mvars, packs, upload, failed, mem, group, plan, todo, merged, made>>
  BY <1>1 DEF WriteNames, Others, TypeInv
<1>3. /\ D \subseteq names \cup Pend(p) /\ Pend(p) \subseteq D
      /\ Pend(p) = mem[p] \ atLoad[p]
  BY <1>1 DEF DiskNodes, Pend
<1>4. /\ RevsOf(names) \subseteq RevsOf(D) /\ RevsOf(atLoad[p]) \subseteq RevsOf(D)
      /\ RevsOf(mem[p]) \subseteq RevsOf(D) /\ RevsOf(Pend(p)) \subseteq RevsOf(D)
  BY <1>1, <1>3, MergeKeeps, RevsOfMono
<1>5. /\ plan[p] \cap D = {} /\ RevsOf(plan[p]) \subseteq RevsOf(D)
  <2>1. /\ plan[p] \cap mem[p] = {} /\ (plan[p] \ atLoad[p]) \cap names = {}
        /\ RevsOf(plan[p]) \subseteq RevsOf(Pend(p))
    BY <1>1 DEF SafeInv, PackInv, PlanOK, Saving
  <2> QED
    BY <1>4, <2>1 DEF DiskNodes
<1> HIDE DEF D
<1>6. \A q \in Procs \ {p} : pc[q] \notin {"names_taken", "merge", "write", "clear", "unlock_names"}
  BY <1>1 DEF SafeInv, PackInv, LockOK
<1>7. /\ \A q \in Procs \ {p} : Pend(q)' = Pend(q) /\ Gone(q)' = Gone(q)
      /\ Pend(p)' = {} /\ Gone(p)' = {}
  BY <1>2 DEF Others, Pend, Gone
<1>8. /\ \A q \in Procs \ {p} : Pend(p) \cap (mem[q] \cup atLoad[q] \cup plan[q] \cup Pend(q)) = {}
      /\ Pend(p) \subseteq packs
  <2>1. \A q \in Procs : Pend(q) \subseteq mem[q]
    BY DEF Pend
  <2> QED
    BY <2>1 DEF SafeInv, PackInv, PendingOK
<1>9. StagedOK'
  <2>1. D \cap upload = {} /\ \A q \in Procs : D \cap resumed[q] = {}
    BY <1>3, <1>8 DEF SafeInv, PackInv, StagedOK
  <2> QED
    BY <1>2, <2>1 DEF SafeInv, PackInv, StagedOK, Others
<1>10. RevsOK'
  <2>1. RevsOf({}) = {}
    BY RevsOfOne
  <2> QED
    BY <1>2, <1>7, <2>1 DEF SafeInv, PackInv, RevsOK, Others
<1>11. MadeOK'
  BY <1>2, <1>3, <1>8 DEF SafeInv, PackInv, MadeOK, Others
<1>12. \A q \in Procs : LockOK(q)'
  BY <1>1, <1>2 DEF SafeInv, PackInv, LockOK, Others
<1>13. \A q \in Procs : PendingOK(q)'
  <2>1. PendingOK(p)'
    BY <1>7 DEF PendingOK
  <2>2. ASSUME NEW q \in Procs \ {p} PROVE PendingOK(q)'
    <3>1. Pend(q) \cap D = {}
      BY <1>3, <1>8 DEF SafeInv, PackInv, PendingOK
    <3> QED
      BY <1>2, <1>7, <3>1 DEF SafeInv, PackInv, PendingOK, Others
  <2> QED
    BY <2>1, <2>2
<1>14. \A q \in Procs : PlanOK(q)'
  <2>1. PlanOK(p)'
    BY <1>2, <1>4, <1>5 DEF PlanOK, Saving
  <2>2. ASSUME NEW q \in Procs \ {p} PROVE PlanOK(q)'
    BY <1>2, <1>3, <1>4, <1>6, <1>7, <1>8 DEF SafeInv, PackInv, PlanOK, Others, Saving
  <2> QED
    BY <2>1, <2>2
<1>15. NamesHaveFiles' /\ NothingLost' /\ ReloadAlwaysHelps'
  BY <1>2, <1>3, <1>4, <1>8 DEF SafeInv, NamesHaveFiles, NothingLost, ReloadAlwaysHelps
<1> QED
  BY <1>9, <1>10, <1>11, <1>12, <1>13, <1>14, <1>15 DEF SafeInv, PackInv

LEMMA SafeClear ==
  ASSUME TypeInv, TypeInv', SafeInv, NEW p \in Procs, ClearObsolete(p)
  PROVE  SafeInv'
<1> USE DEF Written
<1>1. /\ Others(p) /\ pc[p] = "clear" /\ pc'[p] = "unlock_names" /\ plan'[p] \subseteq plan[p]
      /\ UNCHANGED <<mvars, names, packs, upload, failed, memory, group, todo, merged, history>>
  BY DEF ClearObsolete, Others, TypeInv
<1>2. \A q \in Procs : Pend(q)' = Pend(q) /\ Gone(q)' = Gone(q) /\ DiskNodes(q)' = DiskNodes(q)
  BY <1>1 DEF Others, Pend, Gone, DiskNodes
<1>3. StagedOK' /\ MadeOK' /\ RevsOK'
  BY <1>1, <1>2 DEF SafeInv, PackInv, StagedOK, MadeOK, RevsOK, Others
<1>4. \A q \in Procs : LockOK(q)' /\ PendingOK(q)'
  BY <1>1, <1>2 DEF SafeInv, PackInv, LockOK, PendingOK, Others
<1>5. \A q \in Procs : PlanOK(q)'
  <2>1. RevsOf(plan'[p]) \subseteq RevsOf(plan[p])
    BY <1>1, RevsOfMono
  <2>2. PlanOK(p)'
    BY <1>1, <2>1 DEF SafeInv, PackInv, PlanOK, Saving
  <2>3. ASSUME NEW q \in Procs \ {p} PROVE PlanOK(q)'
    BY <1>1, <1>2 DEF SafeInv, PackInv, PlanOK, Others, Saving
  <2> QED
    BY <2>2, <2>3
<1> QED
  BY <1>1, <1>3, <1>4, <1>5
     DEF SafeInv, PackInv, NamesHaveFiles, NothingLost, ReloadAlwaysHelps

\* What Complete does, for both operations.
LEMMA CompleteFacts ==
  ASSUME TypeInv, NEW p \in Procs, Complete(p)
  PROVE  /\ pc'[p] \in {"locked", "clean"} /\ plan'[p] \subseteq plan[p]
         /\ \A q \in Procs \ {p} : /\ pc'[q] = pc[q] /\ plan'[q] = plan[q]
                                   /\ todo'[q] = todo[q] /\ merged'[q] = merged[q]
BY DEF Complete, Return, TypeInv

LEMMA SafeUnlock ==
  ASSUME TypeInv, TypeInv', SafeInv, NEW p \in Procs, UnlockNames(p)
  PROVE  SafeInv'
<1> USE DEF Written
<1>1. /\ pc[p] = "unlock_names" /\ lock = p /\ lock' = Free /\ inside' = inside \ {p}
      /\ mem'[p] = merged[p]
      /\ UNCHANGED <<alive, disk, failed, atLoad, group, history>>
  BY DEF UnlockNames, Leave, TypeInv
<1>2. Others(p) /\ pc'[p] \in {"locked", "clean", "obsolete"} /\ plan'[p] \subseteq plan[p]
  <2>1. \A q \in Procs \ {p} : mem'[q] = mem[q]
    BY DEF UnlockNames, TypeInv
  <2>2. CASE Complete(p)
    BY <1>1, <2>1, <2>2, CompleteFacts DEF Others
  <2>3. CASE Goto(p, "obsolete") /\ UNCHANGED <<op, work>>
    BY <1>1, <2>1, <2>3 DEF Others, TypeInv
  <2> QED
    BY <2>2, <2>3 DEF UnlockNames
<1>3. merged[p] = names /\ atLoad[p] = names /\ plan[p] \cap names = {}
      /\ RevsOf(plan[p]) \subseteq RevsOf(names)
  BY <1>1 DEF SafeInv, PackInv, PlanOK
<1>4. /\ \A q \in Procs \ {p} : Pend(q)' = Pend(q) /\ Gone(q)' = Gone(q)
                               /\ DiskNodes(q)' = DiskNodes(q)
      /\ Pend(p)' = {} /\ Gone(p)' = {}
  BY <1>1, <1>2, <1>3 DEF Others, Pend, Gone, DiskNodes
<1>5. StagedOK' /\ MadeOK'
  BY <1>1, <1>2, <1>3 DEF SafeInv, PackInv, StagedOK, MadeOK, Others
<1>6. RevsOK'
  BY <1>1, <1>4 DEF SafeInv, PackInv, RevsOK
<1>7. \A q \in Procs : LockOK(q)'
  BY <1>1, <1>2 DEF SafeInv, PackInv, LockOK, Others
<1>8. \A q \in Procs : PendingOK(q)'
  <2>1. PendingOK(p)'
    BY <1>4 DEF PendingOK
  <2>2. ASSUME NEW q \in Procs \ {p} PROVE PendingOK(q)'
    BY <1>1, <1>2, <1>3, <1>4 DEF SafeInv, PackInv, PendingOK, Others
  <2> QED
    BY <2>1, <2>2
<1>9. \A q \in Procs : PlanOK(q)'
  <2>1. RevsOf(plan'[p]) \subseteq RevsOf(plan[p])
    BY <1>2, RevsOfMono
  <2>2. PlanOK(p)'
    BY <1>1, <1>2, <1>3, <2>1 DEF PlanOK, Saving
  <2>3. ASSUME NEW q \in Procs \ {p} PROVE PlanOK(q)'
    BY <1>1, <1>2, <1>4 DEF SafeInv, PackInv, PlanOK, Others, Saving
  <2> QED
    BY <2>2, <2>3
<1> QED
  BY <1>1, <1>5, <1>6, <1>7, <1>8, <1>9
     DEF SafeInv, PackInv, NamesHaveFiles, NothingLost, ReloadAlwaysHelps

\* pack-names could not be written: only the lock changes hands, and what p is
\* about to add and to remove is as it was.
LEMMA SafeWriteFails ==
  ASSUME TypeInv, TypeInv', SafeInv, NEW p \in Procs, WriteFails(p)
  PROVE  SafeInv'
<1> USE DEF Written
<1>1. /\ Others(p) /\ pc[p] = "write" /\ pc'[p] = "locked" /\ plan'[p] = {}
      /\ lock = p /\ inside' = inside \ {p}
      /\ UNCHANGED <<alive, disk, failed, memory, group, history>>
  BY DEF WriteFails, Leave, Return, Others, TypeInv
<1>2. \A q \in Procs : Pend(q)' = Pend(q) /\ Gone(q)' = Gone(q) /\ DiskNodes(q)' = DiskNodes(q)
  BY <1>1 DEF Others, Pend, Gone, DiskNodes
<1>3. StagedOK' /\ MadeOK'
  BY <1>1 DEF SafeInv, PackInv, StagedOK, MadeOK, Others
<1>4. RevsOK'
  BY <1>1, <1>2 DEF SafeInv, PackInv, RevsOK
<1>5. \A q \in Procs : LockOK(q)'
  BY <1>1 DEF SafeInv, PackInv, LockOK, Others
<1>6. \A q \in Procs : PendingOK(q)'
  BY <1>1, <1>2 DEF SafeInv, PackInv, PendingOK, Others
<1>7. \A q \in Procs : PlanOK(q)'
  <2>1. PlanOK(p)'
    BY <1>1 DEF PlanOK, Saving
  <2>2. ASSUME NEW q \in Procs \ {p} PROVE PlanOK(q)'
    BY <1>1, <1>2 DEF SafeInv, PackInv, PlanOK, Others, Saving
  <2> QED
    BY <2>1, <2>2
<1> QED
  BY <1>1, <1>3, <1>4, <1>5, <1>6, <1>7
     DEF SafeInv, PackInv, NamesHaveFiles, NothingLost, ReloadAlwaysHelps

\* A pack is moved away that nobody's names on disk and no process's new packs
\* include.
LEMMA SafeObsolete ==
  ASSUME TypeInv, TypeInv', SafeInv, NEW p \in Procs, ObsoletePack(p)
  PROVE  SafeInv'
<1> USE DEF Written
<1>1. PICK x \in plan[p] :
        /\ packs' = packs \ {x}
        /\ \/ Complete(p)
           \/ plan' = Set(plan, p, plan[p] \ {x}) /\ UNCHANGED <<pc, op, todo, merged, clear>>
  BY DEF ObsoletePack
<1>2. pc[p] = "obsolete" /\ UNCHANGED <<mvars, names, upload, failed, memory, group, history>>
  BY DEF ObsoletePack
<1>3. Others(p) /\ pc'[p] \in {"locked", "clean", "obsolete"} /\ plan'[p] \subseteq plan[p]
  <2>1. CASE Complete(p)
    BY <1>2, <2>1, CompleteFacts DEF Others
  <2>2. CASE plan' = Set(plan, p, plan[p] \ {x}) /\ UNCHANGED <<pc, op, todo, merged, clear>>
    BY <1>2, <2>2 DEF Others, TypeInv
  <2> QED
    BY <1>1, <2>1, <2>2
<1>4. \A q \in Procs : Pend(q)' = Pend(q) /\ Gone(q)' = Gone(q) /\ DiskNodes(q)' = DiskNodes(q)
  BY <1>2, <1>3 DEF Others, Pend, Gone, DiskNodes
<1>5. /\ mem[p] = atLoad[p] /\ plan[p] \cap names = {}
      /\ RevsOf(plan[p]) \subseteq RevsOf(names)
  BY <1>2 DEF SafeInv, PackInv, PlanOK
<1>6. x \notin names /\ \A q \in Procs : x \notin Pend(q)
  <2>1. Pend(p) = {}
    BY <1>2, <1>5 DEF Pend
  <2>2. \A q \in Procs \ {p} : Pend(q) \cap plan[p] = {}
    BY DEF SafeInv, PackInv, PendingOK
  <2> QED
    BY <1>5, <2>1, <2>2
<1>7. StagedOK' /\ MadeOK'
  BY <1>1, <1>2, <1>3 DEF SafeInv, PackInv, StagedOK, MadeOK, Others
<1>8. RevsOK'
  BY <1>2, <1>4 DEF SafeInv, PackInv, RevsOK
<1>9. \A q \in Procs : LockOK(q)'
  BY <1>2, <1>3 DEF SafeInv, PackInv, LockOK, Others
<1>10. \A q \in Procs : PendingOK(q)'
  BY <1>1, <1>2, <1>3, <1>4, <1>6 DEF SafeInv, PackInv, PendingOK, Others
<1>11. \A q \in Procs : PlanOK(q)'
  <2>1. RevsOf(plan'[p]) \subseteq RevsOf(plan[p])
    BY <1>3, RevsOfMono
  <2>2. PlanOK(p)'
    BY <1>2, <1>3, <1>5, <2>1 DEF PlanOK, Saving
  <2>3. ASSUME NEW q \in Procs \ {p} PROVE PlanOK(q)'
    BY <1>2, <1>3, <1>4 DEF SafeInv, PackInv, PlanOK, Others, Saving
  <2> QED
    BY <2>2, <2>3
<1>12. NamesHaveFiles' /\ NothingLost' /\ ReloadAlwaysHelps'
  BY <1>1, <1>2, <1>6 DEF SafeInv, NamesHaveFiles, NothingLost, ReloadAlwaysHelps
<1> QED
  BY <1>7, <1>8, <1>9, <1>10, <1>11, <1>12 DEF SafeInv, PackInv

LEMMA SafeStep ==
  ASSUME TypeInv, TypeInv', SafeInv, ~SameBytes, Faulty = {}, NEW p \in Procs, Step(p)
  PROVE  SafeInv'
<1> USE DEF Written
<1>1. CASE ReadData(p)
  <2>1. PICK x \in todo[p] :
          \/ Return(p) /\ UNCHANGED <<memory, failed>>
          \/ x \in mem[p] /\ x \notin packs /\ ReloadOrRaise(p, "locked")
          \/ ReloadPackNames(p) /\ Return(p) /\ UNCHANGED failed
    BY <1>1 DEF ReadData
  <2>2. pc[p] = "reading" /\ UNCHANGED <<mvars, disk, group, history>>
    BY <1>1 DEF ReadData
  <2>3. CASE x \in mem[p] /\ x \notin packs /\ ReloadOrRaise(p, "locked")
    <3>1. "locked" \in Quiet
      BY DEF Quiet
    <3> QED
      BY <2>2, <2>3, <3>1, ReloadStep
  <2>4. CASE Return(p) /\ UNCHANGED <<memory, failed>>
    <3>1. Others(p) /\ pc'[p] \in Quiet /\ plan'[p] = {}
      BY <2>2, <2>4 DEF Return, Others, Quiet, TypeInv
    <3> QED
      BY <2>2, <2>4, <3>1, LocalStep
  <2>5. CASE ReloadPackNames(p) /\ Return(p) /\ UNCHANGED failed
    <3>1. /\ Others(p) /\ pc'[p] \in Quiet /\ plan'[p] = {}
          /\ mem'[p] = DiskNodes(p) /\ atLoad'[p] = names
      BY <2>2, <2>5 DEF Return, ReloadPackNames, Others, Quiet, TypeInv
    <3> QED
      BY <2>2, <2>5, <3>1, LocalStep
  <2> QED
    BY <2>1, <2>3, <2>4, <2>5
<1>2. CASE NoAutopack(p)
  <2>1. /\ Others(p) /\ pc[p] = "plan" /\ pc'[p] = "lock_names" /\ plan'[p] = {}
        /\ UNCHANGED <<mvars, disk, failed, memory, group, merged, history>>
    BY <1>2 DEF NoAutopack, Others, TypeInv
  <2> QED
    BY <2>1, SafePlan
<1>3. CASE PlanPacking(p)
  <2>1. PICK S \in SUBSET mem[p] :
          /\ plan' = Set(plan, p, S) /\ todo' = Set(todo, p, S)
          /\ Goto(p, IF S = {} THEN "lock_names" ELSE "copy")
    BY <1>3 DEF PlanPacking
  <2>2. /\ pc[p] \in {"plan", "replan"}
        /\ UNCHANGED <<mvars, disk, failed, memory, group, merged, history>>
    BY <1>3 DEF PlanPacking
  <2>3. /\ Others(p) /\ plan'[p] = S /\ todo'[p] = S
        /\ pc'[p] = IF S = {} THEN "lock_names" ELSE "copy"
    BY <2>1, <2>2 DEF Others, TypeInv
  <2> QED
    BY <2>2, <2>3, SafePlan
<1>4. CASE CopyPack(p)
  BY <1>4, SafeCopy
<1>5. CASE FinishPack(p)
  BY <1>5, SafeFinish
<1>6. CASE PackExists(p)
  <2>1. RevsOf(plan[p]) \subseteq Revs
    BY RevsOfType DEF TypeInv
  <2>2. NewName(RevsOf(plan[p])) \notin mem[p]
    BY <1>6, <2>1, FreshIsNew DEF PackExists, Unused
  <2> QED
    BY <1>6, <2>2 DEF PackExists
<1>7. CASE AlreadyPacked(p)
  <2>1. /\ Others(p) /\ pc[p] = "copy" /\ pc'[p] \in Quiet
        /\ UNCHANGED <<mvars, disk, failed, memory, group, work, history>>
    BY <1>7 DEF AlreadyPacked, Others, Quiet, TypeInv
  <2> QED
    BY <2>1, LocalStep
<1>8. CASE CleanObsolete(p)
  <2>1. /\ Others(p) /\ pc[p] = "clean" /\ pc'[p] \in Quiet /\ plan'[p] = {}
        /\ UNCHANGED <<mvars, names, packs, upload, failed, memory, group, history>>
    BY <1>8 DEF CleanObsolete, Return, Others, Quiet, TypeInv
  <2> QED
    BY <2>1, LocalStep
<1>9. CASE LockNames(p) \/ NamesLocked(p) \/ ReadNames(p)
  BY <1>9, SafeSaving
<1>10. CASE NamesContention(p)
  <2>1. /\ Others(p) /\ pc[p] = "lock_names" /\ pc'[p] \in Quiet /\ plan'[p] = {}
        /\ UNCHANGED <<mvars, disk, failed, memory, group, history>>
    BY <1>10 DEF NamesContention, Return, Others, Quiet, TypeInv
  <2> QED
    BY <2>1, LocalStep
<1>11. CASE WriteNames(p)
  BY <1>11, SafeWrite
<1>12. CASE ClearObsolete(p)
  BY <1>12, SafeClear
<1>13. CASE UnlockNames(p)
  BY <1>13, SafeUnlock
<1>14. CASE ObsoletePack(p)
  BY <1>14, SafeObsolete
<1>15. CASE WriteFails(p)
  BY <1>15, SafeWriteFails
<1>16. CASE ClearFails(p)
  BY <1>16 DEF ClearFails
<1>17. CASE CountRevisions(p)
  <2>1. PICK x \in mem[p] : x \notin packs
    BY <1>17 DEF CountRevisions
  <2>2. "plan" \in Quiet
    BY DEF Quiet
  <2> QED
    BY <1>17, <2>1, <2>2, ReloadStep DEF CountRevisions
<1>18. CASE CountAgain(p)
  BY <1>18, UnretriedStep DEF CountAgain
<1> QED
  BY <1>1, <1>2, <1>3, <1>4, <1>5, <1>6, <1>7, <1>8, <1>9, <1>10, <1>11, <1>12, <1>13,
     <1>14, <1>15, <1>16, <1>17, <1>18 DEF Step

-----------------------------------------------------------------------------
(* A kill and a break of the lock, and all steps together *)

LEMMA SafeKill ==
  ASSUME TypeInv, TypeInv', SafeInv, NEW p \in Procs, Kill(p)
  PROVE  SafeInv'
<1> USE DEF Written
<1>1. /\ Others(p) /\ pc'[p] = "dead" /\ mem'[p] = {} /\ atLoad'[p] = {} /\ resumed'[p] = {}
      /\ plan'[p] = {} /\ upload' = upload \cup resumed[p]
      /\ UNCHANGED <<names, packs, failed, history>>
  BY DEF Kill, Others, TypeInv
<1>2. /\ \A q \in Procs \ {p} : Pend(q)' = Pend(q) /\ Gone(q)' = Gone(q)
                               /\ DiskNodes(q)' = DiskNodes(q)
      /\ Pend(p)' = {} /\ Gone(p)' = {}
  BY <1>1 DEF Others, Pend, Gone, DiskNodes
<1>3. StagedOK' /\ MadeOK'
  BY <1>1 DEF SafeInv, PackInv, StagedOK, MadeOK, Others
<1>4. RevsOK'
  <2>1. RevsOf({}) = {}
    BY RevsOfOne
  <2> QED
    BY <1>1, <1>2, <2>1 DEF SafeInv, PackInv, RevsOK, Others
<1>5. \A q \in Procs : LockOK(q)'
  BY <1>1 DEF Kill, Die, SafeInv, PackInv, LockOK, Others, TypeInv
<1>6. \A q \in Procs : PendingOK(q)'
  BY <1>1, <1>2 DEF SafeInv, PackInv, PendingOK, Others
<1>7. \A q \in Procs : PlanOK(q)'
  <2>1. PlanOK(p)'
    BY <1>1 DEF PlanOK, Saving
  <2>2. ASSUME NEW q \in Procs \ {p} PROVE PlanOK(q)'
    BY <1>1, <1>2 DEF SafeInv, PackInv, PlanOK, Others, Saving
  <2> QED
    BY <2>1, <2>2
<1> QED
  BY <1>1, <1>3, <1>4, <1>5, <1>6, <1>7
     DEF SafeInv, PackInv, NamesHaveFiles, NothingLost, ReloadAlwaysHelps

\* Only who holds the lock is promised it, and its holder is dead.
LEMMA SafeBreak ==
  ASSUME TypeInv, TypeInv', SafeInv, BreakNamesLock
  PROVE  SafeInv'
<1>1. /\ UNCHANGED <<inside, alive, disk, flow, memory, group, work, history>>
      /\ lock \notin alive
  BY DEF BreakNamesLock, Break
<1>2. \A q \in Procs : Pend(q)' = Pend(q) /\ Gone(q)' = Gone(q) /\ DiskNodes(q)' = DiskNodes(q)
  BY <1>1 DEF Pend, Gone, DiskNodes
<1>3. StagedOK' /\ MadeOK' /\ RevsOK'
  BY <1>1, <1>2 DEF SafeInv, PackInv, StagedOK, MadeOK, RevsOK
<1>4. \A q \in Procs : LockOK(q)'
  BY <1>1 DEF SafeInv, PackInv, LockOK, Written
<1>5. \A q \in Procs : PendingOK(q)' /\ PlanOK(q)'
  BY <1>1, <1>2 DEF SafeInv, PackInv, PendingOK, PlanOK
<1> QED
  BY <1>1, <1>3, <1>4, <1>5
     DEF SafeInv, PackInv, NamesHaveFiles, NothingLost, ReloadAlwaysHelps

LEMMA SafeInit == PInit => SafeInv
<1> SUFFICES ASSUME PInit PROVE SafeInv
  OBVIOUS
<1>1. \A p \in Procs : Pend(p) = {} /\ Gone(p) = {}
  BY DEF PInit, Pend, Gone
<1>2. RevsOf({}) = {}
  BY RevsOfOne
<1>3. StagedOK /\ MadeOK /\ RevsOK
  BY <1>1, <1>2 DEF PInit, StagedOK, MadeOK, RevsOK
<1>4. \A p \in Procs : LockOK(p) /\ PendingOK(p) /\ PlanOK(p)
  BY <1>1 DEF PInit, MInit, LockOK, PendingOK, PlanOK, Written, Saving
<1> QED
  BY <1>2, <1>3, <1>4
     DEF PInit, SafeInv, PackInv, NamesHaveFiles, NothingLost, ReloadAlwaysHelps

LEMMA SafeNext ==
  ASSUME ~SameBytes, Faulty = {}
  PROVE  TypeInv /\ SafeInv /\ [PNext]_vars => SafeInv'
<1> SUFFICES ASSUME TypeInv, SafeInv, [PNext]_vars PROVE SafeInv'
  OBVIOUS
<1>1. TypeInv'
  BY TypeNext
<1>2. CASE BreakNamesLock
  BY <1>1, <1>2, SafeBreak
<1>3. CASE \E p \in Procs : Step(p) \/ Call(p) \/ Kill(p)
  BY <1>1, <1>3, SafeStep, SafeCall, SafeKill
<1>4. CASE UNCHANGED vars
  <2>1. \A q \in Procs : Pend(q)' = Pend(q) /\ Gone(q)' = Gone(q) /\ DiskNodes(q)' = DiskNodes(q)
    BY <1>4 DEF Pend, Gone, DiskNodes
  <2>2. StagedOK' /\ MadeOK' /\ RevsOK'
    BY <1>4, <2>1 DEF SafeInv, PackInv, StagedOK, MadeOK, RevsOK
  <2>3. \A q \in Procs : LockOK(q)' /\ PendingOK(q)' /\ PlanOK(q)'
    BY <1>4, <2>1 DEF SafeInv, PackInv, LockOK, PendingOK, PlanOK
  <2> QED
    BY <1>4, <2>2, <2>3
       DEF SafeInv, PackInv, NamesHaveFiles, NothingLost, ReloadAlwaysHelps
<1> QED
  BY <1>2, <1>3, <1>4 DEF PNext

LEMMA SafeSpec ==
  ASSUME ~SameBytes, Faulty = {}
  PROVE  PSpec => [](TypeInv /\ SafeInv)
<1>1. TypeInv /\ SafeInv /\ [PNext]_vars => (TypeInv /\ SafeInv)'
  BY TypeNext, SafeNext
<1> QED
  BY <1>1, TypeInit, SafeInit, PTL DEF PSpec

(* Whatever savers, packers and kills do, pack-names lists only packs whose   *)
(* files are in packs/.                                                       *)
THEOREM PackFilesExist ==
  ASSUME ~SameBytes, Faulty = {}
  PROVE  PSpec => []NamesHaveFiles
<1>1. TypeInv /\ SafeInv => NamesHaveFiles
  BY DEF SafeInv
<1> QED
  BY <1>1, SafeSpec, PTL

(* No revision that pack-names gave access to is ever lost.                   *)
THEOREM SavesLoseNothing ==
  ASSUME ~SameBytes, Faulty = {}
  PROVE  PSpec => []NothingLost
<1>1. TypeInv /\ SafeInv => NothingLost
  BY DEF SafeInv
<1> QED
  BY <1>1, SafeSpec, PTL

(* Where a missing file is answered by a reload, the names are always others, *)
(* and the operation tries again.  It says nothing of what is read without a  *)
(* reload: what Unretried stands for, and find_ancestry.                      *)
THEOREM RetriesNeverFail ==
  ASSUME ~SameBytes, Faulty = {}
  PROVE  PSpec => []ReloadAlwaysHelps
<1>1. TypeInv /\ SafeInv => ReloadAlwaysHelps
  BY DEF SafeInv
<1> QED
  BY <1>1, SafeSpec, PTL

(* _obsolete_packs moves only packs that pack-names no longer lists and whose *)
(* revisions it lists elsewhere.                                              *)
THEOREM ObsoleteIsReplaced ==
  ASSUME ~SameBytes, Faulty = {}
  PROVE  PSpec => []ObsoleteAfterPublish
<1>1. TypeInv /\ SafeInv => ObsoleteAfterPublish
  BY DEF SafeInv, PackInv, PlanOK, ObsoleteAfterPublish
<1> QED
  BY <1>1, SafeSpec, PTL

-----------------------------------------------------------------------------
(* What a process sees *)

ViewStep == \A p \in alive' : RevsOf(mem[p]) \subseteq RevsOf(mem'[p])

\* A reload keeps what p saw.
LEMMA ViewReload ==
  ASSUME TypeInv, SafeInv, NEW p \in Procs, pc[p] \notin Written, ReloadPackNames(p)
  PROVE  \A q \in Procs : RevsOf(mem[q]) \subseteq RevsOf(mem'[q])
<1>1. mem'[p] = DiskNodes(p) /\ \A q \in Procs \ {p} : mem'[q] = mem[q]
  BY DEF ReloadPackNames, TypeInv
<1> QED
  BY <1>1, MergeKeeps

LEMMA ViewNext ==
  ASSUME TypeInv, TypeInv', SafeInv, ~SameBytes, Faulty = {}, PNext
  PROVE  ViewStep
<1> USE DEF Written
<1>1. alive' \subseteq Procs
  BY DEF TypeInv
<1>2. CASE UNCHANGED mem
  BY <1>2 DEF ViewStep
<1>3. ASSUME NEW p \in Procs, pc[p] \notin Written, ReloadPackNames(p) PROVE ViewStep
  BY <1>1, <1>3, ViewReload DEF ViewStep
<1>4. ASSUME NEW p \in Procs, NEW l, pc[p] \notin Written, ReloadOrRaise(p, l) PROVE ViewStep
  BY <1>3, <1>4 DEF ReloadOrRaise, Restart, Raise
<1>5. CASE BreakNamesLock
  BY <1>2, <1>5 DEF BreakNamesLock
<1>6. ASSUME NEW p \in Procs, Kill(p) PROVE ViewStep
  <2>1. \A q \in alive' : mem'[q] = mem[q]
    BY <1>1, <1>6 DEF Kill, Die, TypeInv
  <2> QED
    BY <2>1 DEF ViewStep
<1>7. ASSUME NEW p \in Procs, Call(p) PROVE ViewStep
  <2>1. CASE Lock(p)
    BY <1>3, <2>1 DEF Lock
  <2>2. CASE ReadIndex(p) \/ ReadOtherIndex(p)
    BY <1>2, <1>4, <2>2 DEF ReadIndex, ReadOtherIndex
  <2>3. CASE CommitWriteGroup(p)
    <3>1. mem[p] \subseteq mem'[p] /\ \A q \in Procs \ {p} : mem'[q] = mem[q]
      BY <2>3 DEF CommitWriteGroup, TypeInv
    <3> QED
      BY <1>1, <3>1, RevsOfMono DEF ViewStep
  <2>4. CASE \/ Unlock(p) \/ StartWriteGroup(p) \/ Insert(p) \/ AbortWriteGroup(p)
             \/ SuspendWriteGroup(p) \/ ResumeWriteGroup(p) \/ Pack(p)
    BY <1>2, <2>4 DEF Unlock, StartWriteGroup, Insert, AbortWriteGroup, SuspendWriteGroup,
                      ResumeWriteGroup, Pack
  <2> QED
    BY <1>7, <2>1, <2>2, <2>3, <2>4 DEF Call
<1>8. ASSUME NEW p \in Procs, Step(p) PROVE ViewStep
  <2>1. CASE ReadData(p)
    BY <1>2, <1>3, <1>4, <2>1 DEF ReadData
  <2>2. CASE CopyPack(p)
    BY <1>2, <1>4, <2>2 DEF CopyPack, Unretried
  <2>3. CASE FinishPack(p)
    <3> DEFINE N == NewName(RevsOf(plan[p]))
    <3>1. RevsOf(plan[p]) \subseteq Revs /\ NewNames(RevsOf(plan[p])) # {}
      BY <2>3, RevsOfType DEF TypeInv, FinishPack
    <3>2. RevsOf({N}) = RevsOf(plan[p])
      BY <3>1, NewNameFacts, RevsOfOne
    <3>3. mem'[p] = (mem[p] \ plan[p]) \cup {N} /\ \A q \in Procs \ {p} : mem'[q] = mem[q]
      BY <2>3 DEF FinishPack, TypeInv
    <3>4. RevsOf(mem'[p]) = RevsOf(mem[p] \ plan[p]) \cup RevsOf({N})
      BY <3>3, RevsOfUnion
    <3>5. RevsOf(mem[p]) \subseteq RevsOf(mem[p] \ plan[p]) \cup RevsOf(plan[p])
      BY RevsOfCover
    <3> QED
      BY <1>1, <3>2, <3>3, <3>4, <3>5 DEF ViewStep
  <2>4. CASE UnlockNames(p)
    <3>1. mem'[p] = merged[p] /\ \A q \in Procs \ {p} : mem'[q] = mem[q]
      BY <2>4 DEF UnlockNames, TypeInv
    <3>2. merged[p] = names /\ RevsOf(mem[p]) \subseteq RevsOf(names)
      BY <2>4 DEF UnlockNames, SafeInv, PackInv, PlanOK
    <3> QED
      BY <1>1, <3>1, <3>2 DEF ViewStep
  <2>5. CASE \/ NoAutopack(p) \/ PlanPacking(p) \/ PackExists(p) \/ AlreadyPacked(p)
             \/ CleanObsolete(p) \/ LockNames(p) \/ NamesContention(p) \/ NamesLocked(p)
             \/ ReadNames(p) \/ WriteNames(p) \/ WriteFails(p) \/ ClearObsolete(p)
             \/ ClearFails(p) \/ ObsoletePack(p) \/ CountAgain(p)
    BY <1>2, <2>5 DEF NoAutopack, PlanPacking, PackExists, AlreadyPacked, CleanObsolete,
       LockNames, NamesContention, NamesLocked, ReadNames, WriteNames, WriteFails,
       ClearObsolete, ClearFails, ObsoletePack, CountAgain, Unretried
  <2>6. CASE CountRevisions(p)
    BY <1>4, <2>6 DEF CountRevisions
  <2> QED
    BY <1>8, <2>1, <2>2, <2>3, <2>4, <2>5, <2>6 DEF Step
<1> QED
  BY <1>5, <1>6, <1>7, <1>8 DEF PNext

(* No reload, merge or packing takes a revision out of a process's sight.     *)
THEOREM ViewsGrow ==
  ASSUME ~SameBytes, Faulty = {}
  PROVE  PSpec => ViewGrows
<1>1. TypeInv /\ SafeInv /\ TypeInv' /\ [PNext]_vars => [ViewStep]_vars
  BY ViewNext
<1> QED
  BY <1>1, SafeSpec, PTL DEF PSpec, ViewGrows, ViewStep

=============================================================================
