----------------------------- MODULE TreeProofs -----------------------------
(***************************************************************************)
(* Theorems about DirState, for any processes, objects, changes and        *)
(* limits: as long as no process has a tree open twice, the locks keep     *)
(* every memory current, every read whole and every save from undoing      *)
(* another one.  And about StatCache: neither the dirstate nor the hash    *)
(* cache trusts a stale sha1, for any contents, times, and file systems    *)
(* whose time stamps trail the clock by up to the window (the hash cache:  *)
(* less what reading the file takes).                                      *)
(***************************************************************************)
EXTENDS DirState, StatCache, TLAPS

-----------------------------------------------------------------------------
(* DirState *)

\* What the kernel guarantees.
Kernel ==
  \A p, q \in Procs : p # q /\ os[p].lock = "ex" => os[q].lock = "none"

\* An object that works has the kernel lock its token stands for.
Tokens ==
  \A o \in Objs :
    /\ pc[o] = "open" => token[o] \in {"r", "w"}
    /\ pc[o] = "unlock" => token[o] \in {"r", "w"}
    /\ pc[o] = "tree" \/ token[o] = "w" => o \notin RevTrees
    /\ pc[o] = "save" => token[o] = "w"
    /\ pc[o] \in Saving => token[o] \in {"w", "t"}
    /\ Alive(o) /\ token[o] \in {"r", "t"} => os[owner[o]].r > 0
    /\ Alive(o) /\ pc[o] = "open" => os[owner[o]].lock # "none"
    /\ Alive(o) /\ pc[o] \in {"open", "unlock"} /\ token[o] = "w" => os[owner[o]].lock = "ex"
    /\ Alive(o) /\ pc[o] \in Saving => os[owner[o]].lock = "ex"

\* How what it has in memory relates to the file.
Current ==
  \A o \in Objs : Alive(o) =>
    /\ pc[o] = "open" /\ Loaded(o) => file.has \subseteq mem[o].has
    /\ pc[o] \in Saving => file.has = mem[o].has
    /\ ~Loaded(o) => mem[o] = Nothing
    /\ pc[o] = "open" /\ token[o] = "w" /\ state[o] # "IN_MEMORY_MODIFIED"
         => mem[o].has \cap Mods \subseteq file.has
    /\ pc[o] = "unlock" /\ token[o] = "w" /\ ~aborted[o]
         => mem[o].has \cap Mods \subseteq file.has

\* Where half a file, and memory that makes no sense, come from.
Sound ==
  /\ ~file.whole => \E o \in Objs : pc[o] \in Saving
  /\ \A o \in Objs : Alive(o) /\ Loaded(o) /\ ~mem[o].whole /\ ~aborted[o]
       => /\ state[o] = "IN_MEMORY_UNMODIFIED"
          /\ \E x \in Objs : pc[x] \in Saving /\ ~Alive(x)
  /\ \A o \in Objs : Alive(o) /\ pc[o] \in Saving => ~aborted[o] /\ mem[o].whole

DInv == DTypeOK /\ Kernel /\ Tokens /\ Current /\ Sound

USE DEF dvars, memory, At, Goto

OSType == [Procs -> [lock : {"none", "sh", "ex"}, w : BOOLEAN, r : Nat]]

\* Boolean-valued functions are stated once, since the provers treat them apart.
LEMMA FlagType ==
  ASSUME NEW f \in [Objs -> BOOLEAN], NEW o \in Objs, NEW b \in BOOLEAN
  PROVE  [f EXCEPT ![o] = b] \in [Objs -> BOOLEAN]
OBVIOUS

\* Each operation on the kernel's locks keeps their type.
LEMMA OSTypes ==
  ASSUME DTypeOK, NEW p \in Procs
  PROVE  /\ TakeShared(p) => os' \in OSType
         /\ TakeExclusive(p) => os' \in OSType
         /\ ShareRefused(p) => os' \in OSType
         /\ ExcludeRefused(p) => os' \in OSType
         /\ DropExclusive(p) => os' \in OSType
         /\ os[p].r > 0 /\ DropShared(p) => os' \in OSType
<1> USE DEF DTypeOK, OSType
<1>1. TakeShared(p) => os' \in OSType
  BY DEF TakeShared
<1>2. TakeExclusive(p) => os' \in OSType
  BY ZenonT(40) DEF TakeExclusive
<1>3. ShareRefused(p) => os' \in OSType
  BY DEF ShareRefused
<1>4. ExcludeRefused(p) => os' \in OSType
  BY DEF ExcludeRefused
<1>5. DropExclusive(p) => os' \in OSType
  BY ZenonT(40) DEF DropExclusive
<1>6. os[p].r > 0 /\ DropShared(p) => os' \in OSType
  BY DEF DropShared
<1>7. QED
  BY <1>1, <1>2, <1>3, <1>4, <1>5, <1>6

\* Forgetting everything keeps the types of what is in memory.
LEMMA WipeType ==
  ASSUME DTypeOK, NEW o \in Objs, Wipe(o)
  PROVE  /\ state' \in [Objs -> {"NOT_IN_MEMORY", "IN_MEMORY_UNMODIFIED",
                                 "IN_MEMORY_HASH_MODIFIED", "IN_MEMORY_MODIFIED"}]
         /\ mem' \in [Objs -> Content] /\ known' \in [Objs -> SUBSET Hashes]
         /\ aborted' \in [Objs -> BOOLEAN]
<1>1. aborted' \in [Objs -> BOOLEAN]
  BY FlagType DEF DTypeOK, Wipe
<1>2. Nothing \in Content
  BY DEF Nothing, Content
<1>3. QED
  BY <1>1, <1>2 DEF DTypeOK, Wipe

LEMMA InitInv == DInit => DInv
BY DirStateAssumption DEF DInit, DInv, DTypeOK, Kernel, Tokens, Current, Sound, Content,
   Nothing, Unlocked, Saving, Alive, Loaded, DirStateAssumption

LEMMA LockReadInv ==
  ASSUME DInv, Apart, NEW o \in Objs, LockRead(o)
  PROVE  DInv'
<1> USE DEF DInv, LockRead, CanShare
<1>1. DTypeOK'
  <2>1. owner[o] \in Procs
    BY DEF DTypeOK
  <2>2. os' \in OSType
    BY <2>1, OSTypes
  <2>3. QED
    BY <2>2, WipeType DEF DTypeOK, OSType
<1>2. Kernel'
  BY DEF TakeShared, ShareRefused, Wipe, DTypeOK, Kernel, Tokens, Saving, Alive
<1>3. Tokens'
  BY DEF TakeShared, ShareRefused, Wipe, DTypeOK, Tokens, Kernel, Apart, Saving, Alive
<1>4. Current'
  BY DEF TakeShared, ShareRefused, Wipe, DTypeOK, Kernel, Tokens, Current, Sound, Apart, Saving, Alive, Loaded, Content, Nothing
<1>5. Sound'
  BY DEF TakeShared, ShareRefused, Wipe, DTypeOK, Kernel, Tokens, Sound, Apart, Saving, Alive, Loaded, Nothing
<1>6. QED
  BY <1>1, <1>2, <1>3, <1>4, <1>5

LEMMA LockTreeInv ==
  ASSUME DInv, Apart, NEW o \in Objs, LockTree(o)
  PROVE  DInv'
<1> USE DEF DInv, LockTree
<1>1. DTypeOK'
  BY DEF DTypeOK, Content, Nothing, Loaded
<1>2. Kernel'
  BY DEF DTypeOK, Kernel, Tokens, Saving, Alive
<1>3. Tokens'
  BY DEF DTypeOK, Tokens, Kernel, Apart, Saving, Alive
<1>4. Current'
  BY DEF DTypeOK, Kernel, Tokens, Current, Sound, Apart, Saving, Alive, Loaded, Content, Nothing
<1>5. Sound'
  BY DEF DTypeOK, Kernel, Tokens, Sound, Apart, Saving, Alive, Loaded, Nothing
<1>6. QED
  BY <1>1, <1>2, <1>3, <1>4, <1>5

LEMMA LockDirstateInv ==
  ASSUME DInv, Apart, NEW o \in Objs, LockDirstate(o)
  PROVE  DInv'
<1> USE DEF DInv, LockDirstate, CanExclude, ReleaseTreeLock
<1>1. DTypeOK'
  <2>1. owner[o] \in Procs
    BY DEF DTypeOK
  <2>2. os' \in OSType
    BY <2>1, OSTypes DEF DTypeOK, OSType
  <2>3. treelock' \in Objs \cup {NoOne}
    BY DEF DTypeOK
  <2>4. QED
    BY <2>2, <2>3, WipeType DEF DTypeOK, OSType
<1>2. Kernel'
  BY SMTT(40) DEF TakeExclusive, ExcludeRefused, Wipe, DTypeOK, Kernel, Tokens, Saving, Alive
<1>3. Tokens'
  BY DEF TakeExclusive, ExcludeRefused, Wipe, DTypeOK, Tokens, Kernel, Apart, Saving, Alive
<1>4. Current'
  <2>1. pc[o] = "tree" /\ pc'[o] \in {"open", "idle"} /\ \A x \in Objs \ {o} : pc'[x] = pc[x]
    BY DEF DTypeOK
  <2>2. ~Loaded(o)' /\ mem'[o] = Nothing
    BY DEF Wipe, Loaded, DTypeOK
  <2>3. \A x \in Objs \ {o} : /\ mem'[x] = mem[x] /\ state'[x] = state[x]
                               /\ aborted'[x] = aborted[x] /\ token'[x] = token[x]
    BY DEF Wipe, DTypeOK
  <2>4. QED
    BY <2>1, <2>2, <2>3 DEF Current, Saving, Alive, Loaded, Nothing
<1>5. Sound'
  BY SMTT(30) DEF TakeExclusive, ExcludeRefused, Wipe, DTypeOK, Kernel, Tokens, Sound, Apart, Saving, Alive, Loaded,
     Nothing
<1>6. QED
  BY <1>1, <1>2, <1>3, <1>4, <1>5

LEMMA ReadInv ==
  ASSUME DInv, Apart, NEW o \in Objs, Read(o)
  PROVE  DInv'
<1> USE DEF DInv, Read
<1>1. DTypeOK'
  BY DEF DTypeOK, Content, Nothing, Loaded
<1>2. Kernel'
  BY DEF DTypeOK, Kernel, Tokens, Saving, Alive
<1>3. Tokens'
  BY DEF DTypeOK, Tokens, Kernel, Apart, Saving, Alive
<1>4. Current'
  BY DEF DTypeOK, Kernel, Tokens, Current, Sound, Apart, Saving, Alive, Loaded, Content, Nothing
<1>5. Sound'
  BY DEF DTypeOK, Kernel, Tokens, Sound, Apart, Saving, Alive, Loaded, Nothing
<1>6. QED
  BY <1>1, <1>2, <1>3, <1>4, <1>5

LEMMA FailDeltaInv ==
  ASSUME DInv, Apart, NEW o \in Objs, FailDelta(o)
  PROVE  DInv'
<1> USE DEF DInv, FailDelta, Usable
<1>1. DTypeOK'
  BY DEF DTypeOK, Content, Nothing, Loaded
<1>2. Kernel'
  BY DEF DTypeOK, Kernel, Tokens, Saving, Alive
<1>3. Tokens'
  BY DEF DTypeOK, Tokens, Kernel, Apart, Saving, Alive
<1>4. Current'
  BY DEF DTypeOK, Kernel, Tokens, Current, Sound, Apart, Saving, Alive, Loaded, Content, Nothing
<1>5. Sound'
  BY DEF DTypeOK, Kernel, Tokens, Sound, Apart, Saving, Alive, Loaded, Nothing
<1>6. QED
  BY <1>1, <1>2, <1>3, <1>4, <1>5

LEMMA FlushInv ==
  ASSUME DInv, Apart, NEW o \in Objs, Flush(o)
  PROVE  DInv'
<1> USE DEF DInv, Flush, SaveAsWriter, StartWriting, WillSave, WorthSaving
<1>1. DTypeOK'
  BY DEF DTypeOK, Content, Nothing, Loaded
<1>2. Kernel'
  BY DEF DTypeOK, Kernel, Tokens, Saving, Alive
<1>3. Tokens'
  BY DEF DTypeOK, Tokens, Kernel, Apart, Saving, Alive
<1>4. Current'
  BY DEF DTypeOK, Kernel, Tokens, Current, Sound, Apart, Saving, Alive, Loaded, Content, Nothing
<1>5. Sound'
  BY DEF DTypeOK, Kernel, Tokens, Sound, Apart, Saving, Alive, Loaded, Nothing
<1>6. QED
  BY <1>1, <1>2, <1>3, <1>4, <1>5

LEMMA UnlockInv ==
  ASSUME DInv, Apart, NEW o \in Objs, Unlock(o)
  PROVE  DInv'
<1> USE DEF DInv, DTypeOK
<1> DEFINE p == owner[o]
<1>1. p \in Procs /\ Alive(o) /\ pc[o] = "open"
  BY DEF Unlock, Alive
<1>2. UNCHANGED <<owner, treelock, memory, dead>>
  BY DEF Unlock
<1>3. CASE SaveAsWriter(o, "save_then_unlock") /\ WillSave(o)
  <2> USE DEF SaveAsWriter, StartWriting
  <2>1. DTypeOK'
    BY <1>2, <1>3 DEF Content
  <2>2. Kernel' /\ Tokens'
    BY <1>1, <1>2, <1>3 DEF Kernel, Tokens, Saving, Alive
  <2>3. Current'
    BY <1>1, <1>2, <1>3 DEF Kernel, Tokens, Current, Apart, Saving, Alive, Loaded, Content, Nothing, WillSave, WorthSaving
  <2>4. Sound'
    BY <1>1, <1>2, <1>3 DEF Sound, Saving, Alive, Loaded, WillSave, WorthSaving
  <2>5. QED
    BY <2>1, <2>2, <2>3, <2>4
<1>4. CASE SaveAsReader(o) /\ WillSave(o)
  <2> USE DEF SaveAsReader, StartWriting, MayUpgrade
  <2>1. os' \in OSType
    BY <1>1, <1>4, OSTypes
  <2>2. DTypeOK'
    BY <1>2, <1>4, <2>1, ZenonT(40) DEF Content, OSType
  <2>3. Kernel'
    BY <1>1, <1>4 DEF Kernel, CanExclude, TakeExclusive
  <2>4. Tokens'
    BY <1>1, <1>2, <1>4 DEF Tokens, Apart, Saving, Alive, TakeExclusive
  <2>5. Current'
    BY <1>1, <1>2, <1>4 DEF Kernel, Tokens, Current, Apart, Saving, Alive, Loaded, Content, Nothing, WillSave, WorthSaving, CanExclude
  <2>6. Sound'
    BY <1>1, <1>2, <1>4 DEF Sound, Saving, Alive, Loaded, WillSave, WorthSaving
  <2>7. QED
    BY <2>2, <2>3, <2>4, <2>5, <2>6
<1>5. CASE UpgradeRefused(o)
  <2> USE DEF UpgradeRefused
  <2>1. os' \in OSType
    BY <1>1, <1>5, OSTypes DEF OSType
  <2>2. DTypeOK'
    BY <1>2, <1>5, <2>1 DEF OSType
  <2>3. Kernel' /\ Tokens'
    <3>1. os' = os \/ ExcludeRefused(p)
      BY <1>5
    <3>2. CASE os' = os
      BY <1>1, <1>2, <1>5, <3>2 DEF Kernel, Tokens, Saving, Alive
    <3>3. CASE ExcludeRefused(p)
      <4>1. Kernel'
        BY <1>1, <3>3 DEF Kernel, ExcludeRefused
      <4>2. Tokens'
        BY <1>1, <1>2, <1>5, <3>3 DEF Tokens, Apart, Saving, Alive, ExcludeRefused
      <4>3. QED
        BY <4>1, <4>2
    <3>4. QED
      BY <3>1, <3>2, <3>3
  <2>4. Current'
    BY <1>1, <1>2, <1>5 DEF Current, Saving, Alive, Loaded
  <2>5. Sound'
    BY <1>1, <1>2, <1>5 DEF Sound, Saving, Alive, Loaded
  <2>6. QED
    BY <2>2, <2>3, <2>4, <2>5
<1>6. CASE UpgradeRaises(o)
  BY <1>1, <1>2, <1>6 DEF UpgradeRaises, Kernel, Tokens, Current, Sound, Saving, Alive, Loaded
<1>7. CASE /\ o \in RevTrees \/ ~WillSave(o)
           /\ Goto(o, "unlock") /\ UNCHANGED <<file, os, token>>
  <2>1. DTypeOK' /\ Kernel' /\ Tokens'
    BY <1>1, <1>2, <1>7 DEF Kernel, Tokens, Saving, Alive
  <2>2. Current'
    BY <1>1, <1>2, <1>7 DEF Tokens, Current, Saving, Alive, Loaded, WillSave, WorthSaving
  <2>3. Sound'
    BY <1>1, <1>2, <1>7 DEF Sound, Saving, Alive, Loaded
  <2>4. QED
    BY <2>1, <2>2, <2>3
<1>8. QED
  BY <1>3, <1>4, <1>5, <1>6, <1>7 DEF Unlock

LEMMA FinishSaveInv ==
  ASSUME DInv, Apart, NEW o \in Objs, FinishSave(o)
  PROVE  DInv'
<1> USE DEF DInv, FinishSave
<1>1. DTypeOK'
  <2>1. owner[o] \in Procs
    BY DEF DTypeOK
  <2>2. os' \in OSType
    BY <2>1, OSTypes DEF DTypeOK, OSType
  <2>3. QED
    BY <2>2 DEF DTypeOK, OSType
<1>2. Kernel'
  BY DEF DropExclusive, DTypeOK, Kernel, Tokens, Saving, Alive
<1>3. Tokens'
  BY SMTT(40) DEF DropExclusive, DTypeOK, Tokens, Kernel, Apart, Saving, Alive
<1>4. Current'
  BY DEF DTypeOK, Kernel, Tokens, Current, Sound, Apart, Saving, Alive, Loaded, Content, Nothing
<1>5. Sound'
  BY DEF DropExclusive, DTypeOK, Kernel, Tokens, Sound, Apart, Saving, Alive, Loaded, Nothing
<1>6. QED
  BY <1>1, <1>2, <1>3, <1>4, <1>5

LEMMA UnlockDirstateInv ==
  ASSUME DInv, Apart, NEW o \in Objs, UnlockDirstate(o)
  PROVE  DInv'
<1> USE DEF DInv, UnlockDirstate
<1>1. DTypeOK'
  <2>1. owner[o] \in Procs
    BY DEF DTypeOK
  <2>2. os' \in OSType
    BY <2>1, OSTypes DEF Tokens, Alive
  <2>3. QED
    BY <2>2, WipeType DEF DTypeOK, OSType
<1>2. Kernel'
  BY SMTT(40) DEF DropExclusive, DropShared, Wipe, DTypeOK, Kernel, Tokens, Saving, Alive
<1>3. Tokens'
  BY DEF DropExclusive, DropShared, Wipe, DTypeOK, Tokens, Kernel, Apart, Saving, Alive
<1>4. Current'
  BY DEF DropExclusive, DropShared, Wipe, DTypeOK, Kernel, Tokens, Current, Sound, Apart, Saving, Alive, Loaded, Content, Nothing
<1>5. Sound'
  BY DEF DropExclusive, DropShared, Wipe, DTypeOK, Kernel, Tokens, Sound, Apart, Saving, Alive, Loaded, Nothing
<1>6. QED
  BY <1>1, <1>2, <1>3, <1>4, <1>5

LEMMA UnlockTreeInv ==
  ASSUME DInv, Apart, NEW o \in Objs, UnlockTree(o)
  PROVE  DInv'
<1> USE DEF DInv, UnlockTree, ReleaseTreeLock
<1>1. DTypeOK'
  BY DEF DTypeOK, Content, Nothing, Loaded
<1>2. Kernel'
  BY DEF DTypeOK, Kernel, Tokens, Saving, Alive
<1>3. Tokens'
  BY DEF DTypeOK, Tokens, Kernel, Apart, Saving, Alive
<1>4. Current'
  BY DEF DTypeOK, Kernel, Tokens, Current, Sound, Apart, Saving, Alive, Loaded, Content, Nothing
<1>5. Sound'
  BY DEF DTypeOK, Kernel, Tokens, Sound, Apart, Saving, Alive, Loaded, Nothing
<1>6. QED
  BY <1>1, <1>2, <1>3, <1>4, <1>5

LEMMA ProbeInv ==
  ASSUME DInv, Apart, NEW o \in Objs, Probe(o)
  PROVE  DInv'
<1> USE DEF DInv, Probe, CanExclude, ExcludeRefused
<1>1. DTypeOK'
  BY DEF DTypeOK, Content, Nothing, Loaded
<1>2. Kernel'
  BY DEF DTypeOK, Kernel, Tokens, Saving, Alive
<1>3. Tokens'
  BY DEF DTypeOK, Tokens, Kernel, Apart, Saving, Alive
<1>4. Current'
  BY DEF DTypeOK, Kernel, Tokens, Current, Sound, Apart, Saving, Alive, Loaded, Content, Nothing
<1>5. Sound'
  BY DEF DTypeOK, Kernel, Tokens, Sound, Apart, Saving, Alive, Loaded, Nothing
<1>6. QED
  BY <1>1, <1>2, <1>3, <1>4, <1>5

LEMMA BreakTreeInv ==
  ASSUME DInv, Apart, NEW o \in Objs, BreakTree(o)
  PROVE  DInv'
<1> USE DEF DInv, BreakTree
<1>1. DTypeOK'
  BY DEF DTypeOK, Content, Nothing, Loaded
<1>2. Kernel'
  BY DEF DTypeOK, Kernel, Tokens, Saving, Alive
<1>3. Tokens'
  BY DEF DTypeOK, Tokens, Kernel, Apart, Saving, Alive
<1>4. Current'
  BY DEF DTypeOK, Kernel, Tokens, Current, Sound, Apart, Saving, Alive, Loaded, Content, Nothing
<1>5. Sound'
  BY DEF DTypeOK, Kernel, Tokens, Sound, Apart, Saving, Alive, Loaded, Nothing
<1>6. QED
  BY <1>1, <1>2, <1>3, <1>4, <1>5

LEMMA ModifyInv ==
  ASSUME DInv, Apart, NEW o \in Objs, NEW m \in Mods, Modify(o, m)
  PROVE  DInv'
<1> USE DEF DInv, Modify, Usable
<1>1. DTypeOK'
  BY DEF DTypeOK, Content, Nothing, Loaded
<1>2. Kernel'
  BY DEF DTypeOK, Kernel, Tokens, Saving, Alive
<1>3. Tokens'
  BY DEF DTypeOK, Tokens, Kernel, Apart, Saving, Alive
<1>4. Current'
  BY DEF DTypeOK, Kernel, Tokens, Current, Sound, Apart, Saving, Alive, Loaded, Content, Nothing
<1>5. Sound'
  BY DEF DTypeOK, Kernel, Tokens, Sound, Apart, Saving, Alive, Loaded, Nothing
<1>6. QED
  BY <1>1, <1>2, <1>3, <1>4, <1>5

LEMMA LearnHashInv ==
  ASSUME DInv, Apart, NEW o \in Objs, NEW h \in Hashes, LearnHash(o, h)
  PROVE  DInv'
<1> USE DEF DInv, LearnHash, Usable
<1>1. DTypeOK'
  BY DEF DTypeOK, Content, Nothing, Loaded
<1>2. Kernel'
  BY DEF DTypeOK, Kernel, Tokens, Saving, Alive
<1>3. Tokens'
  BY DEF DTypeOK, Tokens, Kernel, Apart, Saving, Alive
<1>4. Current'
  <2>1. mem'[o].has = mem[o].has \cup {h} /\ mem'[o].has \cap Mods = mem[o].has \cap Mods
    BY DirStateAssumption DEF DirStateAssumption, DTypeOK, Content
  <2>2. Loaded(o) /\ pc[o] = "open" /\ (state'[o] = "IN_MEMORY_MODIFIED" <=> state[o] = "IN_MEMORY_MODIFIED")
    BY DEF DTypeOK
  <2>3. \A x \in Objs \ {o} : mem'[x] = mem[x] /\ state'[x] = state[x]
    BY DEF DTypeOK
  <2>4. state'[o] # "NOT_IN_MEMORY"
    BY <2>2 DEF DTypeOK, Loaded
  <2>5. QED
    BY <2>1, <2>2, <2>3, <2>4 DEF Current, Saving, Alive, Loaded
<1>5. Sound'
  BY DEF DTypeOK, Kernel, Tokens, Sound, Apart, Saving, Alive, Loaded, Nothing
<1>6. QED
  BY <1>1, <1>2, <1>3, <1>4, <1>5

LEMMA KillInv ==
  ASSUME DInv, Apart, NEW p \in Procs, Kill(p)
  PROVE  DInv'
<1> USE DEF DInv, Kill, Unlocked
<1>1. DTypeOK'
  BY DEF DTypeOK, Content, Nothing, Loaded
<1>2. Kernel'
  BY DEF DTypeOK, Kernel, Tokens, Saving, Alive
<1>3. Tokens'
  BY DEF DTypeOK, Tokens, Kernel, Apart, Saving, Alive
<1>4. Current'
  BY DEF DTypeOK, Kernel, Tokens, Current, Sound, Apart, Saving, Alive, Loaded, Content, Nothing
<1>5. Sound'
  BY DEF DTypeOK, Kernel, Tokens, Sound, Apart, Saving, Alive, Loaded, Nothing
<1>6. QED
  BY <1>1, <1>2, <1>3, <1>4, <1>5

LEMMA StepInv ==
  ASSUME DInv, Apart, DNext
  PROVE  DInv'
<1>1. ASSUME NEW o \in Objs, Step(o)
      PROVE  DInv'
  <2>1. CASE \E m \in Mods : Modify(o, m)
    BY <2>1, ModifyInv
  <2>2. CASE \E h \in Hashes : LearnHash(o, h)
    BY <2>2, LearnHashInv
  <2>3. QED
    BY <1>1, <2>1, <2>2, LockReadInv, LockTreeInv, LockDirstateInv, ReadInv, FailDeltaInv,
       FlushInv, UnlockInv, FinishSaveInv, UnlockDirstateInv, UnlockTreeInv, ProbeInv,
       BreakTreeInv DEF Step
<1>2. QED
  BY <1>1, KillInv DEF DNext

\* Objects never change their process.
LEMMA OwnerStays == [DNext]_dvars => UNCHANGED owner
BY DEF DNext, Step, LockRead, LockTree, LockDirstate, Read, Modify, LearnHash, FailDelta,
   Flush, Unlock, FinishSave, UnlockDirstate, UnlockTree, Probe, BreakTree, Kill

LEMMA InductiveInv == DSpec => [](Apart => DInv)
<1>1. DInit => (Apart => DInv)
  BY InitInv
<1>2. (Apart => DInv) /\ [DNext]_dvars => (Apart => DInv)'
  <2> SUFFICES ASSUME Apart => DInv, [DNext]_dvars, Apart'
               PROVE  DInv'
    OBVIOUS
  <2>1. Apart
    BY OwnerStays DEF Apart
  <2>2. CASE DNext
    BY <2>1, <2>2, StepInv
  <2>3. CASE UNCHANGED dvars
    BY <2>1, <2>3 DEF DInv, DTypeOK, Kernel, Tokens, Current, Sound, Saving, Alive, Loaded
  <2>4. QED
    BY <2>2, <2>3
<1>3. QED
  BY <1>1, <1>2, PTL DEF DSpec

\* The types, among them that no process forgets or miscounts a reader it has.
THEOREM DirStateTypes == DSpec => [](Apart => DTypeOK)
<1>1. (Apart => DInv) => (Apart => DTypeOK)
  BY DEF DInv
<1>2. QED
  BY <1>1, InductiveInv, PTL

\* What a tree object has read stays current for as long as it has the tree locked,
\* if its process has it open only once.
THEOREM MemoryStaysCurrent == DSpec => []MemoryIsCurrent
<1>1. (Apart => DInv) => MemoryIsCurrent
  BY DEF DInv, Current, MemoryIsCurrent
<1>2. QED
  BY <1>1, InductiveInv, PTL

\* Half a file is parsed only after its writer died.
THEOREM ReadsStayWhole == DSpec => []ReadsAreWhole
<1>1. (Apart => DInv) => ReadsAreWhole
  BY DEF DInv, Sound, ReadsAreWhole
<1>2. QED
  BY <1>1, InductiveInv, PTL

\* The dirstate on disk makes sense but while it is being written: an abandoned
\* delta never gets there.
THEOREM FileStaysSound == DSpec => []FileSound
<1>1. (Apart => DInv) => FileSound
  BY DEF DInv, Sound, FileSound
<1>2. QED
  BY <1>1, InductiveInv, PTL

\* The file changes only where a save starts, and then to what a memory that is
\* current has.
LEMMA FileGrows ==
  ASSUME DInv, Apart, DNext
  PROVE  file.has \subseteq file'.has
<1>1. ASSUME NEW o \in Objs, Step(o)
      PROVE  file.has \subseteq file'.has
  <2> USE DEF DInv, Current, Loaded, Alive, WillSave, WorthSaving, StartWriting
  <2>1. CASE Flush(o)
    BY <2>1 DEF Flush, SaveAsWriter, DTypeOK, Content
  <2>2. CASE Unlock(o)
    BY <2>2, SMTT(40) DEF Unlock, SaveAsWriter, SaveAsReader, UpgradeRefused, UpgradeRaises, DTypeOK, Content
  <2>3. CASE FinishSave(o)
    BY <2>3 DEF FinishSave, Saving
  <2>4. CASE UNCHANGED file
    BY <2>4
  <2>5. QED
    BY <1>1, <2>1, <2>2, <2>3, <2>4 DEF Step, LockRead, LockTree, LockDirstate, Read, Modify,
       LearnHash, FailDelta, UnlockDirstate, UnlockTree, Probe, BreakTree
<1>2. QED
  BY <1>1 DEF DNext, Kill

\* No save undoes a change that is in the dirstate on disk.
THEOREM NoUpdateIsLost == DSpec => NoLostUpdateApart
<1>1. (Apart => DInv) /\ [DNext]_dvars => [Apart => file.has \subseteq file'.has]_dvars
  BY FileGrows
<1>2. QED
  BY <1>1, InductiveInv, PTL DEF DSpec, NoLostUpdateApart

\* A writer that unlocks has saved what it was asked to change.
THEOREM WritersAlwaysSave == DSpec => WritersAreSaved
<1> DEFINE Saved == \A o \in Objs : Apart /\ pc[o] = "unlock" /\ pc'[o] = "unlock_tree" /\ ~aborted[o]
                      => mem[o].has \cap Mods \subseteq file.has
<1>1. (Apart => DInv) /\ [DNext]_dvars => [Saved]_dvars
  <2> SUFFICES ASSUME DInv, DNext, NEW o \in Objs, pc[o] = "unlock", pc'[o] = "unlock_tree"
               PROVE  Alive(o) /\ token[o] = "w"
    BY DEF DInv, Current
  <2>1. \A x \in Objs : Step(x) /\ x # o => pc'[o] = pc[o]
    BY DEF DInv, DTypeOK, Step, LockRead, LockTree, LockDirstate, Read, Modify, LearnHash, FailDelta,
       Flush, Unlock, FinishSave, UnlockDirstate, UnlockTree, Probe, BreakTree, SaveAsWriter,
       SaveAsReader, UpgradeRefused, UpgradeRaises
  <2>2. Step(o)
    BY <2>1 DEF DNext, Kill
  <2>3. UnlockDirstate(o)
    BY <2>2 DEF DInv, DTypeOK, Step, LockRead, LockTree, LockDirstate, Read, Modify, LearnHash, FailDelta,
       Flush, Unlock, FinishSave, UnlockTree, Probe, BreakTree
  <2>4. QED
    BY <2>3 DEF UnlockDirstate, DInv, DTypeOK, Alive
<1>2. QED
  BY <1>1, InductiveInv, PTL DEF DSpec, WritersAreSaved

-----------------------------------------------------------------------------
(* StatCache *)

\* Whatever is remembered, or is going to be, is older than the window, so that
\* the time stamps of a later change differ from it.
OldEntry ==
  \A e \in {entry, saved} : e # None => e.stat \in Stats /\ e.stat.ctime < now - Window
SavedIsRight == Matches(saved, Stat) => saved.sha = disk.content
OldRead == Doing("update", "read") => call.stat.ctime < now - Window
OldCutoff == cutoff # None => cutoff \in Int /\ cutoff <= now - Window
RightRecord ==
  Doing("observe", "record") =>
    /\ cutoff # None
    /\ call.stat.ctime < cutoff /\ call.stat = Stat => call.sha = disk.content

Typed ==
  /\ now \in Nat
  /\ disk \in [content : Contents, mtime : Times, ctime : Times]
  /\ call.stat \in Stats
  /\ call \in [op : {"none"} \cup Ops, pc : {"idle", "stat", "read", "record"},
               stat : Stats, since : Nat, sha : Contents \cup {None}]

CacheInv ==
  /\ Typed /\ OldEntry /\ OldRead /\ OldCutoff /\ RightRecord
  /\ EntryIsRight /\ SavedIsRight

USE DEF svars, Window, Times, Stats, Stat, Matches, Doing

LEMMA CacheInit == SInit => CacheInv
BY DEF SInit, CacheInv, Typed, OldEntry, OldRead, OldCutoff, RightRecord, EntryIsRight, SavedIsRight, Idle, Ops

\* A change of the file gets a ctime that nothing remembered has.
LEMMA WriteInv ==
  ASSUME CacheInv, NEW c \in Contents, Write(c)
  PROVE  CacheInv'
<1> USE DEF CacheInv
<1>1. PICK t \in 0 .. now :
        /\ t + Lag >= now
        /\ \E m \in {t} \cup SetBack : disk' = [content |-> c, mtime |-> m, ctime |-> t]
  BY DEF Write
<1>m. PICK m \in {t} \cup SetBack : disk' = [content |-> c, mtime |-> m, ctime |-> t]
  BY <1>1
<1>2. t \in Nat /\ m \in Nat /\ t >= now - Window
  BY <1>1, <1>m, StatCacheAssumption DEF StatCacheAssumption, Typed
<1>3. UNCHANGED <<now, entry, saved, cutoff, cache, call>>
  BY DEF Write
<1>4. Typed' /\ OldEntry' /\ OldRead' /\ OldCutoff'
  BY <1>m, <1>2, <1>3 DEF Typed, OldEntry, OldRead, OldCutoff
<1>5. EntryIsRight' /\ SavedIsRight'
  BY <1>m, <1>2, <1>3 DEF Typed, OldEntry, EntryIsRight, SavedIsRight
<1>6. RightRecord'
  BY <1>m, <1>2, <1>3 DEF Typed, OldCutoff, RightRecord
<1>7. QED
  BY <1>4, <1>5, <1>6

LEMMA CacheStep ==
  ASSUME ~LateCutoff, CacheInv, [SNext]_svars
  PROVE  CacheInv'
<1> USE DEF CacheInv, Typed
<1>1. CASE Tick
  BY <1>1 DEF Tick, OldEntry, OldRead, OldCutoff, RightRecord, EntryIsRight, SavedIsRight
<1>2. CASE \E c \in Contents : Write(c)
  BY <1>2, WriteInv
<1>3. CASE Relock
  BY <1>3 DEF Relock, Idle, OldEntry, OldRead, OldCutoff, RightRecord, EntryIsRight, SavedIsRight
<1>4. CASE \E op \in Ops : Begin(op)
  BY <1>4 DEF Begin, StatTaken, OldEntry, OldRead, OldCutoff, RightRecord, EntryIsRight, SavedIsRight
<1>5. CASE UpdateHit
  BY <1>5 DEF UpdateHit, Idle, OldEntry, OldRead, OldCutoff, RightRecord, EntryIsRight, SavedIsRight
<1>6. CASE UpdateMiss
  BY <1>6 DEF UpdateMiss, Cutoff, OldEnough, Idle, OldEntry, OldRead, OldCutoff, RightRecord,
     EntryIsRight, SavedIsRight
<1>7. CASE UpdateRead
  BY <1>7 DEF UpdateRead, Idle, OldEntry, OldRead, OldCutoff, RightRecord, EntryIsRight, SavedIsRight
<1>8. CASE ObserveRead
  BY <1>8 DEF ObserveRead, FileRead, OldEntry, OldRead, OldCutoff, RightRecord, EntryIsRight, SavedIsRight
<1>9. CASE ObserveRecord
  BY <1>9 DEF ObserveRecord, Cutoff, OldEnough, Idle, OldEntry, OldRead, OldCutoff, RightRecord,
     EntryIsRight, SavedIsRight
<1>10. CASE HashHit \/ HashRecord \/ HashScan
  BY <1>10 DEF HashHit, HashRecord, HashScan, Idle, OldEntry, OldRead, OldCutoff, RightRecord,
     EntryIsRight, SavedIsRight
<1>11. CASE HashRead
  BY <1>11 DEF HashRead, FileRead, OldEntry, OldRead, OldCutoff, RightRecord, EntryIsRight, SavedIsRight
<1>12. CASE UNCHANGED svars
  BY <1>12 DEF OldEntry, OldRead, OldCutoff, RightRecord, EntryIsRight, SavedIsRight
<1>13. QED
  BY <1>1, <1>2, <1>3, <1>4, <1>5, <1>6, <1>7, <1>8, <1>9, <1>10, <1>11, <1>12 DEF SNext

\* While hashes are observed only after the dirstate has taken its cutoff time, as
\* commit does when it asks the tree for its changes, no sha1 in it is ever stale.
THEOREM EntryStaysRight ==
  ASSUME ~LateCutoff
  PROVE  SSpec => []EntryIsRight
<1>1. CacheInv => EntryIsRight
  BY DEF CacheInv
<1>2. QED
  BY <1>1, CacheInit, CacheStep, PTL DEF SSpec

-----------------------------------------------------------------------------
(* The hash cache.  Its cutoff is taken when the file has been read: a change  *)
(* of the file since its stat is noticed only if reading was quick enough.     *)

OldCache == cache # None => cache.stat \in Stats /\ cache.stat.ctime < now - Window
QuickHash == call.op = "hash" => call.since <= now /\ now <= call.since + MaxRead
RightHash ==
  Doing("hash", "record") /\ call.stat = Stat /\ call.stat.ctime < call.since + MaxRead - Window
    => call.sha = disk.content
HashInv == Typed /\ OldCache /\ QuickHash /\ RightHash /\ HashIsRight

(* HashCache starts out empty.                                                 *)
LEMMA HashInit == SInit => HashInv
BY StatCacheAssumption DEF SInit, HashInv, Typed, OldCache, QuickHash, RightHash, HashIsRight, Idle, Ops

(* A write gets a ctime that no file had whose sha1 is remembered, or is going *)
(* to be: get_sha1 remembers it only for a ctime before its cutoff.            *)
LEMMA HashWrite ==
  ASSUME MaxRead + Lag <= Window, HashInv, NEW c \in Contents, Write(c)
  PROVE  HashInv'
<1> USE DEF HashInv
<1>1. PICK t \in 0 .. now :
        /\ t + Lag >= now
        /\ \E m \in {t} \cup SetBack : disk' = [content |-> c, mtime |-> m, ctime |-> t]
  BY DEF Write
<1>2. PICK m \in {t} \cup SetBack : disk' = [content |-> c, mtime |-> m, ctime |-> t]
  BY <1>1
<1>3. UNCHANGED <<now, entry, saved, cutoff, cache, call>>
  BY DEF Write
<1>4. t \in Nat /\ m \in Nat /\ MaxRead \in Nat /\ Lag \in Nat /\ t >= now - Lag
  BY <1>1, <1>2, StatCacheAssumption DEF Typed
<1>5. Typed' /\ OldCache' /\ QuickHash'
  BY <1>2, <1>3, <1>4 DEF Typed, OldCache, QuickHash
<1>6. HashIsRight'
  <2>1. cache # None => cache.stat.ctime < t
    BY <1>4 DEF OldCache, Typed
  <2> QED BY <1>2, <1>3, <2>1 DEF HashIsRight
<1>7. RightHash'
  <2>1. Doing("hash", "record") /\ call.stat.ctime < call.since + MaxRead - Window =>
          call.stat.ctime < t
    BY <1>4 DEF QuickHash, Typed
  <2> QED BY <1>2, <1>3, <2>1 DEF RightHash
<1> QED BY <1>5, <1>6, <1>7

(* Every step of get_sha1, and every step beside it, keeps the invariant.      *)
LEMMA HashStep ==
  ASSUME MaxRead + Lag <= Window, "hash" \notin Slow, HashInv, [SNext]_svars
  PROVE  HashInv'
<1> USE DEF HashInv, Typed
<1> MaxRead \in Nat
  BY StatCacheAssumption
<1>1. CASE Tick
  BY <1>1 DEF Tick, InTime, OldCache, QuickHash, RightHash, HashIsRight
<1>2. CASE \E c \in Contents : Write(c)
  BY <1>2, HashWrite
<1>3. CASE Relock
  BY <1>3 DEF Relock, Idle, OldCache, QuickHash, RightHash, HashIsRight
<1>4. CASE \E op \in Ops : Begin(op)
  BY <1>4 DEF Begin, StatTaken, OldCache, QuickHash, RightHash, HashIsRight
<1>5. CASE UpdateHit \/ UpdateMiss \/ UpdateRead
  <2>1. CASE UpdateHit
    BY <2>1 DEF UpdateHit, Idle, OldCache, QuickHash, RightHash, HashIsRight
  <2>2. CASE UpdateMiss
    BY <2>2 DEF UpdateMiss, Idle, OldCache, QuickHash, RightHash, HashIsRight
  <2>3. CASE UpdateRead
    BY <2>3 DEF UpdateRead, Idle, OldCache, QuickHash, RightHash, HashIsRight
  <2> QED BY <1>5, <2>1, <2>2, <2>3
<1>6. CASE ObserveRead \/ ObserveRecord
  <2>1. CASE ObserveRead
    BY <2>1 DEF ObserveRead, FileRead, OldCache, QuickHash, RightHash, HashIsRight
  <2>2. CASE ObserveRecord
    BY <2>2 DEF ObserveRecord, Idle, OldCache, QuickHash, RightHash, HashIsRight
  <2> QED BY <1>6, <2>1, <2>2
<1>7. CASE HashHit \/ HashScan
  BY <1>7 DEF HashHit, HashScan, Idle, OldCache, QuickHash, RightHash, HashIsRight
<1>8. CASE HashRead
  BY <1>8 DEF HashRead, FileRead, OldCache, QuickHash, RightHash, HashIsRight
<1>9. CASE HashRecord
  BY <1>9 DEF HashRecord, OldEnough, Idle, OldCache, QuickHash, RightHash, HashIsRight
<1>10. CASE UNCHANGED svars
  BY <1>10 DEF OldCache, QuickHash, RightHash, HashIsRight
<1> QED
  BY <1>1, <1>2, <1>3, <1>4, <1>5, <1>6, <1>7, <1>8, <1>9, <1>10 DEF SNext

(* get_sha1 remembers no sha1 that the stat of the file would wrongly confirm,  *)
(* as long as reading a file takes no longer than the window leaves when time   *)
(* stamps trail the clock; for slower reads the code has no such guarantee.     *)
THEOREM HashStaysRight ==
  ASSUME MaxRead + Lag <= Window, "hash" \notin Slow
  PROVE  SSpec => []HashIsRight
<1>1. HashInv => HashIsRight
  BY DEF HashInv
<1> QED
  BY <1>1, HashInit, HashStep, PTL DEF SSpec
=============================================================================
