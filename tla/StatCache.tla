----------------------------- MODULE StatCache -----------------------------
(***************************************************************************)
(* When the sha1 of a file may be remembered: the dirstate entry of a file *)
(* (update_entry and _observed_sha1 in bzrlib/dirstate.py and its helpers) *)
(* and the entry of a HashCache (bzrlib/hashcache.py).  Both recognise an  *)
(* unchanged file by its time stamps, which are coarse, so a file that was *)
(* changed too recently must not be remembered.  Size, inode and mode of   *)
(* the file never change here: only time tells its contents apart.         *)
(***************************************************************************)
EXTENDS Integers

CONSTANTS
  Contents,  \* what may be in the file; it stands for its sha1, too
  Lag,       \* how far the time stamps of the file system may trail the clock
  Slow,      \* the operations that may take any time
  MaxRead,   \* how long the others may take
  SetBack,   \* bound: the times that mtime may be set to
  LateCutoff,\* are hashes observed before the dirstate has a cutoff time?
  MaxTime,   \* bound: the last tick of the clock
  None

Window == 3
Ops == {"update", "observe", "hash"}

ASSUME StatCacheAssumption ==
  /\ Lag \in 0 .. Window /\ MaxRead \in Nat
  /\ SetBack \subseteq Nat /\ Slow \subseteq Ops /\ LateCutoff \in BOOLEAN
  /\ None \notin Contents


VARIABLES
  now,       \* the clock, in seconds
  disk,      \* the file: contents and time stamps
  entry,     \* the sha1 and the packed_stat in the dirstate
  saved,     \* the same in the dirstate file
  cutoff,    \* DirState._cutoff_time
  cache,     \* the digest and the fingerprint in the HashCache
  call       \* the operation in progress: what it is about to do, what it has seen

svars == <<now, disk, entry, saved, cutoff, cache, call>>

Times == Nat
Stats == [mtime : Times, ctime : Times]
Stat == [mtime |-> disk.mtime, ctime |-> disk.ctime]
\* NULLSTAT matches no disk.
Known == [sha : Contents, stat : Stats] \cup {None}
Matches(known, stat) == known # None /\ known.stat = stat

Idle == [op |-> "none", pc |-> "idle", stat |-> [mtime |-> 0, ctime |-> 0],
         since |-> 0, sha |-> None]
\* What is about to happen to a file whose stat has just been taken, and to one
\* that has been read since.
StatTaken(op) == [op |-> op, pc |-> "stat", stat |-> Stat, since |-> now, sha |-> None]
FileRead == [call EXCEPT !.pc = "record", !.sha = disk.content]

SInit ==
  /\ now = 0
  /\ \E c \in Contents : disk = [content |-> c, mtime |-> 0, ctime |-> 0]
  /\ entry = None /\ saved = None /\ cutoff = None /\ cache = None
  /\ call = Idle

Doing(op, pc) == call.pc = pc /\ call.op = op

-----------------------------------------------------------------------------
(* The world: the clock ticks, and other programs write the disk. *)

InTime == call.op \in Slow \cup {"none"} \/ now < call.since + MaxRead
Tick ==
  /\ now < MaxTime /\ InTime
  /\ now' = now + 1
  /\ UNCHANGED <<disk, entry, saved, cutoff, cache, call>>

\* Time stamps are rounded, or are those of a server, but never run backwards;
\* mtime can be set at will.
Write(c) ==
  /\ \E t \in 0 .. now :
       /\ t + Lag >= now /\ t >= disk.ctime
       /\ \E m \in {t} \cup SetBack : disk' = [content |-> c, mtime |-> m, ctime |-> t]
  /\ UNCHANGED <<now, entry, saved, cutoff, cache, call>>

-----------------------------------------------------------------------------
(* The dirstate *)

\* The dirstate is saved on unlock, or not: that depends on the other entries, the
\* limit and other readers.  A new lock forgets the cutoff and reads it again.
Relock ==
  /\ call = Idle
  /\ cutoff' = None
  /\ \E e \in {entry, saved} : entry' = e /\ saved' = e
  /\ UNCHANGED <<now, disk, cache, call>>

\* _sha_cutoff_time is kept for as long as the lock is held.
MutCutoff == IF cutoff = None THEN now ELSE cutoff
Cutoff == IF cutoff # None THEN cutoff ELSE now - Window
MutOldEnough(stat, cut) == stat.mtime < cut
OldEnough(stat, cut) == stat.mtime < cut /\ stat.ctime < cut

Begin(op) ==
  /\ call = Idle
  /\ call' = StatTaken(op)
  /\ UNCHANGED <<now, disk, entry, saved, cutoff, cache>>

\* update_entry finds the stat of the entry in order, ...
UpdateHit ==
  /\ Doing("update", "stat") /\ Matches(entry, call.stat)
  /\ call' = Idle
  /\ UNCHANGED <<now, disk, entry, saved, cutoff, cache>>

\* ... or may read the file and remember it, ...
UpdateMiss ==
  /\ Doing("update", "stat") /\ ~Matches(entry, call.stat)
  /\ cutoff' = Cutoff
  /\ IF OldEnough(call.stat, Cutoff)
     THEN call' = [call EXCEPT !.pc = "read"] /\ UNCHANGED entry
     ELSE call' = Idle /\ entry' = None
  /\ UNCHANGED <<now, disk, saved, cache>>

UpdateRead ==
  /\ Doing("update", "read")
  /\ entry' = [sha |-> disk.content, stat |-> call.stat]
  /\ call' = Idle
  /\ UNCHANGED <<now, disk, saved, cutoff, cache>>

\* Commit reads a file it has open, with the fstat of that moment, ...
ObserveRead ==
  /\ Doing("observe", "stat") /\ (cutoff # None \/ LateCutoff)
  /\ call' = FileRead
  /\ UNCHANGED <<now, disk, entry, saved, cutoff, cache>>

\* ... and tells the tree later: _observed_sha1.
ObserveRecord ==
  /\ Doing("observe", "record")
  /\ cutoff' = Cutoff
  /\ entry' = IF OldEnough(call.stat, Cutoff)
              THEN [sha |-> call.sha, stat |-> call.stat] ELSE entry
  /\ call' = Idle
  /\ UNCHANGED <<now, disk, saved, cache>>

-----------------------------------------------------------------------------
(* HashCache.get_sha1 *)

HashHit ==
  /\ Doing("hash", "stat") /\ Matches(cache, call.stat)
  /\ call' = Idle
  /\ UNCHANGED <<now, disk, entry, saved, cutoff, cache>>

HashRead ==
  /\ Doing("hash", "stat") /\ ~Matches(cache, call.stat)
  /\ call' = FileRead
  /\ UNCHANGED <<now, disk, entry, saved, cutoff, cache>>

\* The cutoff is taken when the file has been read.
HashRecord ==
  /\ Doing("hash", "record")
  /\ cache' = IF OldEnough(call.stat, now - Window)
              THEN [sha |-> call.sha, stat |-> call.stat] ELSE None
  /\ call' = Idle
  /\ UNCHANGED <<now, disk, entry, saved, cutoff>>

\* scan drops what does not match the file any more.
HashScan ==
  /\ call = Idle /\ cache # None /\ cache.stat # Stat
  /\ cache' = None
  /\ UNCHANGED <<now, disk, entry, saved, cutoff, call>>

SNext ==
  \/ Tick \/ (\E c \in Contents : Write(c)) \/ Relock \/ (\E op \in Ops : Begin(op))
  \/ UpdateHit \/ UpdateMiss \/ UpdateRead \/ ObserveRead \/ ObserveRecord
  \/ HashHit \/ HashRead \/ HashRecord \/ HashScan
SSpec == SInit /\ [][SNext]_svars

-----------------------------------------------------------------------------
(* Properties *)

\* A dirstate entry whose stat is that of the file has the sha1 of the file: no
\* change of the file goes unnoticed by the next update_entry, however it falls
\* between the stat, the read and the record, and whatever mtime it sets.
EntryIsRight == Matches(entry, Stat) => entry.sha = disk.content

\* The same of the hash cache ("we only want to cache when we are sure that any
\* subsequent modifications of the file can be detected", hashcache.py).
HashIsRight == Matches(cache, Stat) => cache.sha = disk.content
=============================================================================
