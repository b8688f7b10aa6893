------------------------------- MODULE Mutex -------------------------------
(***************************************************************************)
(* What a lock directory promises to its users: a lock that one process at *)
(* a time is inside of, that survives the death of its holder, and that is *)
(* taken from a holder only once the holder is dead.  LockDir implements   *)
(* it when there is a single lock breaker; PackCollection relies on it.    *)
(***************************************************************************)
CONSTANTS
  Procs, \* the processes
  Free,  \* the lock is not taken
  Lost   \* the lock is taken, and by whom can no longer be read

ASSUME MutexAssumption == Free # Lost /\ Free \notin Procs /\ Lost \notin Procs

VARIABLES
  lock,   \* who took the lock
  inside, \* the processes whose lock_write returned and that have not unlocked
  alive   \* the processes that have not been killed

mvars == <<lock, inside, alive>>

MutexTypeOK ==
  /\ lock \in Procs \cup {Free, Lost}
  /\ inside \subseteq alive
  /\ alive \subseteq Procs

MInit == lock = Free /\ inside = {} /\ alive = Procs

\* The rename into place succeeds.
Take(p) ==
  /\ p \in alive /\ lock = Free
  /\ lock' = p
  /\ UNCHANGED <<inside, alive>>

\* The lock is seen to be ours: lock_write returns.
Enter(p) ==
  /\ p \in alive /\ lock = p
  /\ inside' = inside \cup {p}
  /\ UNCHANGED <<lock, alive>>

\* unlock renames the lock away.
Leave(p) ==
  /\ p \in inside /\ lock = p
  /\ lock' = Free
  /\ inside' = inside \ {p}
  /\ UNCHANGED alive

\* A killed process keeps its lock, perhaps with an unreadable info file.
Die(p) ==
  /\ p \in alive
  /\ alive' = alive \ {p}
  /\ inside' = inside \ {p}
  /\ lock' \in {lock} \cup (IF lock = p THEN {Lost} ELSE {})

\* force_break of a lock whose holder is dead.
Break ==
  /\ lock \notin alive \cup {Free}
  /\ lock' = Free
  /\ UNCHANGED <<inside, alive>>

MNext == Break \/ \E p \in Procs : Take(p) \/ Enter(p) \/ Leave(p) \/ Die(p)

MSpec == MInit /\ [][MNext]_mvars
=============================================================================
