----------------------------- MODULE KnownGraph -----------------------------
(***************************************************************************)
(* KnownGraph of bzrlib/_known_graph_py.py: the ancestry of revisions or   *)
(* texts that a program has read so far.  It grows while it is used, what  *)
(* is only named as a parent is a ghost until it is added itself, and      *)
(* heads() relies on a number per node, the greatest distance from an      *)
(* origin (gdfo), to leave most of the ancestry alone.  The turns of its   *)
(* loops are the steps here.  Keys are popped in any order, for the nodes  *)
(* are kept in a dict.                                                     *)
(***************************************************************************)
EXTENDS Integers, FiniteSets, Sequences

CONSTANTS
  Keys,
  NullRevision, \* NULL_REVISION: everybody's ancestor, and nobody's child
  ReadInOneGo,  \* what a graph that is read in one go may be about
  MaxCached     \* bound: sets of keys whose heads are asked for

ASSUME KnownGraphAssumption ==
  /\ IsFiniteSet(Keys) /\ NullRevision \in Keys /\ ReadInOneGo \subseteq Keys
  /\ MaxCached \in Nat

VARIABLES
  known,      \* the nodes whose parents are known; the others are ghosts
  nodes,      \* the keys of _nodes
  parent_keys, \* parent_keys[k]: the parents of k, none while k is a ghost
  gdfo,       \* gdfo[k]: greatest distance from origin, 0 for None
  knownHeads, \* _known_heads
  doing,      \* the method that is being run
  pending,    \* what its loop has still to look at
  met,        \* met[k]: the parents of k its loop has seen, a number in the code
  seen,       \* the ancestors heads() has come to
  wanted,     \* the keys heads() was asked about
  order       \* what topo_sort has put in order

graphvars == <<known, nodes, parent_keys, gdfo, knownHeads, doing, pending, met, seen, wanted, order>>
storedvars == <<known, nodes, parent_keys>>
searchvars == <<met, seen, wanted, order>>

Children(k) == {c \in known : k \in parent_keys[c]}
Tails == {k \in nodes : parent_keys[k] = {}}

\* The children of n are further from an origin than n.
MoveChildren(n) ==
  gdfo' = [k \in Keys |-> IF k \in Children(n) /\ gdfo[k] < gdfo[n] + 1
                          THEN gdfo[n] + 1 ELSE gdfo[k]]

\* The children of n all of whose parents a loop has seen when it has seen n.
MutComplete(n) == {k \in Children(n) : met[k] = {}}
Complete(n) == {k \in Children(n) : met[k] \cup {n} = parent_keys[k]}
MeetParent(n) ==
  met' = [k \in Keys |-> IF k \in Children(n) THEN met[k] \cup {n} ELSE met[k]]

\* What the parents of K lead to.
Closed(S) == \A k \in S : parent_keys[k] \subseteq S
Ancestors(K) ==
  {a \in Keys : \A S \in SUBSET Keys :
                  Closed(S) /\ (\A k \in K : parent_keys[k] \subseteq S) => a \in S}
\* Some keys have a parent among themselves each.
Cyclic == \E S \in SUBSET known : S # {} /\ \A k \in S : parent_keys[k] \cap S # {}

\* Everything has a distance from an origin: cycles have not been noticed.
NoneLeft == \A k \in nodes : gdfo[k] > 0

KInit ==
  /\ known \in SUBSET ReadInOneGo
  /\ parent_keys \in [Keys -> SUBSET ReadInOneGo]
  /\ \A k \in Keys : k \notin known \/ k = NullRevision => parent_keys[k] = {}
  /\ nodes = known \cup UNION {parent_keys[k] : k \in known}
  /\ gdfo = [k \in Keys |-> IF k \in Tails THEN 1 ELSE 0]
  /\ knownHeads = <<>>
  /\ doing = "_find_gdfo" /\ pending = Tails
  /\ met = [k \in Keys |-> {}] /\ seen = {} /\ wanted = {} /\ order = <<>>

-----------------------------------------------------------------------------
(* Reading a graph *)

\* A turn of _find_gdfo: a child goes on once the last of its parents has been seen.
FindGdfo(n) ==
  /\ doing = "_find_gdfo" /\ n \in pending
  /\ MoveChildren(n) /\ MeetParent(n)
  /\ pending' = (pending \ {n}) \cup Complete(n)
  /\ UNCHANGED <<storedvars, knownHeads, doing, seen, wanted, order>>

\* A method returns or, if it was topo_sort, has raised GraphCycleError.
Return ==
  /\ pending = {} /\ doing \in {"_find_gdfo", "add_node", "topo_sort", "raised"}
  /\ doing' = "nothing"
  /\ met' = [k \in Keys |-> {}] /\ order' = <<>>
  /\ UNCHANGED <<storedvars, gdfo, knownHeads, pending, seen, wanted>>

\* add_node of a key that is new or was a ghost.  (The same parents again change nothing
\* and others raise ValueError.)  The graph stays one of an ancestry.
MutTrusted(k) == knownHeads
Trusted(k) == IF k \in nodes THEN <<>> ELSE knownHeads
AddNode(k, ps) ==
  /\ doing = "nothing" /\ ~Cyclic
  /\ k \notin known /\ (k = NullRevision => ps = {})
  /\ k \notin ps /\ \A p \in ps : k \notin Ancestors({p})
  /\ knownHeads' = Trusted(k)
  /\ known' = known \cup {k}
  /\ nodes' = nodes \cup {k} \cup ps
  /\ parent_keys' = [parent_keys EXCEPT ![k] = ps]
  /\ LET found == [j \in Keys |-> IF j \in ps \ nodes THEN 1 ELSE gdfo[j]]
     IN  \E d \in {1} \cup {found[p] + 1 : p \in ps} :
           /\ \A p \in ps : found[p] < d
           /\ gdfo' = [found EXCEPT ![k] = d]
  /\ doing' = "add_node" /\ pending' = {k}
  /\ UNCHANGED searchvars

\* A turn of its loop: the children that are too close to an origin move away from it.
AddNodeTurn(n) ==
  /\ doing = "add_node" /\ n \in pending
  /\ MoveChildren(n)
  /\ pending' = (pending \ {n}) \cup {k \in Children(n) : gdfo[k] < gdfo[n] + 1}
  /\ UNCHANGED <<storedvars, knownHeads, doing, searchvars>>

-----------------------------------------------------------------------------
(* heads *)

\* The null revision is popped from the keys, a single key is its own head, and what
\* was asked before is found in the cache.
AskHeads(ks) ==
  /\ doing = "nothing" /\ NoneLeft /\ ~Cyclic
  /\ ks \subseteq nodes \ {NullRevision} /\ Cardinality(ks) >= 2
  /\ ks \notin DOMAIN knownHeads /\ Cardinality(DOMAIN knownHeads) < MaxCached
  /\ wanted' = ks /\ pending' = UNION {parent_keys[k] : k \in ks}
  /\ doing' = "heads"
  /\ UNCHANGED <<storedvars, gdfo, knownHeads, met, seen, order>>

\* The search does not go on from what is no further from an origin than all the keys.
Search(n) ==
  /\ doing = "heads" /\ n \in pending
  /\ seen' = seen \cup {n}
  /\ pending' = (pending \ {n}) \cup
                (IF n \notin seen /\ \E k \in wanted : gdfo[k] < gdfo[n]
                 THEN parent_keys[n] ELSE {})
  /\ UNCHANGED <<storedvars, gdfo, knownHeads, doing, met, wanted, order>>

FoundHeads ==
  /\ doing = "heads" /\ pending = {}
  /\ knownHeads' = [ks \in DOMAIN knownHeads \cup {wanted} |->
                      IF ks = wanted THEN wanted \ seen ELSE knownHeads[ks]]
  /\ doing' = "nothing" /\ seen' = {} /\ wanted' = {}
  /\ UNCHANGED <<storedvars, gdfo, pending, met, order>>

-----------------------------------------------------------------------------
(* topo_sort *)

\* GraphCycleError is raised when something has no distance from an origin.
BeginSort ==
  /\ doing = "nothing"
  /\ IF NoneLeft THEN doing' = "topo_sort" /\ pending' = Tails
     ELSE doing' = "raised" /\ UNCHANGED pending
  /\ UNCHANGED <<storedvars, gdfo, knownHeads, searchvars>>

\* Ghosts are left out.
SortTurn(n) ==
  /\ doing = "topo_sort" /\ n \in pending
  /\ order' = IF n \in known THEN Append(order, n) ELSE order
  /\ MeetParent(n)
  /\ pending' = (pending \ {n}) \cup Complete(n)
  /\ UNCHANGED <<storedvars, gdfo, knownHeads, doing, seen, wanted>>

KnownGraphNext ==
  \/ \E n \in Keys : FindGdfo(n) \/ AddNodeTurn(n) \/ Search(n) \/ SortTurn(n)
  \/ \E k \in Keys, ps \in SUBSET Keys : AddNode(k, ps)
  \/ \E ks \in SUBSET Keys : AskHeads(ks)
  \/ Return \/ FoundHeads \/ BeginSort

KnownGraphSpec == KInit /\ [][KnownGraphNext]_graphvars

-----------------------------------------------------------------------------
(* Properties *)

(* The heads of a set of keys, computed now or remembered from a time when     *)
(* the graph was smaller, are those that no other of them leads to.            *)
HeadsAreRight ==
  \A ks \in DOMAIN knownHeads : knownHeads[ks] = ks \ Ancestors(ks)

(* topo_sort raises only if there is a cycle.  What it returns has everything  *)
(* after all of its parents, and leaves out only ghosts if there is no cycle.  *)
SortedRight ==
  /\ doing = "raised" => Cyclic
  /\ \A i \in 1 .. Len(order) : \A p \in parent_keys[order[i]] \cap known :
       \E j \in 1 .. i - 1 : order[j] = p
  /\ doing = "topo_sort" /\ pending = {} /\ ~Cyclic =>
       \A k \in known : \E i \in 1 .. Len(order) : order[i] = k
  /\ \A i, j \in 1 .. Len(order) : order[i] = order[j] => i = j
=============================================================================
