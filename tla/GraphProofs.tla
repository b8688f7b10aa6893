---------------------------- MODULE GraphProofs -----------------------------
(***************************************************************************)
(* Theorems about KnownGraph and MergeSort.                                *)
(*                                                                         *)
(* KnownGraph: for any keys, and graphs read in one go, grown or both,     *)
(* heads() and its cache are right and so is topo_sort.  The first part of *)
(* the invariant is about the two loops that go from the tails to the tips *)
(* and wait for the last parent of each node; the second says what their   *)
(* distances have to do with parents; the others are about the search for  *)
(* heads and the order of topo_sort.                                       *)
(*                                                                         *)
(* MergeSort: for any graph, the order and the dotted revision numbers are *)
(* right.  Its invariant is about the search on the one hand, where every  *)
(* revision is in one place and the stack is a path, and the numbers on    *)
(* the other: at most one child continues the line of a revision, however  *)
(* much of the graph is visited before it gets its number.                 *)
(***************************************************************************)
EXTENDS KnownGraph, MergeSort, SequenceTheorems, FiniteSetTheorems, Induction, TLAPS

(* KnownGraph: the invariant *)

Loops == {"_find_gdfo", "topo_sort"}
Typed ==
  /\ known \subseteq nodes /\ nodes \subseteq Keys
  /\ parent_keys \in [Keys -> SUBSET nodes]
  /\ \A k \in Keys : k \notin known => parent_keys[k] = {}
  /\ gdfo \in [Keys -> Nat] /\ met \in [Keys -> SUBSET Keys]
  /\ DOMAIN knownHeads \subseteq SUBSET nodes
  /\ doing \in Loops \cup {"nothing", "add_node", "heads", "raised"}
  /\ pending \subseteq nodes /\ seen \subseteq nodes /\ wanted \subseteq nodes
  /\ order \in Seq(known)
  /\ doing # "heads" => seen = {} /\ wanted = {}
  /\ doing # "topo_sort" => order = <<>>
  /\ doing \in {"nothing", "raised"} => pending = {}
  /\ doing \notin Loops => met = [k \in Keys |-> {}]

\* A node that is pending, or that a loop has been through, has met all of its parents.
Ready(k) == met[k] = parent_keys[k]
Waiting ==
  doing \in Loops =>
    /\ \A c \in Keys : met[c] \subseteq parent_keys[c]
    /\ \A n \in pending : Ready(n) /\ \A c \in Keys : n \notin met[c]
    /\ \A c \in Keys : \A p \in met[c] : Ready(p)
    /\ \A c \in Keys : \A p \in parent_keys[c] : Ready(p) => p \in pending \/ p \in met[c]

\* A node is further from an origin than its parents, once it has met them.
Further ==
  \A c \in Keys : \A p \in parent_keys[c] :
    gdfo[p] < gdfo[c] \/ (doing = "add_node" /\ p \in pending)
Distances ==
  /\ doing = "_find_gdfo" =>
       /\ \A c \in Keys : \A p \in met[c] : gdfo[p] < gdfo[c]
       /\ \A k \in Tails : gdfo[k] > 0
  /\ doing # "_find_gdfo" => Cyclic \/ (Further /\ NoneLeft)
  /\ doing = "raised" => Cyclic

Listed(k) == \E i \in 1 .. Len(order) : order[i] = k
Listing ==
  doing = "topo_sort" =>
    /\ \A i \in 1 .. Len(order) : Ready(order[i]) /\ order[i] \notin pending
    /\ \A c \in Keys : \A p \in met[c] \cap known : Listed(p)
    /\ \A k \in known : Ready(k) => k \in pending \/ Listed(k)

Searching ==
  doing = "heads" =>
    /\ ~Cyclic
    /\ seen \cup pending \subseteq Ancestors(wanted)
    /\ \A k \in wanted : parent_keys[k] \subseteq seen \cup pending
    /\ \A x \in seen : (\E k \in wanted : gdfo[k] < gdfo[x]) =>
                         parent_keys[x] \subseteq seen \cup pending

GraphInv == Typed /\ Waiting /\ Distances /\ Listing /\ Searching /\ HeadsAreRight /\ SortedRight

-----------------------------------------------------------------------------
(* Types *)

(* The initial states, and each step, are well typed: a graph knows the nodes  *)
(* that its nodes have as parents, and methods clean up what they counted.     *)
LEMMA TypedInit == KInit => Typed
BY KnownGraphAssumption DEF KInit, Typed, Tails, Loops

LEMMA TypedStep == Typed /\ [KnownGraphNext]_graphvars => Typed'
<1> SUFFICES ASSUME Typed, [KnownGraphNext]_graphvars PROVE Typed'
  OBVIOUS
<1> USE DEF Typed, Loops, storedvars, searchvars
<1>1. ASSUME NEW n \in Keys, FindGdfo(n) PROVE Typed'
  BY <1>1 DEF FindGdfo, MoveChildren, MeetParent, Complete, Children
<1>2. ASSUME NEW n \in Keys, AddNodeTurn(n) PROVE Typed'
  BY <1>2 DEF AddNodeTurn, MoveChildren, Children
<1>3. ASSUME NEW n \in Keys, Search(n) PROVE Typed'
  BY <1>3 DEF Search
<1>4. ASSUME NEW n \in Keys, SortTurn(n) PROVE Typed'
  BY <1>4 DEF SortTurn, MeetParent, Complete, Children
<1>5. ASSUME NEW k \in Keys, NEW ps \in SUBSET Keys, AddNode(k, ps) PROVE Typed'
  <2>1. /\ known' = known \cup {k} /\ nodes' = nodes \cup {k} \cup ps
        /\ parent_keys' = [parent_keys EXCEPT ![k] = ps]
        /\ doing = "nothing" /\ doing' = "add_node" /\ pending' = {k}
        /\ UNCHANGED <<met, seen, wanted, order>>
    BY <1>5 DEF AddNode
  <2>2. gdfo' \in [Keys -> Nat]
    <3> DEFINE found == [j \in Keys |-> IF j \in ps \ nodes THEN 1 ELSE gdfo[j]]
    <3>1. found \in [Keys -> Nat]
      BY \A j \in Keys : gdfo[j] \in Nat
    <3>2. PICK d \in {1} \cup {found[p] + 1 : p \in ps} : gdfo' = [found EXCEPT ![k] = d]
      BY <1>5 DEF AddNode
    <3>3. d = 1 \/ \E p \in ps : d = found[p] + 1
      BY <3>2
    <3> HIDE DEF found
    <3>4. d \in Nat
      BY <3>1, <3>3
    <3> QED
      BY <3>1, <3>2, <3>4
  <2>3. DOMAIN knownHeads' \subseteq SUBSET nodes
    BY <1>5 DEF AddNode, Trusted
  <2>4. parent_keys' \in [Keys -> SUBSET nodes']
    BY <2>1
  <2>5. order' = <<>> /\ order' \in Seq(known')
    BY <2>1
  <2>6. nodes \subseteq nodes' /\ known' \subseteq nodes' /\ nodes' \subseteq Keys
    BY <2>1
  <2>7. \A j \in Keys : j \notin known' => parent_keys'[j] = {}
    BY <2>1
  <2> QED
    BY <2>1, <2>2, <2>3, <2>4, <2>5, <2>6, <2>7
<1>6. ASSUME NEW ks \in SUBSET Keys, AskHeads(ks) PROVE Typed'
  BY <1>6 DEF AskHeads
<1>7. ASSUME Return PROVE Typed'
  BY <1>7 DEF Return
<1>8. ASSUME FoundHeads PROVE Typed'
  BY <1>8 DEF FoundHeads
<1>9. ASSUME BeginSort PROVE Typed'
  BY <1>9 DEF BeginSort, Tails
<1>10. ASSUME UNCHANGED graphvars PROVE Typed'
  BY <1>10 DEF graphvars
<1> QED
  BY <1>1, <1>2, <1>3, <1>4, <1>5, <1>6, <1>7, <1>8, <1>9, <1>10 DEF KnownGraphNext

-----------------------------------------------------------------------------
(* The loops that wait for the last parent *)

(* A turn of either loop: the node whose turn it is has not been met before,   *)
(* and what it completes goes on.                                              *)
LEMMA Turn ==
  ASSUME Typed, Waiting, doing \in Loops, NEW n \in pending, UNCHANGED <<storedvars, doing>>,
         MeetParent(n), pending' = (pending \ {n}) \cup Complete(n)
  PROVE  Waiting'
<1>1. /\ n \in Keys /\ pending \subseteq Keys /\ parent_keys' = parent_keys
      /\ \A k \in Keys : \A p \in parent_keys[k] : p \in Keys /\ k \in known
      /\ \A k \in known : k \in Keys
  BY DEF Typed, storedvars
<1>2. /\ \A c \in Keys : \A p \in met[c] : p \in parent_keys[c] /\ Ready(p)
      /\ \A m \in pending : Ready(m) /\ \A c \in Keys : m \notin met[c]
      /\ \A c \in Keys : \A p \in parent_keys[c] : Ready(p) => p \in pending \/ p \in met[c]
  BY DEF Waiting
<1>3. \A c \in Keys : met'[c] = IF n \in parent_keys[c] THEN met[c] \cup {n} ELSE met[c]
  BY <1>1 DEF MeetParent, Children
<1>4. \A k \in Keys : Ready(k) => n \notin parent_keys[k]
  BY <1>2 DEF Ready
<1>5. \A k \in Keys : Ready(k) => met'[k] = parent_keys[k]
  BY <1>3, <1>4 DEF Ready
<1>6. \A c \in Keys : \A p \in met'[c] : (p = n /\ n \in parent_keys[c]) \/ p \in met[c]
  BY <1>3
<1>7. \A c \in Keys : met'[c] \subseteq parent_keys[c]
  BY <1>2, <1>6
<1>8. \A m \in Complete(n) : /\ m \in Keys /\ n \in parent_keys[m] /\ ~Ready(m)
                             /\ met'[m] = parent_keys[m]
  <2>1. \A m \in Complete(n) : /\ m \in Keys /\ n \in parent_keys[m]
                               /\ met[m] \cup {n} = parent_keys[m]
    BY <1>1 DEF Complete, Children
  <2> QED
    BY <1>3, <1>4, <2>1
<1>9. ASSUME NEW m \in pending' PROVE met'[m] = parent_keys[m] /\ \A c \in Keys : m \notin met'[c]
  <2>1. CASE m \in pending /\ m # n
    BY <1>1, <1>2, <1>5, <1>6, <2>1
  <2>2. CASE m \in Complete(n)
    <3>1. m # n
      BY <1>1, <1>2, <1>8, <2>2
    <3> QED
      BY <1>2, <1>6, <1>8, <2>2, <3>1
  <2> QED
    BY <2>1, <2>2
<1>10. ASSUME NEW c \in Keys, NEW p \in met'[c] PROVE met'[p] = parent_keys[p]
  <2>1. p \in Keys /\ Ready(p)
    BY <1>1, <1>2, <1>6
  <2> QED
    BY <1>5, <2>1
<1>11. ASSUME NEW c \in Keys, NEW p \in parent_keys[c], met'[p] = parent_keys[p]
       PROVE  p \in pending' \/ p \in met'[c]
  <2> p \in Keys /\ c \in known
    BY <1>1
  <2>1. CASE n \in parent_keys[p]
    <3>1. p \in known /\ met'[p] = met[p] \cup {n}
      BY <1>1, <1>3, <2>1
    <3>2. p \in Complete(n)
      BY <1>11, <2>1, <3>1 DEF Complete, Children
    <3> QED
      BY <3>2
  <2>2. CASE n \notin parent_keys[p]
    <3>1. Ready(p)
      BY <1>3, <1>11, <2>2 DEF Ready
    <3>2. p = n => p \in met'[c]
      BY <1>3
    <3>3. p \in met[c] => p \in met'[c]
      BY <1>3
    <3> QED
      BY <1>2, <3>1, <3>2, <3>3
  <2> QED
    BY <2>1, <2>2
<1> QED
  BY <1>1, <1>7, <1>9, <1>10, <1>11 DEF Waiting, Ready

(* When such a loop has ended and there is no cycle, it has been everywhere.   *)
LEMMA AllReady ==
  ASSUME Typed, Waiting, doing \in Loops, pending = {}, ~Cyclic
  PROVE  \A k \in Keys : Ready(k)
<1> DEFINE S == {k \in Keys : ~Ready(k)}
<1>1. \A k \in Keys : met[k] \subseteq parent_keys[k]
  BY DEF Waiting
<1>2. S \subseteq known
  BY <1>1 DEF Typed, Ready
<1>3. ASSUME NEW k \in S PROVE parent_keys[k] \cap S # {}
  <2>1. PICK p \in parent_keys[k] : p \notin met[k]
    BY <1>1 DEF Ready
  <2>2. p \in Keys /\ ~Ready(p)
    BY <2>1 DEF Waiting, Typed
  <2> QED
    BY <2>1, <2>2
<1>4. S = {}
  <2> HIDE DEF S
  <2> QED
    BY <1>2, <1>3 DEF Cyclic
<1> QED
  BY <1>4

LEMMA WaitingStep == Typed /\ Waiting /\ [KnownGraphNext]_graphvars => Waiting'
<1> SUFFICES ASSUME Typed, Waiting, [KnownGraphNext]_graphvars PROVE Waiting'
  OBVIOUS
<1>1. ASSUME NEW n \in Keys, FindGdfo(n) PROVE Waiting'
  BY <1>1, Turn DEF FindGdfo, Loops
<1>2. ASSUME NEW n \in Keys, SortTurn(n) PROVE Waiting'
  BY <1>2, Turn DEF SortTurn, Loops
<1>3. ASSUME BeginSort PROVE Waiting'
  <2>1. parent_keys' = parent_keys /\ \A c \in Keys : met'[c] = {}
    BY <1>3 DEF BeginSort, Typed, Loops, storedvars, searchvars
  <2>2. \A c \in Keys : \A p \in parent_keys[c] : p \in nodes
    BY DEF Typed
  <2>3. doing' \in Loops => pending' = Tails
    BY <1>3 DEF BeginSort, Loops
  <2>4. \A n \in Tails : n \in Keys /\ parent_keys[n] = {}
    BY DEF Tails, Typed
  <2>5. \A c \in Keys : \A p \in parent_keys[c] : parent_keys[p] = {} => p \in Tails
    BY <2>2 DEF Tails
  <2>6. ASSUME NEW c \in Keys, NEW p \in parent_keys[c] PROVE p \in Keys
    BY <2>2 DEF Typed
  <2> QED
    BY <2>1, <2>3, <2>4, <2>5, <2>6 DEF Waiting, Ready
<1>4. ASSUME doing' \notin Loops PROVE Waiting'
  BY <1>4 DEF Waiting
<1>5. ASSUME UNCHANGED graphvars PROVE Waiting'
  BY <1>5 DEF Waiting, Ready, graphvars
<1>6. \/ \E n \in Keys : FindGdfo(n) \/ SortTurn(n)
      \/ BeginSort \/ doing' \notin Loops \/ UNCHANGED graphvars
  BY DEF KnownGraphNext, Return, AddNode, AddNodeTurn, AskHeads, Search, FoundHeads, Loops
<1> QED
  BY <1>1, <1>2, <1>3, <1>4, <1>5, <1>6

-----------------------------------------------------------------------------
(* Distances from the origins *)

\* Cycles are a matter of the stored graph alone.
LEMMA SameCycles == UNCHANGED storedvars => (Cyclic' <=> Cyclic)
BY DEF storedvars, Cyclic

(* A step of the loops that compute distances never brings a node closer.      *)
LEMMA Moved ==
  ASSUME Typed, NEW n \in Keys, MoveChildren(n)
  PROVE  \A k \in Keys :
           gdfo'[k] = IF n \in parent_keys[k] /\ gdfo[k] < gdfo[n] + 1 THEN gdfo[n] + 1 ELSE gdfo[k]
<1> \A k \in Keys : n \in parent_keys[k] => k \in known
  BY DEF Typed
<1> QED
  BY DEF MoveChildren, Children, Typed

LEMMA DistancesInit == KInit => Distances
BY KnownGraphAssumption DEF KInit, Distances, Tails

LEMMA DistancesStep ==
  Typed /\ Typed' /\ Waiting /\ Distances /\ [KnownGraphNext]_graphvars => Distances'
<1> SUFFICES ASSUME Typed, Typed', Waiting, Distances, [KnownGraphNext]_graphvars
             PROVE  Distances'
  OBVIOUS
<1>0. /\ \A k \in Keys : gdfo[k] \in Nat /\ gdfo'[k] \in Nat
      /\ \A k \in Keys : \A p \in parent_keys[k] : p \in Keys
      /\ \A k \in nodes : k \in Keys
      /\ \A k \in pending : k \in nodes
  BY DEF Typed
<1>1. ASSUME NEW n \in Keys, FindGdfo(n) PROVE Distances'
  <2>1. /\ doing = "_find_gdfo" /\ doing' = doing /\ n \in pending
        /\ parent_keys' = parent_keys /\ nodes' = nodes
        /\ MoveChildren(n) /\ MeetParent(n)
    BY <1>1 DEF FindGdfo, storedvars
  <2>2. \A k \in Keys : gdfo'[k] = IF n \in parent_keys[k] /\ gdfo[k] < gdfo[n] + 1
                                   THEN gdfo[n] + 1 ELSE gdfo[k]
    BY <2>1, Moved
  <2>3. /\ \A p \in Keys : Ready(p) => n \notin parent_keys[p]
        /\ \A c \in Keys : \A p \in met[c] : p \in Keys /\ Ready(p)
        /\ Ready(n)
    BY <1>0, <2>1 DEF Waiting, Loops, Ready
  <2>4. ASSUME NEW c \in Keys, NEW p \in met'[c] PROVE gdfo'[p] < gdfo'[c]
    <3>1. (p = n /\ n \in parent_keys[c]) \/ p \in met[c]
      BY <2>1 DEF MeetParent, Children, Typed
    <3>2. p \in Keys /\ gdfo'[p] = gdfo[p]
      BY <2>2, <2>3, <3>1
    <3>3. p \in met[c] => gdfo[p] < gdfo[c]
      BY <2>1 DEF Distances
    <3> QED
      BY <1>0, <2>2, <3>1, <3>2, <3>3
  <2>5. \A k \in Tails' : gdfo'[k] > 0
    BY <1>0, <2>1, <2>2 DEF Distances, Tails
  <2> QED
    BY <2>1, <2>4, <2>5 DEF Distances
<1>2. ASSUME NEW n \in Keys, AddNodeTurn(n) PROVE Distances'
  <2>1. /\ doing = "add_node" /\ doing' = doing /\ n \in pending
        /\ UNCHANGED storedvars /\ parent_keys' = parent_keys /\ nodes' = nodes
        /\ MoveChildren(n)
    BY <1>2 DEF AddNodeTurn, storedvars
  <2>2. \A k \in Keys : gdfo'[k] = IF n \in parent_keys[k] /\ gdfo[k] < gdfo[n] + 1
                                   THEN gdfo[n] + 1 ELSE gdfo[k]
    BY <2>1, Moved
  <2>3. \A k \in Keys : k \in pending' <=>
           (k \in pending /\ k # n) \/ (n \in parent_keys[k] /\ gdfo[k] < gdfo[n] + 1)
    BY <1>2 DEF AddNodeTurn, Children, Typed
  <2>4. Further /\ NoneLeft => Further' /\ NoneLeft'
    <3> SUFFICES ASSUME Further, NoneLeft PROVE Further' /\ NoneLeft'
      OBVIOUS
    <3>1. ASSUME NEW c \in Keys, NEW p \in parent_keys[c], p \notin pending'
          PROVE  gdfo'[p] < gdfo'[c]
      <4>1. p \in Keys /\ gdfo'[p] = gdfo[p] /\ (p = n \/ p \notin pending)
        BY <1>0, <2>2, <2>3, <3>1
      <4>2. gdfo'[c] >= gdfo[c]
        BY <1>0, <2>2
      <4>3. CASE p = n
        BY <1>0, <2>2, <3>1, <4>1, <4>3
      <4>4. CASE p \notin pending
        BY <1>0, <4>1, <4>2, <4>4 DEF Further
      <4> QED
        BY <4>1, <4>3, <4>4
    <3>2. NoneLeft'
      BY <1>0, <2>1, <2>2 DEF NoneLeft
    <3> QED
      BY <2>1, <3>1, <3>2 DEF Further
  <2> QED
    BY <2>1, <2>4, SameCycles DEF Distances
<1>3. ASSUME NEW k \in Keys, NEW ps \in SUBSET Keys, AddNode(k, ps) PROVE Distances'
  <2> DEFINE found == [j \in Keys |-> IF j \in ps \ nodes THEN 1 ELSE gdfo[j]]
  <2>1. PICK d \in {1} \cup {found[p] + 1 : p \in ps} :
           (\A p \in ps : found[p] < d) /\ gdfo' = [found EXCEPT ![k] = d]
    BY <1>3 DEF AddNode
  <2>2. /\ doing = "nothing" /\ doing' = "add_node" /\ pending' = {k} /\ ~Cyclic
        /\ k \notin ps /\ k \notin known
        /\ parent_keys' = [parent_keys EXCEPT ![k] = ps]
        /\ nodes' = nodes \cup {k} \cup ps
    BY <1>3 DEF AddNode
  <2>3. Further /\ NoneLeft
    BY <2>2 DEF Distances
  <2>4. /\ \A j \in Keys : found[j] \in Nat
        /\ d \in Nat /\ d > 0
    <3>1. \A j \in Keys : found[j] \in Nat
      BY <1>0
    <3>2. d = 1 \/ \E p \in ps : d = found[p] + 1
      BY <2>1
    <3> HIDE DEF found
    <3> QED
      BY <3>1, <3>2
  <2>5. \A j \in Keys : gdfo'[j] = IF j = k THEN d
                                   ELSE IF j \in ps \ nodes THEN 1 ELSE gdfo[j]
    BY <2>1
  <2>6. ASSUME NEW c \in Keys, NEW p \in parent_keys'[c], p # k PROVE gdfo'[p] < gdfo'[c]
    <3>1. CASE c = k
      <4>1. p \in ps
        BY <2>2, <2>6, <3>1 DEF Typed
      <4> QED
        BY <2>1, <2>5, <2>6, <3>1, <4>1
    <3>2. CASE c # k
      <4>1. p \in parent_keys[c] /\ c \in nodes /\ p \in nodes
        BY <2>2, <2>6, <3>2 DEF Typed
      <4>2. gdfo[p] < gdfo[c]
        BY <2>2, <2>3, <4>1 DEF Further
      <4> QED
        BY <1>0, <2>5, <2>6, <3>2, <4>1, <4>2
    <3> QED
      BY <3>1, <3>2
  <2>7. \A j \in nodes' : gdfo'[j] > 0
    BY <1>0, <2>2, <2>3, <2>4, <2>5 DEF NoneLeft
  <2> QED
    BY <2>2, <2>6, <2>7 DEF Distances, Further, NoneLeft
<1>4. ASSUME Return PROVE Distances'
  <2>1. /\ UNCHANGED storedvars /\ UNCHANGED <<nodes, parent_keys, gdfo>>
        /\ pending = {} /\ doing' = "nothing"
    BY <1>4 DEF Return, storedvars
  <2>2. CASE doing = "_find_gdfo" /\ ~Cyclic
    <3>1. \A k \in Keys : Ready(k)
      BY <2>1, <2>2, AllReady DEF Loops
    <3>2. \A c \in Keys : \A p \in parent_keys[c] : gdfo[p] < gdfo[c]
      BY <2>2, <3>1 DEF Distances, Ready
    <3>3. ASSUME NEW k \in nodes PROVE gdfo[k] > 0
      <4>1. CASE parent_keys[k] = {}
        BY <2>2, <4>1 DEF Distances, Tails
      <4>2. CASE parent_keys[k] # {}
        BY <1>0, <3>2, <4>2
      <4> QED
        BY <4>1, <4>2
    <3> QED
      BY <2>1, <3>2, <3>3 DEF Distances, Further, NoneLeft
  <2>3. CASE Cyclic
    BY <2>1, <2>3, SameCycles DEF Distances
  <2>4. CASE doing # "_find_gdfo" /\ ~Cyclic
    BY <2>1, <2>4 DEF Distances, Further, NoneLeft
  <2> QED
    BY <2>2, <2>3, <2>4
<1>5. ASSUME BeginSort PROVE Distances'
  BY <1>5, SameCycles DEF BeginSort, Distances, Further, NoneLeft, storedvars
<1>6. ASSUME UNCHANGED <<storedvars, gdfo>>,
             doing \notin {"_find_gdfo", "add_node"}, doing' \notin {"_find_gdfo", "add_node", "raised"}
      PROVE  Distances'
  BY <1>6, SameCycles DEF Distances, Further, NoneLeft, storedvars
<1>7. ASSUME UNCHANGED graphvars PROVE Distances'
  BY <1>7, SameCycles DEF Distances, Further, NoneLeft, Tails, graphvars, storedvars
<1>8. ASSUME \/ \E n \in Keys : Search(n) \/ SortTurn(n)
             \/ \E ks \in SUBSET Keys : AskHeads(ks)
             \/ FoundHeads
      PROVE  Distances'
  BY <1>6, <1>8 DEF Search, SortTurn, AskHeads, FoundHeads
<1> QED
  BY <1>1, <1>2, <1>3, <1>4, <1>5, <1>7, <1>8 DEF KnownGraphNext

-----------------------------------------------------------------------------
(* The order of topo_sort *)

(* What a turn of topo_sort appends was pending, and all of its parents that   *)
(* are no ghosts are listed.                                                   *)
LEMMA ListingStep ==
  Typed /\ Typed' /\ Waiting /\ Listing /\ [KnownGraphNext]_graphvars => Listing'
<1> SUFFICES ASSUME Typed, Typed', Waiting, Listing, [KnownGraphNext]_graphvars,
                    doing' = "topo_sort"
             PROVE  Listing'
  BY DEF Listing
<1>1. ASSUME NEW n \in Keys, SortTurn(n) PROVE Listing'
  <2>1. /\ doing = "topo_sort" /\ n \in pending /\ parent_keys' = parent_keys /\ known' = known
        /\ order' = IF n \in known THEN Append(order, n) ELSE order
        /\ MeetParent(n) /\ pending' = (pending \ {n}) \cup Complete(n)
    BY <1>1 DEF SortTurn, storedvars
  <2>2. /\ Ready(n) /\ \A c \in Keys : \A p \in met[c] : Ready(p)
        /\ \A i \in 1 .. Len(order) : Ready(order[i]) /\ order[i] \notin pending
        /\ \A c \in Keys : \A p \in met[c] \cap known : Listed(p)
        /\ \A k \in known : Ready(k) => k \in pending \/ Listed(k)
        /\ \A c \in Keys : n \notin met[c]
    BY <2>1 DEF Waiting, Listing, Loops
  <2>3. /\ order \in Seq(known) /\ order' \in Seq(known) /\ known \subseteq Keys
        /\ \A c \in Keys : n \in parent_keys[c] => c \in known
    BY <2>1 DEF Typed
  <2>4. \A c \in Keys : met'[c] = IF n \in parent_keys[c] THEN met[c] \cup {n} ELSE met[c]
    BY <2>1, <2>3 DEF MeetParent, Children
  <2>5. /\ \A k \in Keys : Ready(k) => n \notin parent_keys[k] /\ Ready(k)'
        /\ \A k \in Complete(n) : k \in Keys /\ n \in parent_keys[k]
    BY <2>1, <2>2, <2>3, <2>4 DEF Ready, Complete, Children
  <2>6. \A i \in 1 .. Len(order') :
           \/ i \in 1 .. Len(order) /\ order'[i] = order[i]
           \/ n \in known /\ order'[i] = n
    BY <2>1, <2>3, AppendProperties
  <2>7. /\ \A k : Listed(k) => Listed(k)'
        /\ n \in known => Listed(n)'
    <3>1. CASE n \in known
      <4>1. /\ Len(order') = Len(order) + 1 /\ order'[Len(order) + 1] = n
            /\ \A i \in 1 .. Len(order) : order'[i] = order[i]
        BY <2>1, <2>3, <3>1, AppendProperties
      <4>2. Len(order) \in Nat
        BY <2>3
      <4>3. ASSUME NEW k, Listed(k) PROVE Listed(k)'
        <5>1. PICK i \in 1 .. Len(order) : order[i] = k
          BY <4>3 DEF Listed
        <5>2. i \in 1 .. Len(order') /\ order'[i] = k
          BY <4>1, <4>2, <5>1
        <5> QED
          BY <5>2 DEF Listed
      <4>4. Listed(n)'
        <5>1. Len(order) + 1 \in 1 .. Len(order')
          BY <4>1, <4>2
        <5> QED
          BY <4>1, <5>1 DEF Listed
      <4> QED
        BY <4>3, <4>4
    <3>2. CASE n \notin known
      BY <2>1, <3>2 DEF Listed
    <3> QED
      BY <3>1, <3>2
  <2>8. ASSUME NEW i \in 1 .. Len(order') 
        PROVE  met'[order'[i]] = parent_keys'[order'[i]] /\ order'[i] \notin pending'
    <3>1. order'[i] \in Keys
      BY <2>3
    <3>2. Ready(order'[i]) /\ (order'[i] \notin pending \/ order'[i] = n)
      BY <2>2, <2>6
    <3>3. order'[i] \notin Complete(n)
      BY <2>5, <3>1, <3>2
    <3>4. order'[i] \in pending' => order'[i] \in pending /\ order'[i] # n
      BY <2>1, <3>3
    <3>5. \A k \in Keys : Ready(k) => met'[k] = parent_keys'[k]
      BY <2>5 DEF Ready
    <3> QED
      BY <3>1, <3>2, <3>4, <3>5
  <2>9. ASSUME NEW c \in Keys, NEW p \in met'[c] \cap known PROVE Listed(p)'
    <3>1. p = n \/ p \in met[c]
      BY <2>4
    <3> QED
      BY <2>2, <2>7, <3>1
  <2>10. ASSUME NEW k \in known, Ready(k)' PROVE k \in pending' \/ Listed(k)'
    <3>1. CASE Ready(k)
      BY <2>1, <2>2, <2>7, <3>1
    <3>2. CASE ~Ready(k)
      BY <2>1, <2>3, <2>4, <2>10, <3>2 DEF Ready, Complete, Children
    <3> QED
      BY <3>1, <3>2
  <2> QED
    BY <2>1, <2>8, <2>9, <2>10 DEF Listing, Ready
<1>2. ASSUME BeginSort PROVE Listing'
  <2>1. /\ pending' = Tails /\ parent_keys' = parent_keys /\ known' = known
        /\ order' = <<>> /\ \A c \in Keys : met'[c] = {}
    BY <1>2 DEF BeginSort, Typed, Loops, storedvars, searchvars
  <2>2. known \subseteq nodes /\ known \subseteq Keys
    BY DEF Typed
  <2>3. \A k \in known : Ready(k)' => k \in Tails
    BY <2>1, <2>2 DEF Ready, Tails
  <2>4. Len(order') = 0
    BY <2>1
  <2> QED
    BY <2>1, <2>3, <2>4 DEF Listing
<1>3. ASSUME UNCHANGED graphvars PROVE Listing'
  BY <1>3 DEF Listing, Listed, Ready, graphvars
<1>4. (\E n \in Keys : SortTurn(n)) \/ BeginSort \/ UNCHANGED graphvars
  BY DEF KnownGraphNext, FindGdfo, AddNodeTurn, Search, AddNode, AskHeads, Return, FoundHeads
<1> QED
  BY <1>1, <1>2, <1>3, <1>4

(* When it has ended and there is no cycle, everything is listed but ghosts.   *)
LEMMA AllListed ==
  Typed /\ Waiting /\ Listing =>
    (doing = "topo_sort" /\ pending = {} /\ ~Cyclic =>
       \A k \in known : \E i \in 1 .. Len(order) : order[i] = k)
<1> SUFFICES ASSUME Typed, Waiting, Listing, doing = "topo_sort", pending = {}, ~Cyclic
             PROVE  \A k \in known : \E i \in 1 .. Len(order) : order[i] = k
  OBVIOUS
<1>1. \A k \in Keys : Ready(k)
  BY AllReady DEF Loops
<1> QED
  BY <1>1 DEF Listing, Listed, Typed

(* What the order says of itself stays true as it grows.                       *)
LEMMA SortedStep ==
  ASSUME Typed, Typed', Waiting, Waiting', Distances', Listing, Listing', SortedRight,
         [KnownGraphNext]_graphvars
  PROVE  SortedRight'
<1>1. (doing = "raised" => Cyclic)'
  BY DEF Distances
<1>2. (doing = "topo_sort" /\ pending = {} /\ ~Cyclic =>
         \A k \in known : \E i \in 1 .. Len(order) : order[i] = k)'
  BY AllListed, PTL
<1>3. CASE order' = <<>>
  <2>1. Len(order') = 0
    BY <1>3
  <2> QED
    BY <1>1, <1>2, <2>1 DEF SortedRight
<1>4. ASSUME NEW n \in Keys, SortTurn(n) PROVE SortedRight'
  <2>1. /\ doing = "topo_sort" /\ n \in pending /\ parent_keys' = parent_keys /\ known' = known
        /\ order' = IF n \in known THEN Append(order, n) ELSE order
    BY <1>4 DEF SortTurn, storedvars
  <2>2. order \in Seq(known) /\ Len(order) \in Nat
    BY DEF Typed
  <2>3. CASE n \notin known
    BY <1>1, <1>2, <2>1, <2>3 DEF SortedRight
  <2>4. CASE n \in known
    <3>1. /\ Len(order') = Len(order) + 1 /\ order'[Len(order) + 1] = n
          /\ \A i \in 1 .. Len(order) : order'[i] = order[i]
      BY <2>1, <2>2, <2>4, AppendProperties
    <3>2. \A i \in 1 .. Len(order) : order[i] # n
      BY <2>1 DEF Listing
    <3>3. \A p \in parent_keys[n] \cap known : \E j \in 1 .. Len(order) : order[j] = p
      BY <2>1 DEF Listing, Listed, Waiting, Ready, Loops
    <3>4. ASSUME NEW i \in 1 .. Len(order'), NEW p \in parent_keys'[order'[i]] \cap known'
          PROVE  \E j \in 1 .. i - 1 : order'[j] = p
      <4>1. CASE i = Len(order) + 1
        <5>1. PICK j \in 1 .. Len(order) : order[j] = p
          BY <2>1, <3>1, <3>3, <4>1
        <5>2. j \in 1 .. i - 1 /\ order'[j] = p
          BY <2>2, <3>1, <4>1, <5>1
        <5> QED
          BY <5>2
      <4>2. CASE i \in 1 .. Len(order)
        <5>1. PICK j \in 1 .. i - 1 : order[j] = p
          BY <2>1, <3>1, <4>2 DEF SortedRight
        <5>2. order'[j] = p
          BY <2>2, <3>1, <4>2, <5>1
        <5> QED
          BY <5>2
      <4> QED
        BY <2>2, <3>1, <4>1, <4>2
    <3>5. \A i, j \in 1 .. Len(order') : order'[i] = order'[j] => i = j
      BY <2>2, <3>1, <3>2 DEF SortedRight
    <3> QED
      BY <1>1, <1>2, <3>4, <3>5 DEF SortedRight
  <2> QED
    BY <2>3, <2>4
<1>5. ASSUME UNCHANGED graphvars PROVE SortedRight'
  BY <1>1, <1>2, <1>5 DEF SortedRight, graphvars
<1>6. (\E n \in Keys : SortTurn(n)) \/ order' = <<>> \/ UNCHANGED graphvars
  <2>1. CASE doing' = "topo_sort"
    BY <2>1 DEF KnownGraphNext, FindGdfo, AddNodeTurn, Search, AddNode, AskHeads, Return,
       FoundHeads, BeginSort, Typed, searchvars
  <2>2. CASE doing' # "topo_sort"
    BY <2>2 DEF Typed
  <2> QED
    BY <2>1, <2>2
<1> QED
  BY <1>3, <1>4, <1>5, <1>6

-----------------------------------------------------------------------------
(* Heads *)

(* Ancestors contain parents, and the parents of each of their own, and are    *)
(* the least such set.                                                         *)
LEMMA AncestorsLead ==
  ASSUME Typed, NEW K \in SUBSET Keys
  PROVE  /\ \A k \in K : parent_keys[k] \subseteq Ancestors(K)
         /\ \A a \in Ancestors(K) : a \in Keys /\ parent_keys[a] \subseteq Ancestors(K)
<1>1. \A k \in Keys : \A p \in parent_keys[k] : p \in Keys
  BY DEF Typed
<1> QED
  BY <1>1 DEF Ancestors, Closed

LEMMA AncestorsLeast ==
  ASSUME NEW K, NEW S \in SUBSET Keys, \A k \in K : parent_keys[k] \subseteq S,
         \A k \in S : parent_keys[k] \subseteq S
  PROVE  Ancestors(K) \subseteq S
BY DEF Ancestors, Closed

\* They are a matter of the parents alone.
LEMMA SameAncestors == parent_keys' = parent_keys => \A K : Ancestors(K)' = Ancestors(K)
BY DEF Ancestors, Closed

LEMMA SearchingStep ==
  Typed /\ Typed' /\ Distances /\ Searching /\ [KnownGraphNext]_graphvars => Searching'
<1> SUFFICES ASSUME Typed, Typed', Distances, Searching, [KnownGraphNext]_graphvars,
                    doing' = "heads"
             PROVE  Searching'
  BY DEF Searching
<1>1. ASSUME NEW n \in Keys, Search(n) PROVE Searching'
  <2>1. /\ doing = "heads" /\ n \in pending /\ wanted' = wanted /\ gdfo' = gdfo
        /\ UNCHANGED storedvars /\ parent_keys' = parent_keys
        /\ seen' = seen \cup {n}
        /\ pending' = (pending \ {n}) \cup
                      (IF n \notin seen /\ \E k \in wanted : gdfo[k] < gdfo[n]
                       THEN parent_keys[n] ELSE {})
    BY <1>1 DEF Search, storedvars
  <2>2. /\ ~Cyclic /\ seen \cup pending \subseteq Ancestors(wanted)
        /\ \A k \in wanted : parent_keys[k] \subseteq seen \cup pending
        /\ \A x \in seen : (\E k \in wanted : gdfo[k] < gdfo[x]) =>
                             parent_keys[x] \subseteq seen \cup pending
    BY <2>1 DEF Searching
  <2>3. seen \cup pending \subseteq seen' \cup pending'
    BY <2>1
  <2>4. seen' \cup pending' \subseteq Ancestors(wanted)
    <3>1. wanted \in SUBSET Keys
      BY DEF Typed
    <3>2. parent_keys[n] \subseteq Ancestors(wanted)
      BY <2>1, <2>2, <3>1, AncestorsLead
    <3> QED
      BY <2>1, <2>2, <3>2
  <2>5. ASSUME NEW x \in seen', \E k \in wanted : gdfo[k] < gdfo[x]
        PROVE  parent_keys[x] \subseteq seen' \cup pending'
    <3>1. CASE x \in seen
      BY <2>2, <2>3, <2>5, <3>1
    <3>2. CASE x \notin seen
      BY <2>1, <2>5, <3>2
    <3> QED
      BY <3>1, <3>2
  <2>6. Ancestors(wanted)' = Ancestors(wanted)
    BY <2>1 DEF Ancestors, Closed
  <2> QED
    BY <2>1, <2>2, <2>3, <2>4, <2>5, <2>6, SameCycles DEF Searching
<1>2. ASSUME NEW ks \in SUBSET Keys, AskHeads(ks) PROVE Searching'
  <2>1. /\ ~Cyclic /\ wanted' = ks /\ seen' = {} /\ pending' = UNION {parent_keys[k] : k \in ks}
        /\ UNCHANGED storedvars /\ parent_keys' = parent_keys
    BY <1>2 DEF AskHeads, Typed, storedvars
  <2>2. Ancestors(wanted)' = Ancestors(ks)
    BY <2>1 DEF Ancestors, Closed
  <2>3. pending' \subseteq Ancestors(ks)
    BY <2>1, AncestorsLead
  <2> QED
    BY <2>1, <2>2, <2>3, SameCycles DEF Searching
<1>3. ASSUME UNCHANGED graphvars PROVE Searching'
  <2>1. Ancestors(wanted)' = Ancestors(wanted) /\ UNCHANGED storedvars
    BY <1>3 DEF Ancestors, Closed, graphvars, storedvars
  <2> QED
    BY <1>3, <2>1, SameCycles DEF Searching, graphvars
<1>4. \/ \E n \in Keys : Search(n)
      \/ \E ks \in SUBSET Keys : AskHeads(ks)
      \/ UNCHANGED graphvars
  BY DEF KnownGraphNext, FindGdfo, AddNodeTurn, SortTurn, AddNode, Return, FoundHeads, BeginSort
<1> QED
  BY <1>1, <1>2, <1>3, <1>4

(* Whatever a search for heads has not come to when it ends is either closer   *)
(* to an origin than all it was asked about, or no ancestor of them.           *)
LEMMA SearchFinds ==
  ASSUME Typed, Distances, Searching, doing = "heads", pending = {}
  PROVE  wanted \ seen = wanted \ Ancestors(wanted)
<1> DEFINE Near == {x \in Keys : \A k \in wanted : gdfo[x] < gdfo[k]}
<1>1. /\ \A k \in Keys : gdfo[k] \in Nat
      /\ \A k \in Keys : \A p \in parent_keys[k] : p \in Keys
      /\ wanted \subseteq Keys /\ seen \subseteq Keys
  BY DEF Typed
<1>2. \A c \in Keys : \A p \in parent_keys[c] : gdfo[p] < gdfo[c]
  BY DEF Distances, Searching, Further
<1>3. \A k \in wanted : parent_keys[k] \subseteq seen
  BY DEF Searching
<1>4. ASSUME NEW x \in seen \cup Near, NEW p \in parent_keys[x] PROVE p \in seen \cup Near
  <2>1. CASE x \in seen /\ \E k \in wanted : gdfo[k] < gdfo[x]
    BY <2>1 DEF Searching
  <2>2. CASE ~\E k \in wanted : gdfo[k] < gdfo[x]
    <3>1. x \in Keys /\ p \in Keys /\ gdfo[p] < gdfo[x]
      BY <1>1, <1>2
    <3> QED
      BY <1>1, <2>2, <3>1
  <2>3. CASE x \in Near
    <3>1. x \in Keys /\ p \in Keys /\ gdfo[p] < gdfo[x]
      BY <1>1, <1>2, <2>3
    <3> QED
      BY <1>1, <2>3, <3>1
  <2> QED
    BY <2>1, <2>2, <2>3
<1>5. Ancestors(wanted) \subseteq seen \cup Near
  <2>1. seen \cup Near \in SUBSET Keys
    BY <1>1
  <2> HIDE DEF Near
  <2> QED
    BY <1>3, <1>4, <2>1, AncestorsLeast
<1>6. seen \subseteq Ancestors(wanted)
  BY DEF Searching
<1>7. \A k \in wanted : k \notin Near
  BY <1>1
<1> HIDE DEF Near
<1> QED
  BY <1>5, <1>6, <1>7

(* A new node takes no part in the ancestry of what was there before; when a   *)
(* ghost is filled in, nothing is remembered.                                  *)
LEMMA RememberedStep ==
  ASSUME Typed, Distances, Searching, HeadsAreRight, [KnownGraphNext]_graphvars
  PROVE  HeadsAreRight'
<1>1. ASSUME FoundHeads PROVE HeadsAreRight'
  <2>1. /\ doing = "heads" /\ pending = {} /\ parent_keys' = parent_keys
        /\ knownHeads' = [ks \in DOMAIN knownHeads \cup {wanted} |->
                            IF ks = wanted THEN wanted \ seen ELSE knownHeads[ks]]
    BY <1>1 DEF FoundHeads, storedvars
  <2>2. wanted \ seen = wanted \ Ancestors(wanted)
    BY <2>1, SearchFinds
  <2> QED
    BY <2>1, <2>2, SameAncestors DEF HeadsAreRight
<1>2. ASSUME NEW k \in Keys, NEW ps \in SUBSET Keys, AddNode(k, ps) PROVE HeadsAreRight'
  <2>1. /\ parent_keys' = [parent_keys EXCEPT ![k] = ps] /\ k \notin known
        /\ knownHeads' = IF k \in nodes THEN <<>> ELSE knownHeads
    BY <1>2 DEF AddNode, Trusted
  <2>2. CASE k \in nodes
    BY <2>1, <2>2 DEF HeadsAreRight
  <2>3. ASSUME k \notin nodes, NEW ks \in DOMAIN knownHeads
        PROVE  Ancestors(ks)' = Ancestors(ks)
    <3>1. /\ ks \subseteq nodes /\ nodes \subseteq Keys /\ parent_keys[k] = {}
          /\ \A x \in Keys : parent_keys[x] \subseteq nodes
      BY <2>1, <2>3 DEF Typed
    <3>2. \A x \in Keys : x # k => parent_keys'[x] = parent_keys[x]
      BY <2>1 DEF Typed
    <3>3. Ancestors(ks) \subseteq nodes
      BY <3>1, AncestorsLeast
    <3>4. ASSUME NEW S \in SUBSET Keys, Closed(S)', \A x \in ks : parent_keys'[x] \subseteq S
          PROVE  Closed(S) /\ \A x \in ks : parent_keys[x] \subseteq S
      BY <2>3, <3>1, <3>2, <3>4 DEF Closed
    <3>5. /\ \A x \in ks : parent_keys[x] \subseteq Ancestors(ks)
          /\ \A a \in Ancestors(ks) : a \in Keys /\ parent_keys[a] \subseteq Ancestors(ks)
      BY <3>1, AncestorsLead
    <3>6. /\ Ancestors(ks) \in SUBSET Keys
          /\ \A a \in Ancestors(ks) : parent_keys'[a] \subseteq Ancestors(ks)
          /\ \A x \in ks : parent_keys'[x] \subseteq Ancestors(ks)
      BY <2>3, <3>1, <3>2, <3>3, <3>5
    <3>7. Ancestors(ks)' \subseteq Ancestors(ks)
      <4> DEFINE A == Ancestors(ks)
      <4>1. PICK B : B = A
        OBVIOUS
      <4>2. B \in SUBSET Keys /\ Closed(B)' /\ \A x \in ks : parent_keys'[x] \subseteq B
        BY <3>6, <4>1 DEF Closed
      <4> HIDE DEF A
      <4>3. Ancestors(ks)' \subseteq B
        BY <4>2 DEF Ancestors
      <4> QED
        BY <4>1, <4>3 DEF A
    <3>8. Ancestors(ks) \subseteq Ancestors(ks)'
      BY <3>4 DEF Ancestors
    <3> QED
      BY <3>7, <3>8
  <2> QED
    BY <2>1, <2>2, <2>3 DEF HeadsAreRight
<1>3. ASSUME UNCHANGED <<parent_keys, knownHeads>> PROVE HeadsAreRight'
  BY <1>3, SameAncestors DEF HeadsAreRight
<1>4. \/ FoundHeads \/ (\E k \in Keys, ps \in SUBSET Keys : AddNode(k, ps))
      \/ UNCHANGED <<parent_keys, knownHeads>>
  BY DEF KnownGraphNext, FindGdfo, AddNodeTurn, SortTurn, Search, AskHeads, Return, BeginSort,
     storedvars, graphvars
<1> QED
  BY <1>1, <1>2, <1>3, <1>4

-----------------------------------------------------------------------------
(* The theorems *)

LEMMA InvInit == KInit => GraphInv
<1> SUFFICES ASSUME KInit PROVE GraphInv
  OBVIOUS
<1>1. Typed /\ Distances
  BY TypedInit, DistancesInit
<1>2. Waiting
  <2>1. pending = Tails /\ \A k \in Keys : met[k] = {}
    BY DEF KInit
  <2>2. \A c \in Keys : \A p \in parent_keys[c] : p \in nodes /\ p \in Keys
    BY <1>1 DEF Typed
  <2>3. \A n \in Tails : n \in Keys /\ parent_keys[n] = {}
    BY <1>1 DEF Typed, Tails
  <2> QED
    BY <2>1, <2>2, <2>3 DEF Waiting, Ready, Tails
<1>3. doing = "_find_gdfo" /\ knownHeads = <<>> /\ order = <<>> /\ Len(order) = 0
  BY DEF KInit
<1> QED
  BY <1>1, <1>2, <1>3 DEF GraphInv, Listing, Searching, HeadsAreRight, SortedRight

LEMMA InvStep == GraphInv /\ [KnownGraphNext]_graphvars => GraphInv'
<1> SUFFICES ASSUME GraphInv, [KnownGraphNext]_graphvars PROVE GraphInv'
  OBVIOUS
<1> USE DEF GraphInv
<1>1. Typed'
  BY TypedStep
<1>2. Waiting'
  BY WaitingStep
<1>3. Distances'
  BY <1>1, DistancesStep
<1>4. Listing'
  BY <1>1, ListingStep
<1>5. Searching'
  BY <1>1, SearchingStep
<1>6. HeadsAreRight'
  BY RememberedStep
<1>7. SortedRight'
  BY <1>1, <1>2, <1>3, <1>4, SortedStep
<1> QED
  BY <1>1, <1>2, <1>3, <1>4, <1>5, <1>6, <1>7

(* For any keys, any graph that was read and anything that was added to it:    *)
(* the heads that heads() of _known_graph_py.py returns and remembers are      *)
(* those that none of the other keys leads to.                                 *)
THEOREM HeadsStayRight == KnownGraphSpec => []HeadsAreRight
<1>1. GraphInv => HeadsAreRight
  BY DEF GraphInv
<1> QED
  BY <1>1, InvInit, InvStep, PTL DEF KnownGraphSpec

(* topo_sort of _known_graph_py.py raises only for cycles, lists parents       *)
(* before children and nothing twice, and lists everything that is no ghost    *)
(* unless there is a cycle.                                                    *)
THEOREM SortsAreRight == KnownGraphSpec => []SortedRight
<1>1. GraphInv => SortedRight
  BY DEF GraphInv
<1> QED
  BY <1>1, InvInit, InvStep, PTL DEF KnownGraphSpec

-----------------------------------------------------------------------------
(* MergeSort: the invariant *)

\* What is on the stack; what is a parent, ghosts too; the numbers there are, and the next of a line.
OnStack == {frames[i].name : i \in 1 .. Len(frames)}
Parents == UNION {ToSet(lineage[r]) : r \in Revs}
Numbers ==
  {<<n>> : n \in Nat \ {0}} \cup
  {<<b, k, n>> : b \in Nat, k \in Nat \ {0}, n \in Nat \ {0}}
After(v) == Append(Front(v), Last(v) + 1)

FrameSet == [name : Revs, depth : Nat, left : BOOLEAN, todo : Seq(Parents), first : BOOLEAN]
MTyped ==
  /\ lineage \in Lineages
  /\ unvisited \subseteq Revs /\ continued \subseteq Revs
  /\ frames \in Seq(FrameSet)
  /\ revno \in [Revs -> Seq(Int)]
  /\ spawned \in [0 .. Cardinality(Revs) -> Int]
  /\ scheduled \in Seq([name : Revs, depth : Nat])
  /\ outcome \in {"sorting", "sorted", "GraphCycleError"}

\* Every revision is unvisited, on the stack or completed, and is so once.
Placed ==
  /\ \A i, j \in 1 .. Len(frames) : frames[i].name = frames[j].name => i = j
  /\ \A i, j \in 1 .. Len(scheduled) : scheduled[i].name = scheduled[j].name => i = j
  /\ OnStack \cap Completed = {} /\ unvisited \cap (OnStack \cup Completed) = {}
  /\ Revs = unvisited \cup OnStack \cup Completed /\ Len(scheduled) = Cardinality(Completed)
  /\ frames # <<>> => frames[1].name = Tip
  /\ frames = <<>> => Tip \in Completed
  /\ \A r \in Revs \ unvisited : r \in Reached

\* The stack is a path; what is left to visit of a revision; what is completed is in order
Path ==
  /\ \A i \in 1 .. Len(frames) - 1 : frames[i].left /\ frames[i + 1].name \in ParentsOf(frames[i].name)
  /\ \A i \in 1 .. Len(frames) :
       /\ ToSet(frames[i].todo) \subseteq ToSet(lineage[frames[i].name])
       /\ IF frames[i].left THEN lineage[frames[i].name] # <<>> ELSE frames[i].todo = lineage[frames[i].name]
       /\ \A p \in ParentsOf(frames[i].name) :
            \/ p \in ToSet(frames[i].todo) \/ p \in Completed
            \/ i < Len(frames) /\ p = frames[i + 1].name
Ordered ==
  \A i \in 1 .. Len(scheduled) : \A p \in ParentsOf(scheduled[i].name) :
    \E j \in 1 .. i - 1 : scheduled[j].name = p
Ends ==
  /\ outcome = "GraphCycleError" => LeadsToCycle
  /\ outcome = "sorted" => frames = <<>>

\* The mainline is at depth 0, on the stack or listed: the left-hand line from the tip, as far
\* as the search has come.  It goes on below a frame of depth 0, whose revision continues the line
\* of its left-hand parent unless that closes a cycle and is not looked at yet.
Main == {frames[i].name : i \in {j \in 1 .. Len(frames) : frames[j].depth = 0}} \cup OnMainline
Mainline ==
  /\ Tip \in Main
  /\ \A r \in Main : r = Tip \/ \E c \in Main : HasFirst(c) /\ FirstParent(c) = r
  /\ \A r \in OnMainline : HasFirst(r) => FirstParent(r) \in OnMainline
  /\ \A i, j \in 1 .. Len(frames) : i <= j => frames[i].depth <= frames[j].depth
  /\ \A i \in 1 .. Len(frames) : frames[i].depth = 0 =>
       /\ frames[i].left /\ HasFirst(frames[i].name) => FirstParent(frames[i].name) \in Main
       /\ ~frames[i].left => Completed = {}
       /\ HasFirst(frames[i].name) =>
            frames[i].first \/ (i = Len(frames) /\ ~frames[i].left /\ FirstParent(frames[i].name) \in OnStack)

\* A left-hand parent is continued once a child of it has left unvisited.  One child at most
\* continues its line, and any other that was numbered before began a line of its own.
Continued ==
  /\ \A r \in Revs \ unvisited : HasFirst(r) => FirstParent(r) \in continued
  /\ \A p \in continued : \E c \in Revs \ unvisited : HasFirst(c) /\ FirstParent(c) = p
  /\ \A i \in 1 .. Len(frames) : frames[i].first =>
       /\ HasFirst(frames[i].name)
       /\ \A j \in 1 .. Len(frames) :
            frames[j].first /\ FirstParent(frames[j].name) = FirstParent(frames[i].name) => i = j
       /\ \A s \in Completed :
            HasFirst(s) /\ FirstParent(s) = FirstParent(frames[i].name) => Last(revno[s]) = 1

\* What is completed has a number, and that alone.  The branches from 0 .. Cardinality(Revs) are
\* counted: a second number is no more than the count of its first, and a third (or a single) number
\* above 1 is the next after the left-hand parent's.
Numbered ==
  /\ \A r \in Revs : IF r \in Completed THEN revno[r] \in Numbers ELSE revno[r] = <<>>
  /\ \A r \in Completed :
       /\ Head(revno[r]) <= Len(scheduled)
       /\ Len(revno[r]) = 3 => revno[r][2] <= spawned[revno[r][1]]
       /\ Last(revno[r]) > 1 =>
            HasFirst(r) /\ FirstParent(r) \in Completed /\ revno[r] = After(revno[FirstParent(r)])
  /\ IF Completed = {} THEN spawned[0] = -1 ELSE spawned[0] >= 0
  /\ \A b \in 1 .. Cardinality(Revs) : spawned[b] >= 0
  /\ \A r, s \in Completed : revno[r] = revno[s] => r = s

\* As long as no ghost ends the mainline, it has single numbers and the others have three; the
\* first revision that is completed is on it.
NoGhostEnds == \A r \in Main : lineage[r] = <<>> \/ HasFirst(r)
Single ==
  NoGhostEnds =>
    /\ \A r \in OnMainline :
         revno[r] = IF HasFirst(r) THEN <<revno[FirstParent(r)][1] + 1>> ELSE <<1>>
    /\ \A r \in Completed \ OnMainline : Len(revno[r]) = 3
    /\ Completed = {} =>
         /\ \A i \in 1 .. Len(frames) : frames[i].depth = 0
         /\ frames # <<>> => ~frames[Len(frames)].left

-----------------------------------------------------------------------------
(* The search, step by step *)

\* Front, Last, Head and Tail, position by position.
LEMMA MergeFronts ==
  ASSUME NEW S, NEW s \in Seq(S), s # <<>>
  PROVE  /\ Len(s) \in Nat \ {0} /\ Last(s) = s[Len(s)] /\ s[Len(s)] \in S
         /\ Front(s) \in Seq(S) /\ Len(Front(s)) = Len(s) - 1
         /\ \A i \in 1 .. Len(s) - 1 : Front(s)[i] = s[i]
         /\ Head(s) = s[1] /\ Tail(s) \in Seq(S) /\ Len(Tail(s)) = Len(s) - 1
         /\ \A i \in 1 .. Len(s) - 1 : Tail(s)[i] = s[i + 1]
<1>1. Len(s) \in Nat \ {0} /\ s[Len(s)] \in S /\ Last(s) = s[Len(s)]
  BY DEF Last
<1>2. /\ Front(s) \in Seq(S) /\ Len(Front(s)) = Len(s) - 1
      /\ \A i \in 1 .. Len(s) - 1 : Front(s)[i] = s[i]
  <2>1. Len(s) - 1 \in Int /\ 1 \in Int /\ \A i \in 1 .. Len(s) - 1 : s[i] \in S
    BY <1>1
  <2> DEFINE m == Len(s) - 1
  <2>2. /\ SubSeq(s, 1, m) \in Seq(S) /\ Len(SubSeq(s, 1, m)) = IF 1 <= m THEN m - 1 + 1 ELSE 0
        /\ \A i \in 1 .. m - 1 + 1 : SubSeq(s, 1, m)[i] = s[1 + i - 1]
    BY <2>1, SubSeqProperties
  <2>3. m \in Nat /\ Front(s) = SubSeq(s, 1, m)
    BY <1>1 DEF Front
  <2> HIDE DEF m
  <2>4. /\ SubSeq(s, 1, m) \in Seq(S) /\ Len(SubSeq(s, 1, m)) = m
        /\ \A i \in 1 .. m : SubSeq(s, 1, m)[i] = s[i]
    <3>1. m - 1 + 1 = m /\ \A i \in 1 .. m : 1 + i - 1 = i
      BY <2>3
    <3>2. Len(SubSeq(s, 1, m)) = m
      BY <2>2, <2>3
    <3> QED BY <2>2, <3>1, <3>2
  <2> QED BY <2>3, <2>4 DEF m
<1>3. /\ Head(s) = s[1] /\ Tail(s) \in Seq(S) /\ Len(Tail(s)) = Len(s) - 1
      /\ \A i \in 1 .. Len(s) - 1 : Tail(s)[i] = s[i + 1]
  BY <1>1
<1> QED BY <1>1, <1>2, <1>3

\* What a sequence has, by position.
LEMMA Elements ==
  ASSUME NEW S, NEW s \in Seq(S)
  PROVE  /\ \A x : x \in ToSet(s) <=> \E i \in 1 .. Len(s) : s[i] = x
         /\ DOMAIN s = 1 .. Len(s) /\ Len(s) \in Nat
  BY DEF ToSet

\* What a sequence has is in its front or last, and in its tail or first.
LEMMA Splits ==
  ASSUME NEW S, NEW s \in Seq(S), s # <<>>
  PROVE  /\ Last(s) \in ToSet(s) /\ Last(s) \in S /\ ToSet(Front(s)) \subseteq ToSet(s)
         /\ ToSet(s) \subseteq ToSet(Front(s)) \cup {Last(s)}
         /\ Head(s) \in ToSet(s) /\ Head(s) \in S /\ ToSet(Tail(s)) \subseteq ToSet(s)
         /\ ToSet(s) \subseteq ToSet(Tail(s)) \cup {Head(s)}
<1> DEFINE m == Len(s)
<1>1. /\ m \in Nat \ {0} /\ Last(s) = s[m] /\ Head(s) = s[1]
      /\ \A i \in 1 .. m : s[i] \in S
      /\ Front(s) \in Seq(S) /\ Len(Front(s)) = m - 1
      /\ \A i \in 1 .. m - 1 : Front(s)[i] = s[i]
      /\ Tail(s) \in Seq(S) /\ Len(Tail(s)) = m - 1
      /\ \A i \in 1 .. m - 1 : Tail(s)[i] = s[i + 1]
  BY MergeFronts
<1>2. \A x : x \in ToSet(s) <=> \E i \in 1 .. m : s[i] = x
  BY Elements
<1>3. \A x : x \in ToSet(Front(s)) <=> \E i \in 1 .. m - 1 : Front(s)[i] = x
  <2> DEFINE t == Front(s)
  <2>1. t \in Seq(S) /\ Len(t) = m - 1
    BY <1>1
  <2> HIDE DEF t
  <2>2. \A x : x \in ToSet(t) <=> \E i \in 1 .. m - 1 : t[i] = x
    BY <2>1, Elements
  <2> QED BY <2>2 DEF t
<1>4. \A x : x \in ToSet(Tail(s)) <=> \E i \in 1 .. m - 1 : Tail(s)[i] = x
  <2> DEFINE t == Tail(s)
  <2>1. t \in Seq(S) /\ Len(t) = m - 1
    BY <1>1
  <2> HIDE DEF t
  <2>2. \A x : x \in ToSet(t) <=> \E i \in 1 .. m - 1 : t[i] = x
    BY <2>1, Elements
  <2> QED BY <2>2 DEF t
<1> HIDE DEF m
<1>5. Last(s) \in ToSet(s) /\ Last(s) \in S /\ Head(s) \in ToSet(s) /\ Head(s) \in S
  BY <1>1, <1>2
<1>6. ToSet(Front(s)) \subseteq ToSet(s) /\ ToSet(s) \subseteq ToSet(Front(s)) \cup {Last(s)}
  BY <1>1, <1>2, <1>3
<1>7. ToSet(Tail(s)) \subseteq ToSet(s)
  BY <1>1, <1>2, <1>4
<1>8. ASSUME NEW i \in 1 .. m PROVE s[i] \in ToSet(Tail(s)) \cup {Head(s)}
  <2>1. CASE i = 1
    BY <1>1, <2>1
  <2>2. CASE i # 1
    <3>1. i - 1 \in 1 .. m - 1 /\ (i - 1) + 1 = i
      BY <1>1, <2>2
    <3> QED BY <1>1, <1>4, <3>1
  <2> QED BY <2>1, <2>2
<1> QED BY <1>2, <1>5, <1>6, <1>7, <1>8

\* A frame after a look at one of its parents.
LEMMA FrameTurned ==
  ASSUME NEW f \in FrameSet, NEW rest \in Seq(Parents)
  PROVE  LET g == [f EXCEPT !.left = TRUE, !.todo = rest]
         IN  /\ g \in FrameSet
             /\ g = [name |-> f.name, depth |-> f.depth, left |-> TRUE, todo |-> rest, first |-> f.first]
<1> DEFINE g == [f EXCEPT !.left = TRUE, !.todo = rest]
<1>1. g \in FrameSet
  BY DEF FrameSet
<1>2. g.name = f.name /\ g.depth = f.depth /\ g.left = TRUE /\ g.todo = rest /\ g.first = f.first
  <2>1. g.name = f.name
    BY DEF FrameSet
  <2>2. g.depth = f.depth
    BY DEF FrameSet
  <2>3. g.left = TRUE
    BY DEF FrameSet
  <2>4. g.todo = rest
    BY DEF FrameSet
  <2>5. g.first = f.first
    BY DEF FrameSet
  <2> QED BY <2>1, <2>2, <2>3, <2>4, <2>5
<1> HIDE DEF g
<1>3. g = [name |-> g.name, depth |-> g.depth, left |-> g.left, todo |-> g.todo, first |-> g.first]
  BY <1>1 DEF FrameSet
<1>4. g = [name |-> f.name, depth |-> f.depth, left |-> TRUE, todo |-> rest, first |-> f.first]
  BY <1>2, <1>3
<1> QED BY <1>1, <1>4 DEF g

\* What depends on the graph alone stays as it is.
LEMMA SameLineage ==
  ASSUME lineage' = lineage
  PROVE  /\ Revs' = Revs /\ Parents' = Parents /\ Reached' = Reached
         /\ LeadsToCycle' <=> LeadsToCycle
         /\ \A r : /\ HasFirst(r)' <=> HasFirst(r)
                   /\ FirstParent(r)' = FirstParent(r) /\ ParentsOf(r)' = ParentsOf(r)
<1>1. Revs' = Revs /\ Parents' = Parents
  BY DEF Revs, Parents
<1>2. \A r : /\ HasFirst(r)' <=> HasFirst(r)
             /\ FirstParent(r)' = FirstParent(r) /\ ParentsOf(r)' = ParentsOf(r)
  BY <1>1 DEF HasFirst, FirstParent, ParentsOf
<1>3. Reached' = Reached
  BY <1>1, <1>2 DEF Reached
<1>4. LeadsToCycle' <=> LeadsToCycle
  BY <1>2, <1>3 DEF LeadsToCycle
<1> QED BY <1>1, <1>2, <1>3, <1>4

\* Parents are in the graph, and a left-hand parent that is no ghost is one of them.
LEMMA MergeParents ==
  ASSUME MTyped, NEW r \in Revs
  PROVE  /\ lineage[r] \in Seq(Parents)
         /\ HasFirst(r) => /\ FirstParent(r) \in ParentsOf(r) /\ FirstParent(r) \in Revs
                           /\ lineage[r] # <<>> /\ Head(lineage[r]) = FirstParent(r)
         /\ lineage[r] # <<>> /\ ~HasFirst(r) => Head(lineage[r]) \notin Revs
         /\ ParentsOf(r) \subseteq Revs
         /\ \A p \in ParentsOf(r) : \E i \in 1 .. Len(lineage[r]) : lineage[r][i] = p
<1>1. lineage[r] \in Seq(ToSet(lineage[r]))
  BY MergeSortAssumption DEF MTyped, Revs
<1>2. ToSet(lineage[r]) \subseteq Parents
  BY DEF Parents
<1>3. lineage[r] \in Seq(Parents)
  BY <1>1, <1>2
<1>4. lineage[r] # <<>> => Head(lineage[r]) = lineage[r][1] /\ 1 \in 1 .. Len(lineage[r])
  BY <1>1
<1> QED BY <1>1, <1>3, <1>4, Elements DEF HasFirst, FirstParent, ParentsOf

\* What a turn of the search looks at: a parent r of the revision on top, then the rest.
Looked(n, r, rest) ==
  /\ n = Len(frames) /\ n \in Nat \ {0} /\ outcome = "sorting"
  /\ frames[n] \in FrameSet /\ frames[n].todo # <<>>
  /\ r \in ToSet(frames[n].todo) /\ rest \in Seq(Parents)
  /\ ToSet(rest) \subseteq ToSet(frames[n].todo) /\ ToSet(frames[n].todo) \subseteq ToSet(rest) \cup {r}
  /\ ~frames[n].left => r = Head(frames[n].todo)
  /\ UNCHANGED <<lineage, revno, spawned, scheduled>>
Below(n, rest) ==
  /\ \A i \in 1 .. n - 1 : frames'[i] = frames[i]
  /\ frames'[n] = [name |-> frames[n].name, depth |-> frames[n].depth, left |-> TRUE,
                   todo |-> rest, first |-> frames[n].first]
Pushed(n, r, rest) ==
  /\ Looked(n, r, rest) /\ Below(n, rest) /\ r \in unvisited
  /\ Len(frames') = n + 1
  /\ frames'[n + 1] =
       [name |-> r, depth |-> frames[n].depth + (IF frames[n].left THEN 1 ELSE 0), left |-> FALSE,
        todo |-> lineage[r], first |-> HasFirst(r) /\ FirstParent(r) \notin continued]
  /\ unvisited' = unvisited \ {r} /\ continued' = Continue(r) /\ outcome' = outcome
Skipped(n, r, rest) ==
  /\ Looked(n, r, rest) /\ Below(n, rest) /\ (r \in Completed \/ r \notin Revs)
  /\ Len(frames') = n /\ UNCHANGED <<unvisited, continued, outcome>>
FoundCycle(n, r, rest) ==
  /\ Looked(n, r, rest) /\ r \in Revs \ (unvisited \cup Completed)
  /\ outcome' = "GraphCycleError" /\ UNCHANGED <<unvisited, frames, continued>>
\* A revision is completed.
Popped(n) ==
  /\ n = Len(frames) /\ n \in Nat \ {0} /\ outcome = "sorting"
  /\ frames[n] \in FrameSet /\ frames[n].todo = <<>>
  /\ Len(frames') = n - 1 /\ \A i \in 1 .. n - 1 : frames'[i] = frames[i]
  /\ Len(scheduled) \in Nat /\ Len(scheduled') = Len(scheduled) + 1
  /\ \A i \in 1 .. Len(scheduled) : scheduled'[i] = scheduled[i]
  /\ scheduled'[Len(scheduled) + 1] = [name |-> frames[n].name, depth |-> frames[n].depth]
  /\ UNCHANGED <<lineage, unvisited, continued, outcome>>

\* A visit pushes a parent, skips one that needs no visit, or has found a cycle.
LEMMA Visits ==
  ASSUME MTyped, Visit
  PROVE  /\ frames' \in Seq(FrameSet)
         /\ \E n, r, rest : Pushed(n, r, rest) \/ Skipped(n, r, rest) \/ FoundCycle(n, r, rest)
<1> DEFINE n == Len(frames)
           top == Last(frames)
           r == IF top.left THEN Last(top.todo) ELSE Head(top.todo)
           rest == IF top.left THEN Front(top.todo) ELSE Tail(top.todo)
           turned == [top EXCEPT !.left = TRUE, !.todo = rest]
           below == Append(Front(frames), turned)
           new == Frame(r, top.depth + (IF top.left THEN 1 ELSE 0))
<1>1. /\ outcome = "sorting" /\ frames # <<>> /\ top.todo # <<>>
      /\ UNCHANGED <<lineage, revno, spawned, scheduled>>
      /\ \/ /\ r \in unvisited
            /\ unvisited' = unvisited \ {r}
            /\ frames' = Append(below, new)
            /\ continued' = Continue(r)
            /\ UNCHANGED outcome
         \/ /\ r \in Completed \/ r \notin Revs
            /\ frames' = below
            /\ UNCHANGED <<unvisited, continued, outcome>>
         \/ /\ r \in Revs \ (unvisited \cup Completed)
            /\ outcome' = "GraphCycleError"
            /\ UNCHANGED <<unvisited, frames, continued>>
  BY DEF Visit
<1>2. frames \in Seq(FrameSet)
  BY DEF MTyped
<1>3. /\ n \in Nat \ {0} /\ top = frames[n] /\ top \in FrameSet
      /\ Front(frames) \in Seq(FrameSet) /\ Len(Front(frames)) = n - 1
      /\ \A i \in 1 .. n - 1 : Front(frames)[i] = frames[i]
  BY <1>1, <1>2, MergeFronts
<1>4. top.todo \in Seq(Parents)
  BY <1>3 DEF FrameSet
<1>5. /\ r \in ToSet(top.todo) /\ r \in Parents /\ rest \in Seq(Parents)
      /\ ToSet(rest) \subseteq ToSet(top.todo) /\ ToSet(top.todo) \subseteq ToSet(rest) \cup {r}
  <2> DEFINE todo == top.todo
  <2>1. /\ Last(todo) \in ToSet(todo) /\ Last(todo) \in Parents /\ ToSet(Front(todo)) \subseteq ToSet(todo)
        /\ ToSet(todo) \subseteq ToSet(Front(todo)) \cup {Last(todo)}
        /\ Head(todo) \in ToSet(todo) /\ Head(todo) \in Parents /\ ToSet(Tail(todo)) \subseteq ToSet(todo)
        /\ ToSet(todo) \subseteq ToSet(Tail(todo)) \cup {Head(todo)}
        /\ Front(todo) \in Seq(Parents) /\ Tail(todo) \in Seq(Parents)
    BY <1>1, <1>4, Splits, MergeFronts
  <2> QED BY <2>1
<1>6. ~top.left => r = Head(top.todo)
  OBVIOUS
<1>7. Looked(n, r, rest)
  <2> HIDE DEF r, rest, top
  <2> QED BY <1>1, <1>3, <1>5, <1>6 DEF Looked
<1>8. turned = [name |-> top.name, depth |-> top.depth, left |-> TRUE, todo |-> rest, first |-> top.first]
  <2> HIDE DEF rest, top
  <2> QED BY <1>3, <1>5, FrameTurned
<1>9. turned \in FrameSet
  <2> HIDE DEF rest, top
  <2> QED BY <1>3, <1>5, FrameTurned
<1>10. /\ below \in Seq(FrameSet) /\ Len(below) = n /\ below[n] = turned
       /\ \A i \in 1 .. n - 1 : below[i] = frames[i]
  <2> HIDE DEF turned
  <2> QED BY <1>3, <1>9
<1> HIDE DEF r, rest, top, turned, below
<1>11. CASE r \in unvisited /\ frames' = Append(below, new)
            /\ unvisited' = unvisited \ {r} /\ continued' = Continue(r) /\ UNCHANGED outcome
  <2>1. r \in Revs
    BY <1>11 DEF MTyped
  <2>2. new = [name |-> r, depth |-> top.depth + (IF top.left THEN 1 ELSE 0), left |-> FALSE,
               todo |-> lineage[r], first |-> HasFirst(r) /\ FirstParent(r) \notin continued]
    BY DEF Frame
  <2>3. top.depth + (IF top.left THEN 1 ELSE 0) \in Nat
    BY <1>3 DEF FrameSet
  <2> HIDE DEF new
  <2>4. new \in FrameSet
    <3>1. lineage[r] \in Seq(Parents)
      BY <2>1, MergeParents
    <3>2. (HasFirst(r) /\ FirstParent(r) \notin continued) \in BOOLEAN
      OBVIOUS
    <3> QED BY <2>1, <2>2, <2>3, <3>1, <3>2 DEF FrameSet
  <2>5. /\ frames' \in Seq(FrameSet) /\ Len(frames') = n + 1 /\ frames'[n + 1] = new
        /\ frames'[n] = turned /\ \A i \in 1 .. n - 1 : frames'[i] = frames[i]
    BY <1>3, <1>10, <1>11, <2>4
  <2>6. Below(n, rest)
    BY <1>3, <1>8, <2>5 DEF Below
  <2>7. Pushed(n, r, rest)
    BY <1>3, <1>7, <1>11, <2>2, <2>5, <2>6 DEF Pushed
  <2> QED BY <2>5, <2>7
<1>12. CASE (r \in Completed \/ r \notin Revs) /\ frames' = below /\ UNCHANGED <<unvisited, continued, outcome>>
  <2>1. Below(n, rest)
    BY <1>3, <1>8, <1>10, <1>12 DEF Below
  <2> QED BY <1>7, <1>10, <1>12, <2>1 DEF Skipped
<1>13. CASE r \in Revs \ (unvisited \cup Completed) /\ outcome' = "GraphCycleError"
            /\ UNCHANGED <<unvisited, frames, continued>>
  BY <1>2, <1>7, <1>13 DEF FoundCycle
<1> QED BY <1>1, <1>11, <1>12, <1>13

\* What a pop does to the stack and the list.
LEMMA Pops ==
  ASSUME MTyped, Pop
  PROVE  /\ frames' \in Seq(FrameSet) /\ scheduled' \in Seq([name : Revs, depth : Nat])
         /\ Popped(Len(frames))
<1>1. frames \in Seq(FrameSet) /\ scheduled \in Seq([name : Revs, depth : Nat])
  BY DEF MTyped
<1>2. /\ outcome = "sorting" /\ frames # <<>> /\ Last(frames).todo = <<>> /\ frames' = Front(frames)
      /\ scheduled' = Append(scheduled, [name |-> Last(frames).name, depth |-> Last(frames).depth])
      /\ UNCHANGED <<lineage, unvisited, continued, outcome>>
  BY DEF Pop
<1>3. /\ Len(frames) \in Nat \ {0} /\ Last(frames) = frames[Len(frames)] /\ frames[Len(frames)] \in FrameSet
      /\ frames' \in Seq(FrameSet) /\ Len(frames') = Len(frames) - 1
      /\ \A i \in 1 .. Len(frames) - 1 : frames'[i] = frames[i]
  BY <1>1, <1>2, MergeFronts
<1> DEFINE row == [name |-> frames[Len(frames)].name, depth |-> frames[Len(frames)].depth]
<1>4. row \in [name : Revs, depth : Nat] /\ scheduled' = Append(scheduled, row)
  BY <1>2, <1>3 DEF FrameSet
<1> HIDE DEF row
<1>5. /\ scheduled' \in Seq([name : Revs, depth : Nat]) /\ Len(scheduled) \in Nat
      /\ Len(scheduled') = Len(scheduled) + 1 /\ scheduled'[Len(scheduled) + 1] = row
      /\ \A i \in 1 .. Len(scheduled) : scheduled'[i] = scheduled[i]
  BY <1>1, <1>4
<1> QED BY <1>2, <1>3, <1>5 DEF Popped, row

\* The fields of the stack and the list have their types; what the sets made of them hold.
LEMMA Held ==
  ASSUME MTyped
  PROVE  /\ Len(frames) \in Nat /\ Len(scheduled) \in Nat
         /\ \A i \in 1 .. Len(frames) :
              /\ frames[i].name \in Revs /\ frames[i].depth \in Nat /\ frames[i].left \in BOOLEAN
              /\ frames[i].todo \in Seq(Parents) /\ frames[i].first \in BOOLEAN
         /\ \A i \in 1 .. Len(scheduled) : scheduled[i].name \in Revs /\ scheduled[i].depth \in Nat
         /\ \A x : x \in OnStack <=> \E i \in 1 .. Len(frames) : frames[i].name = x
         /\ \A x : x \in Completed <=> \E i \in 1 .. Len(scheduled) : scheduled[i].name = x
         /\ \A x : x \in OnMainline <=>
              \E i \in 1 .. Len(scheduled) : scheduled[i].depth = 0 /\ scheduled[i].name = x
         /\ \A x : x \in Main <=>
              x \in OnMainline \/ \E i \in 1 .. Len(frames) : frames[i].depth = 0 /\ frames[i].name = x
         /\ OnStack \subseteq Revs /\ Completed \subseteq Revs /\ OnMainline \subseteq Completed
<1>1. frames \in Seq(FrameSet) /\ scheduled \in Seq([name : Revs, depth : Nat])
  BY DEF MTyped
<1>2. /\ Len(frames) \in Nat /\ \A i \in 1 .. Len(frames) : frames[i] \in FrameSet
      /\ Len(scheduled) \in Nat /\ DOMAIN scheduled = 1 .. Len(scheduled)
      /\ \A i \in 1 .. Len(scheduled) : scheduled[i] \in [name : Revs, depth : Nat]
  <2> DEFINE Rows == [name : Revs, depth : Nat]
  <2> HIDE DEF Rows
  <2>1. frames \in Seq(FrameSet) /\ scheduled \in Seq(Rows)
    BY <1>1 DEF Rows
  <2>2. /\ Len(frames) \in Nat /\ \A i \in 1 .. Len(frames) : frames[i] \in FrameSet
        /\ Len(scheduled) \in Nat /\ DOMAIN scheduled = 1 .. Len(scheduled)
        /\ \A i \in 1 .. Len(scheduled) : scheduled[i] \in Rows
    BY <2>1
  <2> QED BY <2>2 DEF Rows
<1>3. \A i \in 1 .. Len(frames) :
              /\ frames[i].name \in Revs /\ frames[i].depth \in Nat /\ frames[i].left \in BOOLEAN
              /\ frames[i].todo \in Seq(Parents) /\ frames[i].first \in BOOLEAN
  BY <1>2 DEF FrameSet
<1>4. \A i \in 1 .. Len(scheduled) : scheduled[i].name \in Revs /\ scheduled[i].depth \in Nat
  BY <1>2
<1>5. \A x : x \in OnStack <=> \E i \in 1 .. Len(frames) : frames[i].name = x
  BY DEF OnStack
<1>6. \A x : x \in Completed <=> \E i \in 1 .. Len(scheduled) : scheduled[i].name = x
  BY <1>2 DEF Completed
<1>7. \A x : x \in OnMainline <=>
        \E i \in 1 .. Len(scheduled) : scheduled[i].depth = 0 /\ scheduled[i].name = x
  BY <1>2 DEF OnMainline
<1>8. \A x : x \in Main <=>
        x \in OnMainline \/ \E i \in 1 .. Len(frames) : frames[i].depth = 0 /\ frames[i].name = x
  BY DEF Main
<1> QED BY <1>2, <1>3, <1>4, <1>5, <1>6, <1>7, <1>8

\* What of the stack and of the list a step leaves alone.
LEMMA AfterPush ==
  ASSUME MTyped, MTyped', NEW n, NEW r, NEW rest, Pushed(n, r, rest)
  PROVE  /\ n = Len(frames) /\ n \in 1 .. n /\ n \in Nat /\ r \in unvisited /\ r \in Revs
         /\ Len(frames') = n + 1
         /\ \A i \in 1 .. n : /\ frames'[i].name = frames[i].name /\ frames'[i].depth = frames[i].depth
                              /\ frames'[i].first = frames[i].first
         /\ \A i \in 1 .. n - 1 : frames'[i] = frames[i]
         /\ frames'[n].left /\ frames'[n].todo = rest
         /\ frames'[n + 1].name = r /\ ~frames'[n + 1].left /\ frames'[n + 1].todo = lineage[r]
         /\ frames'[n + 1].depth = frames[n].depth + (IF frames[n].left THEN 1 ELSE 0)
         /\ frames'[n + 1].first = (HasFirst(r) /\ FirstParent(r) \notin continued)
         /\ \A i \in 1 .. n + 1 : i \in 1 .. n \/ i = n + 1
         /\ OnStack' = OnStack \cup {r} /\ Completed' = Completed /\ OnMainline' = OnMainline
         /\ Main' = Main \cup (IF frames[n].depth = 0 /\ ~frames[n].left THEN {r} ELSE {})
<1>0. /\ \A x : x \in OnStack <=> \E i \in 1 .. Len(frames) : frames[i].name = x
      /\ \A x : x \in Completed <=> \E i \in 1 .. Len(scheduled) : scheduled[i].name = x
      /\ \A x : x \in OnMainline <=>
           \E i \in 1 .. Len(scheduled) : scheduled[i].depth = 0 /\ scheduled[i].name = x
      /\ \A x : x \in Main <=>
           x \in OnMainline \/ \E i \in 1 .. Len(frames) : frames[i].depth = 0 /\ frames[i].name = x
      /\ \A i \in 1 .. Len(frames) : frames[i].depth \in Nat /\ frames[i].name \in Revs
      /\ OnStack \subseteq Revs /\ Completed \subseteq Revs /\ OnMainline \subseteq Completed
  BY Held
<1>1. /\ n = Len(frames) /\ n \in Nat \ {0} /\ r \in unvisited /\ Len(frames') = n + 1
      /\ \A i \in 1 .. n - 1 : frames'[i] = frames[i]
      /\ frames'[n] = [name |-> frames[n].name, depth |-> frames[n].depth, left |-> TRUE,
                       todo |-> rest, first |-> frames[n].first]
      /\ frames'[n + 1] =
           [name |-> r, depth |-> frames[n].depth + (IF frames[n].left THEN 1 ELSE 0), left |-> FALSE,
            todo |-> lineage[r], first |-> HasFirst(r) /\ FirstParent(r) \notin continued]
      /\ UNCHANGED <<scheduled, lineage>>
  BY DEF Pushed, Looked, Below
<1>2. /\ frames'[n].left /\ frames'[n].todo = rest /\ frames'[n].name = frames[n].name
      /\ frames'[n].depth = frames[n].depth /\ frames'[n].first = frames[n].first
  BY <1>1
<1>3. /\ frames'[n + 1].name = r /\ ~frames'[n + 1].left /\ frames'[n + 1].todo = lineage[r]
      /\ frames'[n + 1].depth = frames[n].depth + (IF frames[n].left THEN 1 ELSE 0)
      /\ frames'[n + 1].first = (HasFirst(r) /\ FirstParent(r) \notin continued)
  BY <1>1
<1>4. \A i \in 1 .. n : /\ frames'[i].name = frames[i].name /\ frames'[i].depth = frames[i].depth
                        /\ frames'[i].first = frames[i].first
  <2>1. \A i \in 1 .. n : i \in 1 .. n - 1 \/ i = n
    BY <1>1
  <2> QED BY <1>1, <1>2, <2>1
<1>5. (\A i \in 1 .. n + 1 : i \in 1 .. n \/ i = n + 1) /\ (\A i \in 1 .. n : i \in 1 .. n + 1)
      /\ n + 1 \in 1 .. n + 1 /\ n \in 1 .. n
  BY <1>1
<1>6. r \in Revs
  BY <1>1 DEF MTyped
<1>7. Completed' = Completed /\ OnMainline' = OnMainline
  BY <1>1 DEF Completed, OnMainline
<1>8. OnStack' = OnStack \cup {r}
  <2>1. \A x : x \in OnStack' <=> \E i \in 1 .. n + 1 : frames'[i].name = x
    BY <1>1 DEF OnStack
  <2> QED BY <1>0, <1>1, <1>3, <1>4, <1>5, <2>1
<1>9. Main' = Main \cup (IF frames[n].depth = 0 /\ ~frames[n].left THEN {r} ELSE {})
  <2>1. \A x : x \in Main' <=>
          x \in OnMainline \/ \E i \in 1 .. n + 1 : frames'[i].depth = 0 /\ frames'[i].name = x
    BY <1>1, <1>7 DEF Main
  <2>2. frames'[n + 1].depth = 0 <=> frames[n].depth = 0 /\ ~frames[n].left
    BY <1>0, <1>1, <1>3, <1>5
  <2>3. \A x : x \in Main' <=> x \in Main \/ (frames'[n + 1].depth = 0 /\ x = r)
    <3>1. ASSUME NEW x \in Main' PROVE x \in Main \/ (frames'[n + 1].depth = 0 /\ x = r)
      <4>1. CASE x \in OnMainline
        BY <1>0, <4>1
      <4>2. ASSUME NEW i \in 1 .. n + 1, frames'[i].depth = 0, frames'[i].name = x PROVE x \in Main \/ (frames'[n + 1].depth = 0 /\ x = r)
        <5>1. CASE i \in 1 .. n
          BY <1>0, <1>1, <1>4, <4>2, <5>1
        <5>2. CASE i = n + 1
          BY <1>3, <4>2, <5>2
        <5> QED BY <1>5, <5>1, <5>2
      <4> QED BY <2>1, <4>1, <4>2
    <3>2. ASSUME NEW x \in Main PROVE x \in Main'
      <4>1. CASE x \in OnMainline
        BY <2>1, <4>1
      <4>2. ASSUME NEW i \in 1 .. n, frames[i].depth = 0, frames[i].name = x PROVE x \in Main'
        BY <1>4, <1>5, <2>1, <4>2
      <4> QED BY <1>0, <1>1, <4>1, <4>2
    <3>3. frames'[n + 1].depth = 0 => r \in Main'
      BY <1>3, <1>5, <2>1
    <3> QED BY <3>1, <3>2, <3>3
  <2> QED BY <2>2, <2>3
<1> QED BY <1>1, <1>2, <1>3, <1>4, <1>5, <1>6, <1>7, <1>8, <1>9

LEMMA AfterSkip ==
  ASSUME MTyped, MTyped', NEW n, NEW r, NEW rest, Skipped(n, r, rest)
  PROVE  /\ n = Len(frames) /\ n \in 1 .. n /\ n \in Nat /\ Len(frames') = n
         /\ \A i \in 1 .. n : /\ frames'[i].name = frames[i].name /\ frames'[i].depth = frames[i].depth
                              /\ frames'[i].first = frames[i].first
         /\ \A i \in 1 .. n - 1 : frames'[i] = frames[i]
         /\ frames'[n].left /\ frames'[n].todo = rest
         /\ OnStack' = OnStack /\ Completed' = Completed /\ OnMainline' = OnMainline /\ Main' = Main
<1>0. /\ \A x : x \in OnStack <=> \E i \in 1 .. Len(frames) : frames[i].name = x
      /\ \A x : x \in Completed <=> \E i \in 1 .. Len(scheduled) : scheduled[i].name = x
      /\ \A x : x \in OnMainline <=>
           \E i \in 1 .. Len(scheduled) : scheduled[i].depth = 0 /\ scheduled[i].name = x
      /\ \A x : x \in Main <=>
           x \in OnMainline \/ \E i \in 1 .. Len(frames) : frames[i].depth = 0 /\ frames[i].name = x
      /\ \A i \in 1 .. Len(frames) : frames[i].depth \in Nat /\ frames[i].name \in Revs
      /\ OnStack \subseteq Revs /\ Completed \subseteq Revs /\ OnMainline \subseteq Completed
  BY Held
<1>1. /\ n = Len(frames) /\ n \in Nat \ {0} /\ Len(frames') = n
      /\ \A i \in 1 .. n - 1 : frames'[i] = frames[i]
      /\ frames'[n] = [name |-> frames[n].name, depth |-> frames[n].depth, left |-> TRUE,
                       todo |-> rest, first |-> frames[n].first]
      /\ UNCHANGED <<scheduled, lineage>>
  BY DEF Skipped, Looked, Below
<1>2. /\ frames'[n].left /\ frames'[n].todo = rest /\ frames'[n].name = frames[n].name
      /\ frames'[n].depth = frames[n].depth /\ frames'[n].first = frames[n].first
  BY <1>1
<1>4. \A i \in 1 .. n : /\ frames'[i].name = frames[i].name /\ frames'[i].depth = frames[i].depth
                        /\ frames'[i].first = frames[i].first
  <2>1. \A i \in 1 .. n : i \in 1 .. n - 1 \/ i = n
    BY <1>1
  <2> QED BY <1>1, <1>2, <2>1
<1>7. Completed' = Completed /\ OnMainline' = OnMainline
  BY <1>1 DEF Completed, OnMainline
<1>8. OnStack' = OnStack
  <2>1. \A x : x \in OnStack' <=> \E i \in 1 .. n : frames'[i].name = x
    BY <1>1 DEF OnStack
  <2>2. \A x : x \in OnStack <=> \E i \in 1 .. n : frames[i].name = x
    BY <1>0, <1>1
  <2>3. \A x : x \in OnStack' <=> x \in OnStack
    BY <1>4, <2>1, <2>2
  <2> QED BY <2>3
<1>9. Main' = Main
  <2>1. \A x : x \in Main' <=>
          x \in OnMainline \/ \E i \in 1 .. n : frames'[i].depth = 0 /\ frames'[i].name = x
    BY <1>1, <1>7 DEF Main
  <2>2. \A x : x \in Main <=>
          x \in OnMainline \/ \E i \in 1 .. n : frames[i].depth = 0 /\ frames[i].name = x
    BY <1>0, <1>1
  <2>3. \A x : x \in Main' <=> x \in Main
    BY <1>4, <2>1, <2>2
  <2> QED BY <2>3
<1>10. n \in 1 .. n
  BY <1>1
<1> QED BY <1>1, <1>2, <1>4, <1>7, <1>8, <1>9, <1>10

LEMMA AfterPop ==
  ASSUME MTyped, MTyped', Placed, NEW n, Popped(n)
  PROVE  /\ n = Len(frames) /\ n \in 1 .. n /\ n \in Nat /\ Len(frames') = n - 1
         /\ frames[n].name \in OnStack /\ frames[n].name \in Revs /\ frames[n].name \notin Completed
         /\ \A i \in 1 .. n - 1 : frames'[i] = frames[i] /\ i \in 1 .. n /\ frames[i].name # frames[n].name
         /\ \A i \in 1 .. n : i \in 1 .. n - 1 \/ i = n
         /\ OnStack' = OnStack \ {frames[n].name} /\ Completed' = Completed \cup {frames[n].name}
         /\ OnMainline' = OnMainline \cup (IF frames[n].depth = 0 THEN {frames[n].name} ELSE {})
         /\ Main' = Main
<1> DEFINE m == Len(scheduled)
           nm == frames[n].name
<1>0. /\ \A x : x \in OnStack <=> \E i \in 1 .. Len(frames) : frames[i].name = x
      /\ \A x : x \in Completed <=> \E i \in 1 .. Len(scheduled) : scheduled[i].name = x
      /\ \A x : x \in OnMainline <=>
           \E i \in 1 .. Len(scheduled) : scheduled[i].depth = 0 /\ scheduled[i].name = x
      /\ \A x : x \in Main <=>
           x \in OnMainline \/ \E i \in 1 .. Len(frames) : frames[i].depth = 0 /\ frames[i].name = x
      /\ \A i \in 1 .. Len(frames) : frames[i].depth \in Nat /\ frames[i].name \in Revs
      /\ OnStack \subseteq Revs /\ Completed \subseteq Revs /\ OnMainline \subseteq Completed
  BY Held
<1>1. /\ n = Len(frames) /\ n \in Nat \ {0} /\ Len(frames') = n - 1 /\ \A i \in 1 .. n - 1 : frames'[i] = frames[i]
      /\ m \in Nat /\ Len(scheduled') = m + 1
      /\ \A i \in 1 .. m : scheduled'[i] = scheduled[i]
      /\ scheduled'[m + 1] = [name |-> nm, depth |-> frames[n].depth]
      /\ lineage' = lineage
  BY DEF Popped
<1>2. /\ scheduled'[m + 1].name = nm /\ scheduled'[m + 1].depth = frames[n].depth
      /\ \A i \in 1 .. m + 1 : i \in 1 .. m \/ i = m + 1
      /\ \A i \in 1 .. m : i \in 1 .. m + 1
      /\ m + 1 \in 1 .. m + 1 /\ n \in 1 .. n
      /\ \A i \in 1 .. n : i \in 1 .. n - 1 \/ i = n
      /\ \A i \in 1 .. n - 1 : i \in 1 .. n /\ i # n
  BY <1>1
<1>3. nm \in OnStack /\ nm \in Revs /\ nm \notin Completed
  BY <1>0, <1>1, <1>2 DEF Placed
<1>4. \A i \in 1 .. n - 1 : frames[i].name # nm
  BY <1>1, <1>2 DEF Placed
<1>5. /\ \A x : x \in OnStack' <=> \E i \in 1 .. n - 1 : frames'[i].name = x
      /\ \A x : x \in Completed' <=> \E i \in 1 .. m + 1 : scheduled'[i].name = x
      /\ \A x : x \in OnMainline' <=>
           \E i \in 1 .. m + 1 : scheduled'[i].depth = 0 /\ scheduled'[i].name = x
      /\ \A x : x \in Main' <=>
              x \in OnMainline' \/ \E i \in 1 .. n - 1 : frames'[i].depth = 0 /\ frames'[i].name = x
  <2>1. DOMAIN scheduled' = 1 .. m + 1
    BY <1>1 DEF MTyped
  <2>2. \A x : x \in Completed' <=> \E i \in 1 .. m + 1 : scheduled'[i].name = x
    BY <2>1 DEF Completed
  <2>3. \A x : x \in OnMainline' <=>
           \E i \in 1 .. m + 1 : scheduled'[i].depth = 0 /\ scheduled'[i].name = x
    BY <2>1 DEF OnMainline
  <2>4. \A x : x \in OnStack' <=> \E i \in 1 .. n - 1 : frames'[i].name = x
    BY <1>1 DEF OnStack
  <2>5. \A x : x \in Main' <=>
              x \in OnMainline' \/ \E i \in 1 .. n - 1 : frames'[i].depth = 0 /\ frames'[i].name = x
    BY <1>1 DEF Main
  <2> QED BY <2>2, <2>3, <2>4, <2>5
<1> HIDE DEF m
<1>10. /\ \A x : x \in OnStack <=> \E i \in 1 .. n : frames[i].name = x
       /\ \A x : x \in Completed <=> \E i \in 1 .. m : scheduled[i].name = x
       /\ \A x : x \in OnMainline <=> \E i \in 1 .. m : scheduled[i].depth = 0 /\ scheduled[i].name = x
       /\ \A x : x \in Main <=>
            x \in OnMainline \/ \E i \in 1 .. n : frames[i].depth = 0 /\ frames[i].name = x
  BY <1>0, <1>1 DEF m
<1>6. Completed' = Completed \cup {nm}
  <2>1. ASSUME NEW x \in Completed' PROVE x \in Completed \cup {nm}
    <3>1. PICK i \in 1 .. m + 1 : scheduled'[i].name = x
      BY <1>5, <2>1
    <3>2. CASE i \in 1 .. m
      BY <1>1, <1>10, <3>1, <3>2
    <3>3. CASE i = m + 1
      BY <1>2, <3>1, <3>3
    <3> QED BY <1>2, <3>2, <3>3
  <2>2. ASSUME NEW x \in Completed PROVE x \in Completed'
    <3>1. PICK i \in 1 .. m : scheduled[i].name = x
      BY <1>10, <2>2
    <3>2. i \in 1 .. m + 1 /\ scheduled'[i] = scheduled[i]
      BY <1>1, <1>2, <3>1
    <3> QED BY <1>5, <3>1, <3>2
  <2>3. nm \in Completed'
    BY <1>2, <1>5
  <2> QED BY <2>1, <2>2, <2>3
<1>7. \A x : x \in OnMainline' <=> x \in OnMainline \/ (frames[n].depth = 0 /\ x = nm)
  <2>1. ASSUME NEW x \in OnMainline' PROVE x \in OnMainline \/ (frames[n].depth = 0 /\ x = nm)
    <3>1. PICK i \in 1 .. m + 1 : scheduled'[i].depth = 0 /\ scheduled'[i].name = x
      BY <1>5, <2>1
    <3>2. CASE i \in 1 .. m
      BY <1>1, <1>10, <3>1, <3>2
    <3>3. CASE i = m + 1
      BY <1>2, <3>1, <3>3
    <3> QED BY <1>2, <3>2, <3>3
  <2>2. ASSUME NEW x \in OnMainline PROVE x \in OnMainline'
    <3>1. PICK i \in 1 .. m : scheduled[i].depth = 0 /\ scheduled[i].name = x
      BY <1>10, <2>2
    <3>2. i \in 1 .. m + 1 /\ scheduled'[i] = scheduled[i]
      BY <1>1, <1>2, <3>1
    <3> QED BY <1>5, <3>1, <3>2
  <2>3. frames[n].depth = 0 => nm \in OnMainline'
    BY <1>2, <1>5
  <2> QED BY <2>1, <2>2, <2>3
<1>8. OnStack' = OnStack \ {nm}
  <2>1. ASSUME NEW x \in OnStack' PROVE x \in OnStack \ {nm}
    <3>1. PICK i \in 1 .. n - 1 : frames'[i].name = x
      BY <1>5, <2>1
    <3>2. i \in 1 .. n /\ frames[i].name = x
      BY <1>1, <1>2, <3>1
    <3> QED BY <1>4, <1>10, <3>2
  <2>2. ASSUME NEW x \in OnStack \ {nm} PROVE x \in OnStack'
    <3>1. PICK i \in 1 .. n : frames[i].name = x
      BY <1>10, <2>2
    <3>2. i \in 1 .. n - 1
      BY <1>2, <2>2, <3>1
    <3> QED BY <1>1, <1>5, <3>1, <3>2
  <2> QED BY <2>1, <2>2
<1>9. Main' = Main
  <2>1. ASSUME NEW x \in Main' PROVE x \in Main
    <3>1. CASE x \in OnMainline
      BY <1>10, <3>1
    <3>2. CASE frames[n].depth = 0 /\ x = nm
      BY <1>2, <1>10, <3>2
    <3>3. ASSUME NEW i \in 1 .. n - 1, frames'[i].depth = 0, frames'[i].name = x PROVE x \in Main
      BY <1>1, <1>2, <1>10, <3>3
    <3> QED BY <1>5, <1>7, <2>1, <3>1, <3>2, <3>3
  <2>2. ASSUME NEW x \in Main PROVE x \in Main'
    <3>1. CASE x \in OnMainline
      BY <1>5, <1>7, <3>1
    <3>2. ASSUME NEW i \in 1 .. n, frames[i].depth = 0, frames[i].name = x PROVE x \in Main'
      <4>1. CASE i = n
        BY <1>5, <1>7, <3>2, <4>1
      <4>2. CASE i \in 1 .. n - 1
        BY <1>1, <1>5, <3>2, <4>2
      <4> QED BY <1>2, <4>1, <4>2
    <3> QED BY <1>10, <2>2, <3>1, <3>2
  <2> QED BY <2>1, <2>2
<1>11. OnMainline' = OnMainline \cup (IF frames[n].depth = 0 THEN {nm} ELSE {})
  BY <1>7
<1> QED BY <1>1, <1>2, <1>3, <1>4, <1>6, <1>8, <1>9, <1>11

\* The steps there are.
LEMMA MergeCases ==
  ASSUME MTyped, MergeNext
  PROVE  \/ \E n, r, rest : Pushed(n, r, rest) \/ Skipped(n, r, rest) \/ FoundCycle(n, r, rest)
         \/ Pop /\ Popped(Len(frames))
         \/ Deliver
         \/ HasEnded
  BY Visits, Pops DEF MergeNext

\* A step that changes only the outcome keeps what is about the rest.
LEMMA MergeStill ==
  ASSUME UNCHANGED <<lineage, unvisited, frames, continued, revno, spawned, scheduled>>,
         Placed, Path, Ordered, Mainline, Continued, Numbered, Single
  PROVE  Placed' /\ Path' /\ Ordered' /\ Mainline' /\ Continued' /\ Numbered' /\ Single'
<1>1. Completed' = Completed /\ OnMainline' = OnMainline /\ OnStack' = OnStack /\ Main' = Main
  BY DEF Completed, OnMainline, OnStack, Main
<1>2. Placed'
  BY <1>1, SameLineage DEF Placed
<1>3. Path'
  BY <1>1 DEF Path, ParentsOf, Revs
<1>4. Ordered'
  BY SameLineage DEF Ordered
<1>5. Mainline'
  BY <1>1, SameLineage DEF Mainline
<1>6. Continued'
  BY <1>1, SameLineage DEF Continued
<1>7. Numbered'
  BY <1>1, SameLineage DEF Numbered
<1>8. Single'
  BY <1>1, SameLineage DEF Single, NoGhostEnds
<1> QED BY <1>2, <1>3, <1>4, <1>5, <1>6, <1>7, <1>8

\* What the tip leads to: the least set that has it and is closed under parents.
LEMMA ReachedClosed ==
  ASSUME MTyped
  PROVE  /\ Tip \in Reached /\ Tip \in Revs /\ Reached \subseteq Revs /\ IsFiniteSet(Revs)
         /\ \A c \in Reached : ParentsOf(c) \subseteq Reached
         /\ \A S \in SUBSET Revs : Tip \in S /\ (\A c \in S : ParentsOf(c) \subseteq S) => Reached \subseteq S
<1>1. Tip \in Revs /\ IsFiniteSet(Revs)
  BY MergeSortAssumption DEF MTyped, Revs
<1>2. \A c \in Reached : ParentsOf(c) \subseteq Reached
  BY DEF Reached, ParentsOf
<1> QED BY <1>1, <1>2 DEF Reached

\* The parent that is looked at is one of the revision on top.
LEMMA LookedAt ==
  ASSUME MTyped, Placed, Path, NEW n, NEW r, NEW rest, Looked(n, r, rest)
  PROVE  /\ n = Len(frames) /\ n \in Nat /\ n \in 1 .. n
         /\ frames[n].name \in Revs \ unvisited /\ frames[n].name \in OnStack
         /\ r \in ToSet(lineage[frames[n].name])
         /\ r \in Revs => r \in ParentsOf(frames[n].name) /\ r \in Reached
<1>1. /\ n = Len(frames) /\ n \in Nat \ {0} /\ r \in ToSet(frames[n].todo)
  BY DEF Looked
<1>2. n \in 1 .. n /\ n \in Nat
  BY <1>1
<1>3. frames[n].name \in OnStack /\ OnStack \subseteq Revs
  BY <1>1, <1>2, Held
<1>4. frames[n].name \in Revs \ unvisited
  BY <1>3 DEF Placed
<1>5. r \in ToSet(lineage[frames[n].name])
  BY <1>1, <1>2 DEF Path
<1>6. r \in Revs => r \in ParentsOf(frames[n].name)
  BY <1>5 DEF ParentsOf
<1>7. frames[n].name \in Reached
  BY <1>4 DEF Placed
<1> QED BY <1>1, <1>2, <1>3, <1>4, <1>5, <1>6, <1>7, ReachedClosed

\* Each of the three steps keeps every revision in one place.
LEMMA PlacedPush ==
  ASSUME MTyped, MTyped', Placed, Path, NEW n, NEW r, NEW rest, Pushed(n, r, rest)
  PROVE  Placed'
<1>1. /\ n = Len(frames) /\ n \in 1 .. n /\ n \in Nat /\ r \in unvisited /\ r \in Revs /\ Len(frames') = n + 1
      /\ \A i \in 1 .. n : frames'[i].name = frames[i].name
      /\ frames'[n + 1].name = r /\ \A i \in 1 .. n + 1 : i \in 1 .. n \/ i = n + 1
      /\ OnStack' = OnStack \cup {r} /\ Completed' = Completed
  BY AfterPush
<1>2. unvisited' = unvisited \ {r} /\ scheduled' = scheduled /\ lineage' = lineage
  BY DEF Pushed, Looked
<1>3. Looked(n, r, rest)
  BY DEF Pushed
<1>4. \A i \in 1 .. n : frames[i].name \in OnStack
  BY <1>1, Held
<1>5. r \notin OnStack
  BY <1>1 DEF Placed
<1>6. \A i, j \in 1 .. Len(frames') : frames'[i].name = frames'[j].name => i = j
  <2>1. \A i, j \in 1 .. n : frames'[i].name = frames'[j].name => i = j
    BY <1>1 DEF Placed
  <2>2. \A i \in 1 .. n : frames'[i].name # frames'[n + 1].name
    BY <1>1, <1>4, <1>5
  <2> SUFFICES ASSUME NEW i \in 1 .. n + 1, NEW j \in 1 .. n + 1, frames'[i].name = frames'[j].name
               PROVE  i = j
    BY <1>1
  <2>3. (i \in 1 .. n \/ i = n + 1) /\ (j \in 1 .. n \/ j = n + 1)
    BY <1>1
  <2> QED BY <2>1, <2>2, <2>3
<1>7. \A x \in Revs \ unvisited' : x \in Reached
  BY <1>1, <1>2, <1>3, LookedAt DEF Placed
<1>8. frames' # <<>> /\ frames'[1].name = Tip
  BY <1>1 DEF Placed
<1>9. OnStack' \cap Completed' = {} /\ unvisited' \cap (OnStack' \cup Completed') = {}
  BY <1>1, <1>2 DEF Placed
<1>10. Revs = unvisited' \cup OnStack' \cup Completed'
  BY <1>1, <1>2 DEF Placed
<1> QED BY <1>1, <1>2, <1>6, <1>7, <1>8, <1>9, <1>10, SameLineage DEF Placed

LEMMA PlacedSkip ==
  ASSUME MTyped, MTyped', Placed, NEW n, NEW r, NEW rest, Skipped(n, r, rest)
  PROVE  Placed'
<1>1. /\ n = Len(frames) /\ n \in 1 .. n /\ n \in Nat /\ Len(frames') = n
      /\ \A i \in 1 .. n : frames'[i].name = frames[i].name
      /\ OnStack' = OnStack /\ Completed' = Completed
  BY AfterSkip
<1>2. unvisited' = unvisited /\ scheduled' = scheduled /\ lineage' = lineage
  BY DEF Skipped, Looked
<1>3. frames' # <<>> /\ frames # <<>> /\ frames'[1].name = Tip
  BY <1>1 DEF Placed
<1>4. \A i, j \in 1 .. Len(frames') : frames'[i].name = frames'[j].name => i = j
  BY <1>1 DEF Placed
<1> QED BY <1>1, <1>2, <1>3, <1>4, SameLineage DEF Placed

LEMMA PlacedPop ==
  ASSUME MTyped, MTyped', Placed, NEW n, Popped(n)
  PROVE  Placed'
<1>1. /\ n = Len(frames) /\ n \in 1 .. n /\ n \in Nat /\ Len(frames') = n - 1
      /\ frames[n].name \in OnStack /\ frames[n].name \in Revs /\ frames[n].name \notin Completed
      /\ \A i \in 1 .. n - 1 : frames'[i] = frames[i] /\ i \in 1 .. n
      /\ OnStack' = OnStack \ {frames[n].name} /\ Completed' = Completed \cup {frames[n].name}
  BY AfterPop
<1>2. /\ unvisited' = unvisited /\ lineage' = lineage
      /\ Len(scheduled) \in Nat /\ Len(scheduled') = Len(scheduled) + 1
      /\ \A i \in 1 .. Len(scheduled) : scheduled'[i] = scheduled[i]
      /\ scheduled'[Len(scheduled) + 1].name = frames[n].name
  BY DEF Popped
<1> DEFINE m == Len(scheduled)
<1>3. \A i, j \in 1 .. Len(frames') : frames'[i].name = frames'[j].name => i = j
  BY <1>1 DEF Placed
<1>4. \A i, j \in 1 .. Len(scheduled') : scheduled'[i].name = scheduled'[j].name => i = j
  <2>1. \A i \in 1 .. m : scheduled[i].name \in Completed
    BY Held
  <2>2. \A i \in 1 .. m : scheduled'[i].name # scheduled'[m + 1].name
    BY <1>1, <1>2, <2>1
  <2>3. \A i, j \in 1 .. m : scheduled'[i].name = scheduled'[j].name => i = j
    BY <1>2 DEF Placed
  <2>4. \A i \in 1 .. m + 1 : i \in 1 .. m \/ i = m + 1
    BY <1>2
  <2> HIDE DEF m
  <2> QED BY <1>2, <2>2, <2>3, <2>4 DEF m
<1>5. Len(scheduled') = Cardinality(Completed')
  <2>1. IsFiniteSet(Completed)
    BY Held, ReachedClosed, FS_Subset
  <2>2. Cardinality(Completed') = Cardinality(Completed) + 1
    BY <1>1, <2>1, FS_AddElement
  <2> QED BY <1>2, <2>2 DEF Placed
<1>6. frames' # <<>> => frames'[1].name = Tip
  <2>1. frames' # <<>> => 1 \in 1 .. n - 1
    <3>1. PICK S : frames' \in Seq(S)
      BY DEF MTyped
    <3>2. frames' # <<>> => Len(frames') # 0 /\ Len(frames') \in Nat
      BY <3>1
    <3> QED BY <1>1, <3>2
  <2> QED BY <1>1, <2>1 DEF Placed
<1>7. frames' = <<>> => Tip \in Completed'
  <2>1. frames' = <<>> => n = 1
    <3> DEFINE l == Len(frames')
    <3>1. frames' = <<>> => l = 0
      OBVIOUS
    <3>2. l = n - 1 /\ n \in Nat
      BY <1>1
    <3> HIDE DEF l
    <3> QED BY <3>1, <3>2
  <2> QED BY <1>1, <2>1 DEF Placed
<1>8. OnStack' \cap Completed' = {} /\ unvisited' \cap (OnStack' \cup Completed') = {}
  BY <1>1, <1>2 DEF Placed
<1>9. Revs = unvisited' \cup OnStack' \cup Completed'
  BY <1>1, <1>2 DEF Placed
<1>10. \A x \in Revs \ unvisited' : x \in Reached
  BY <1>2 DEF Placed
<1> HIDE DEF m
<1> QED BY <1>2, <1>3, <1>4, <1>5, <1>6, <1>7, <1>8, <1>9, <1>10, SameLineage DEF Placed

\* Each of them keeps the stack a path.
LEMMA PathPush ==
  ASSUME MTyped, MTyped', Placed, Path, NEW n, NEW r, NEW rest, Pushed(n, r, rest)
  PROVE  Path'
<1>1. /\ n = Len(frames) /\ n \in 1 .. n /\ n \in Nat /\ r \in Revs /\ Len(frames') = n + 1
      /\ \A i \in 1 .. n : frames'[i].name = frames[i].name
      /\ \A i \in 1 .. n - 1 : frames'[i] = frames[i]
      /\ frames'[n].left /\ frames'[n].todo = rest
      /\ frames'[n + 1].name = r /\ ~frames'[n + 1].left /\ frames'[n + 1].todo = lineage[r]
      /\ \A i \in 1 .. n + 1 : i \in 1 .. n \/ i = n + 1
      /\ Completed' = Completed
  BY AfterPush
<1>2. Looked(n, r, rest) /\ lineage' = lineage
  BY DEF Pushed, Looked
<1>3. r \in ParentsOf(frames[n].name)
  BY <1>1, <1>2, LookedAt
<1>4. ToSet(rest) \subseteq ToSet(frames[n].todo) /\ ToSet(frames[n].todo) \subseteq ToSet(rest) \cup {r}
  BY <1>2 DEF Looked
<1>5. (\A i \in 1 .. n : i \in 1 .. n - 1 \/ i = n) /\ (\A i \in 1 .. n - 1 : i \in 1 .. n /\ i + 1 \in 1 .. n)
  BY <1>1
<1>6. ASSUME NEW i \in 1 .. Len(frames') - 1
      PROVE  frames'[i].left /\ frames'[i + 1].name \in ParentsOf(frames'[i].name)
  <2>1. CASE i \in 1 .. n - 1
    BY <1>1, <1>5, <2>1 DEF Path
  <2>2. CASE i = n
    BY <1>1, <1>3, <2>2
  <2> QED BY <1>1, <1>5, <2>1, <2>2
<1>7. ASSUME NEW i \in 1 .. Len(frames')
      PROVE  /\ ToSet(frames'[i].todo) \subseteq ToSet(lineage[frames'[i].name])
             /\ IF frames'[i].left THEN lineage[frames'[i].name] # <<>> ELSE frames'[i].todo = lineage[frames'[i].name]
             /\ \A p \in ParentsOf(frames'[i].name) :
                  \/ p \in ToSet(frames'[i].todo) \/ p \in Completed
                  \/ i < Len(frames') /\ p = frames'[i + 1].name
  <2>1. CASE i \in 1 .. n - 1
    <3>1. frames'[i] = frames[i] /\ frames'[i + 1].name = frames[i + 1].name /\ i < n /\ i < n + 1 /\ i \in 1 .. n
      BY <1>1, <1>5, <2>1
    <3>2. /\ ToSet(frames[i].todo) \subseteq ToSet(lineage[frames[i].name])
          /\ IF frames[i].left THEN lineage[frames[i].name] # <<>> ELSE frames[i].todo = lineage[frames[i].name]
          /\ \A p \in ParentsOf(frames[i].name) :
               \/ p \in ToSet(frames[i].todo) \/ p \in Completed
               \/ i < n /\ p = frames[i + 1].name
      <4>1. i \in 1 .. Len(frames) /\ n = Len(frames)
        BY <1>1, <3>1
      <4> QED BY <4>1 DEF Path
    <3> QED BY <1>1, <3>1, <3>2
  <2>2. CASE i = n
    <3>1. /\ ToSet(frames[n].todo) \subseteq ToSet(lineage[frames[n].name])
          /\ \A p \in ParentsOf(frames[n].name) : p \in ToSet(frames[n].todo) \/ p \in Completed
      <4>1. n \in 1 .. Len(frames) /\ ~(n < Len(frames))
        BY <1>1
      <4> QED BY <4>1 DEF Path
    <3>2. n < n + 1 /\ frames'[i].name = frames[n].name /\ frames'[i].left /\ frames'[i].todo = rest
      BY <1>1, <2>2
    <3>3. r \in ToSet(lineage[frames[n].name]) /\ lineage[frames[n].name] # <<>>
      <4>1. r \in ToSet(lineage[frames[n].name])
        BY <1>2, LookedAt
      <4> QED BY <4>1 DEF ToSet
    <3> QED BY <1>1, <1>4, <2>2, <3>1, <3>2, <3>3
  <2>3. CASE i = n + 1
    <3>1. frames'[i].name = r /\ ~frames'[i].left /\ frames'[i].todo = lineage[r]
      BY <1>1, <2>3
    <3>2. \A p \in ParentsOf(r) : p \in ToSet(lineage[r])
      BY DEF ParentsOf
    <3> QED BY <3>1, <3>2
  <2> QED BY <1>1, <1>5, <2>1, <2>2, <2>3
<1>8. lineage' = lineage /\ Completed' = Completed
  BY <1>1, <1>2
<1> QED BY <1>6, <1>7, <1>8 DEF Path, ParentsOf, Revs

LEMMA PathSkip ==
  ASSUME MTyped, MTyped', Placed, Path, NEW n, NEW r, NEW rest, Skipped(n, r, rest)
  PROVE  Path'
<1>1. /\ n = Len(frames) /\ n \in 1 .. n /\ n \in Nat /\ Len(frames') = n
      /\ \A i \in 1 .. n : frames'[i].name = frames[i].name
      /\ \A i \in 1 .. n - 1 : frames'[i] = frames[i]
      /\ frames'[n].left /\ frames'[n].todo = rest
      /\ Completed' = Completed
  BY AfterSkip
<1>2. Looked(n, r, rest) /\ lineage' = lineage /\ (r \in Completed \/ r \notin Revs)
  BY DEF Skipped, Looked
<1>4. ToSet(rest) \subseteq ToSet(frames[n].todo) /\ ToSet(frames[n].todo) \subseteq ToSet(rest) \cup {r}
  BY <1>2 DEF Looked
<1>5. (\A i \in 1 .. n : i \in 1 .. n - 1 \/ i = n) /\ (\A i \in 1 .. n - 1 : i \in 1 .. n /\ i + 1 \in 1 .. n)
  BY <1>1
<1>6. ASSUME NEW i \in 1 .. Len(frames') - 1
      PROVE  frames'[i].left /\ frames'[i + 1].name \in ParentsOf(frames'[i].name)
  <2>1. i \in 1 .. n - 1 /\ i \in 1 .. n /\ i + 1 \in 1 .. n
    BY <1>1
  <2> QED BY <1>1, <2>1 DEF Path
<1>7. ASSUME NEW i \in 1 .. Len(frames')
      PROVE  /\ ToSet(frames'[i].todo) \subseteq ToSet(lineage[frames'[i].name])
             /\ IF frames'[i].left THEN lineage[frames'[i].name] # <<>> ELSE frames'[i].todo = lineage[frames'[i].name]
             /\ \A p \in ParentsOf(frames'[i].name) :
                  \/ p \in ToSet(frames'[i].todo) \/ p \in Completed
                  \/ i < Len(frames') /\ p = frames'[i + 1].name
  <2>1. CASE i \in 1 .. n - 1
    <3>1. frames'[i] = frames[i] /\ frames'[i + 1].name = frames[i + 1].name /\ i < n
      BY <1>1, <1>5, <2>1
    <3>2. /\ ToSet(frames[i].todo) \subseteq ToSet(lineage[frames[i].name])
          /\ IF frames[i].left THEN lineage[frames[i].name] # <<>> ELSE frames[i].todo = lineage[frames[i].name]
          /\ \A p \in ParentsOf(frames[i].name) :
               \/ p \in ToSet(frames[i].todo) \/ p \in Completed
               \/ i < n /\ p = frames[i + 1].name
      <4>1. i \in 1 .. Len(frames) /\ n = Len(frames)
        BY <1>1, <3>1
      <4> QED BY <4>1 DEF Path
    <3> QED BY <1>1, <3>1, <3>2
  <2>2. CASE i = n
    <3>1. /\ ToSet(frames[n].todo) \subseteq ToSet(lineage[frames[n].name])
          /\ \A p \in ParentsOf(frames[n].name) : p \in ToSet(frames[n].todo) \/ p \in Completed
      <4>1. n \in 1 .. Len(frames) /\ ~(n < Len(frames))
        BY <1>1
      <4> QED BY <4>1 DEF Path
    <3>2. frames'[i].name = frames[n].name /\ frames'[i].left /\ frames'[i].todo = rest
      BY <1>1, <2>2
    <3>3. ParentsOf(frames[n].name) \subseteq Revs
      BY DEF ParentsOf
    <3>4. r \in ToSet(lineage[frames[n].name]) /\ lineage[frames[n].name] # <<>>
      <4>1. r \in ToSet(lineage[frames[n].name])
        BY <1>2, LookedAt
      <4> QED BY <4>1 DEF ToSet
    <3> QED BY <1>1, <1>2, <1>4, <2>2, <3>1, <3>2, <3>3, <3>4
  <2> QED BY <1>1, <1>5, <2>1, <2>2
<1>8. lineage' = lineage /\ Completed' = Completed
  BY <1>1, <1>2
<1> QED BY <1>6, <1>7, <1>8 DEF Path, ParentsOf, Revs

LEMMA PathPop ==
  ASSUME MTyped, MTyped', Placed, Path, NEW n, Popped(n)
  PROVE  Path'
<1>1. /\ n = Len(frames) /\ n \in 1 .. n /\ n \in Nat /\ Len(frames') = n - 1
      /\ \A i \in 1 .. n - 1 : frames'[i] = frames[i] /\ i \in 1 .. n
      /\ Completed' = Completed \cup {frames[n].name}
  BY AfterPop
<1>2. lineage' = lineage
  BY DEF Popped
<1>6. ASSUME NEW i \in 1 .. Len(frames') - 1
      PROVE  frames'[i].left /\ frames'[i + 1].name \in ParentsOf(frames'[i].name)
  <2>1. i \in 1 .. n - 1 /\ i + 1 \in 1 .. n - 1
    BY <1>1
  <2> QED BY <1>1, <2>1 DEF Path
<1>7. ASSUME NEW i \in 1 .. Len(frames')
      PROVE  /\ ToSet(frames'[i].todo) \subseteq ToSet(lineage[frames'[i].name])
             /\ IF frames'[i].left THEN lineage[frames'[i].name] # <<>> ELSE frames'[i].todo = lineage[frames'[i].name]
             /\ \A p \in ParentsOf(frames'[i].name) :
                  \/ p \in ToSet(frames'[i].todo) \/ p \in Completed'
                  \/ i < Len(frames') /\ p = frames'[i + 1].name
  <2>1. /\ ToSet(frames[i].todo) \subseteq ToSet(lineage[frames[i].name])
        /\ IF frames[i].left THEN lineage[frames[i].name] # <<>> ELSE frames[i].todo = lineage[frames[i].name]
        /\ \A p \in ParentsOf(frames[i].name) :
             p \in ToSet(frames[i].todo) \/ p \in Completed \/ p = frames[i + 1].name
    BY <1>1 DEF Path
  <2>2. i + 1 = n \/ (i < n - 1 /\ i + 1 \in 1 .. n - 1)
    BY <1>1
  <2> QED BY <1>1, <2>1, <2>2
<1> QED BY <1>1, <1>2, <1>6, <1>7 DEF Path, ParentsOf, Revs

\* The parents of a revision that leaves the stack have left it.
LEMMA ParentsLeft ==
  ASSUME MTyped, Path, NEW n, Popped(n)
  PROVE  ParentsOf(frames[n].name) \subseteq Completed
<1>1. n = Len(frames) /\ n \in 1 .. n /\ frames[n].todo = <<>> /\ ~(n < n)
  BY DEF Popped
<1>2. ToSet(frames[n].todo) = {}
  BY <1>1 DEF ToSet
<1> QED BY <1>1, <1>2 DEF Path

\* So a revision that is listed has its parents listed before it.
LEMMA OrderedPop ==
  ASSUME MTyped, MTyped', Path, Ordered, NEW n, Popped(n)
  PROVE  Ordered'
<1> DEFINE m == Len(scheduled)
<1>1. /\ lineage' = lineage /\ m \in Nat /\ Len(scheduled') = m + 1
      /\ \A i \in 1 .. m : scheduled'[i] = scheduled[i]
      /\ scheduled'[m + 1].name = frames[n].name
  BY DEF Popped
<1>2. \A p \in ParentsOf(frames[n].name) : \E j \in 1 .. m : scheduled[j].name = p
  BY ParentsLeft, Held
<1>3. ASSUME NEW i \in 1 .. m + 1, NEW p \in ParentsOf(scheduled'[i].name)
      PROVE  \E j \in 1 .. i - 1 : scheduled'[j].name = p
  <2>1. CASE i = m + 1
    <3>1. PICK j \in 1 .. m : scheduled[j].name = p
      BY <1>1, <1>2, <2>1
    <3>2. j \in 1 .. i - 1 /\ scheduled'[j].name = p
      BY <1>1, <2>1, <3>1
    <3> QED BY <3>2
  <2>2. CASE i # m + 1
    <3>1. i \in 1 .. m /\ scheduled'[i] = scheduled[i]
      BY <1>1, <2>2
    <3>2. PICK j \in 1 .. i - 1 : scheduled[j].name = p
      BY <3>1 DEF Ordered
    <3>3. j \in 1 .. m
      BY <1>1, <3>1
    <3> QED BY <1>1, <3>2, <3>3
  <2> QED BY <2>1, <2>2
<1>4. \A x : ParentsOf(x)' = ParentsOf(x)
  BY <1>1, SameLineage
<1> HIDE DEF m
<1> QED BY <1>1, <1>3, <1>4 DEF Ordered

\* A parent that is still on the stack closes a cycle: the frames from its own up.
LEMMA CycleFound ==
  ASSUME MTyped, Placed, Path, NEW n, NEW r, NEW rest, FoundCycle(n, r, rest)
  PROVE  LeadsToCycle
<1>1. r \in OnStack /\ Looked(n, r, rest) /\ r \in Revs
  BY DEF FoundCycle, Placed
<1>2. /\ n = Len(frames) /\ n \in Nat /\ n \in 1 .. n /\ r \in ParentsOf(frames[n].name)
  BY <1>1, LookedAt
<1>3. PICK k \in 1 .. n : frames[k].name = r
  BY <1>1, <1>2, Held
<1> DEFINE S == {frames[i].name : i \in k .. n}
<1>4. \A i \in k .. n : i \in 1 .. n /\ (i = n \/ (i \in 1 .. n - 1 /\ i + 1 \in k .. n))
  BY <1>2
<1>5. \A i \in 1 .. n : frames[i].name \in Reached
  <2>1. \A i \in 1 .. n : frames[i].name \in OnStack
    BY <1>2, Held
  <2> QED BY <2>1, Held DEF Placed
<1>6. S \in SUBSET Reached /\ r \in S
  BY <1>2, <1>3, <1>4, <1>5
<1>7. ASSUME NEW i \in k .. n PROVE ParentsOf(frames[i].name) \cap S # {}
  <2>1. CASE i = n
    BY <1>2, <1>6, <2>1
  <2>2. CASE i \in 1 .. n - 1 /\ i + 1 \in k .. n
    <3>1. frames[i + 1].name \in S
      BY <2>2
    <3>2. frames[i + 1].name \in ParentsOf(frames[i].name)
      BY <1>2, <2>2 DEF Path
    <3> QED BY <3>1, <3>2
  <2> QED BY <1>4, <2>1, <2>2
<1>8. \A x \in S : ParentsOf(x) \cap S # {}
  BY <1>7
<1> HIDE DEF S
<1> QED BY <1>6, <1>8 DEF LeadsToCycle

\* The first parent that is looked at is the left-hand one.
LEMMA FirstLooked ==
  ASSUME MTyped, Placed, Path, NEW n, NEW r, NEW rest, Looked(n, r, rest), ~frames[n].left
  PROVE  /\ lineage[frames[n].name] # <<>>
         /\ HasFirst(frames[n].name) => FirstParent(frames[n].name) = r /\ r \in Revs
         /\ r \in Revs => HasFirst(frames[n].name)
<1>1. n = Len(frames) /\ n \in 1 .. n /\ frames[n].todo # <<>> /\ r = Head(frames[n].todo)
  BY DEF Looked
<1>2. frames[n].todo = lineage[frames[n].name]
  BY <1>1 DEF Path
<1> QED BY <1>1, <1>2 DEF HasFirst, FirstParent

\* The mainline grows by the left-hand parent of the last frame at depth 0, and nothing else.
LEMMA MainlinePush ==
  ASSUME MTyped, MTyped', Placed, Path, Mainline, Continued, NEW n, NEW r, NEW rest, Pushed(n, r, rest)
  PROVE  Mainline'
<1>1. /\ n = Len(frames) /\ n \in 1 .. n /\ n \in Nat /\ r \in unvisited /\ r \in Revs /\ Len(frames') = n + 1
      /\ \A i \in 1 .. n : /\ frames'[i].name = frames[i].name /\ frames'[i].depth = frames[i].depth
                           /\ frames'[i].first = frames[i].first
      /\ \A i \in 1 .. n - 1 : frames'[i] = frames[i]
      /\ frames'[n].left
      /\ frames'[n + 1].name = r /\ ~frames'[n + 1].left
      /\ \A i \in 1 .. n + 1 : i \in 1 .. n \/ i = n + 1
  BY AfterPush
<1>2. /\ frames'[n + 1].depth = frames[n].depth + (IF frames[n].left THEN 1 ELSE 0)
      /\ frames'[n + 1].first = (HasFirst(r) /\ FirstParent(r) \notin continued)
      /\ OnStack' = OnStack \cup {r} /\ Completed' = Completed /\ OnMainline' = OnMainline
      /\ Main' = Main \cup (IF frames[n].depth = 0 /\ ~frames[n].left THEN {r} ELSE {})
  BY AfterPush
<1>3. Looked(n, r, rest) /\ lineage' = lineage
  BY DEF Pushed, Looked
<1>4. /\ \A i \in 1 .. n : frames[i].depth \in Nat /\ frames[i].name \in OnStack
      /\ OnMainline \subseteq Completed
      /\ \A x : x \in Main <=>
              x \in OnMainline \/ \E i \in 1 .. Len(frames) : frames[i].depth = 0 /\ frames[i].name = x
      /\ \A x : x \in OnStack <=> \E i \in 1 .. Len(frames) : frames[i].name = x
  BY <1>1, Held
<1>5. ~frames[n].left => /\ HasFirst(frames[n].name) /\ FirstParent(frames[n].name) = r
  BY <1>1, <1>3, FirstLooked
<1>6. \A x \in Main' : x = Tip \/ \E c \in Main' : HasFirst(c) /\ FirstParent(c) = x
  <2>1. \A x \in Main : x = Tip \/ \E c \in Main' : HasFirst(c) /\ FirstParent(c) = x
    BY <1>2 DEF Mainline
  <2>2. frames[n].depth = 0 => frames[n].name \in Main
    BY <1>1, <1>4
  <2> QED BY <1>2, <1>5, <2>1, <2>2
<1>7. \A i, j \in 1 .. n + 1 : i <= j => frames'[i].depth <= frames'[j].depth
  <2>1. \A i, j \in 1 .. n : i <= j => frames'[i].depth <= frames'[j].depth
    BY <1>1 DEF Mainline
  <2>2. \A i \in 1 .. n : frames'[i].depth <= frames'[n + 1].depth
    <3>1. ASSUME NEW i \in 1 .. n PROVE frames'[i].depth <= frames'[n + 1].depth
      <4>1. frames[i].depth <= frames[n].depth
        BY <1>1 DEF Mainline
      <4>2. frames[n].depth <= frames'[n + 1].depth /\ frames'[n + 1].depth \in Nat
        BY <1>1, <1>2, <1>4
      <4> QED BY <1>1, <1>4, <4>1, <4>2
    <3> QED BY <3>1
  <2>3. frames'[n + 1].depth \in Nat
    BY <1>1, <1>2, <1>4
  <2>4. \A i \in 1 .. n : ~(n + 1 <= i)
    BY <1>1
  <2> QED BY <1>1, <2>1, <2>2, <2>3, <2>4
<1>8. ASSUME NEW i \in 1 .. n + 1, frames'[i].depth = 0
      PROVE  LET nm == frames'[i].name IN
             /\ frames'[i].left /\ HasFirst(nm) => FirstParent(nm) \in Main'
             /\ ~frames'[i].left => Completed' = {}
             /\ HasFirst(nm) =>
                  frames'[i].first \/ (i = n + 1 /\ ~frames'[i].left /\ FirstParent(nm) \in OnStack')
  <2>1. CASE i \in 1 .. n - 1
    <3>1. i \in 1 .. n /\ frames'[i] = frames[i] /\ frames[i].left /\ i # n
      BY <1>1, <2>1 DEF Path
    <3>2. HasFirst(frames[i].name) => FirstParent(frames[i].name) \in Main /\ frames[i].first
      BY <1>1, <1>8, <3>1 DEF Mainline
    <3> QED BY <1>2, <3>1, <3>2
  <2>2. CASE i = n
    <3>1. /\ frames'[i].left /\ frames'[i].name = frames[n].name /\ frames'[i].first = frames[n].first
          /\ frames[n].depth = 0
      BY <1>1, <1>8, <2>2
    <3>2. HasFirst(frames[n].name) /\ frames[n].left => FirstParent(frames[n].name) \in Main
      BY <1>1, <3>1 DEF Mainline
    <3>3. HasFirst(frames[n].name) => FirstParent(frames[n].name) \in Main'
      BY <1>2, <1>5, <3>1, <3>2
    <3>4. r \notin OnStack
      BY <1>1 DEF Placed
    <3>5. HasFirst(frames[n].name) => frames[n].first
      BY <1>1, <1>5, <3>1, <3>4 DEF Mainline
    <3> QED BY <3>1, <3>3, <3>5
  <2>3. CASE i = n + 1
    <3>1. frames[n].depth = 0 /\ ~frames[n].left
      BY <1>1, <1>2, <1>4, <1>8, <2>3
    <3>2. Completed = {}
      BY <1>1, <3>1 DEF Mainline
    <3>3. \A x \in Main : x \in OnStack
      BY <1>4, <3>2
    <3>4. ASSUME HasFirst(r), FirstParent(r) \in continued PROVE FirstParent(r) \in OnStack'
      <4>1. PICK c \in Revs \ unvisited : HasFirst(c) /\ FirstParent(c) = FirstParent(r)
        BY <3>4 DEF Continued
      <4>2. c \in OnStack
        BY <3>2, <4>1 DEF Placed
      <4>3. PICK k \in 1 .. n : frames[k].name = c
        BY <1>1, <1>4, <4>2
      <4>4. frames[k].depth = 0
        <5>1. frames[k].depth <= 0
          BY <1>1, <3>1, <4>3 DEF Mainline
        <5> QED BY <1>4, <5>1
      <4>5. CASE k = n
        BY <1>2, <1>5, <3>1, <4>1, <4>3, <4>5
      <4>6. CASE k # n
        <5>1. k \in 1 .. n - 1
          BY <1>1, <4>6
        <5>2. frames[k].left
          BY <1>1, <5>1 DEF Path
        <5>3. FirstParent(c) \in Main
          BY <1>1, <4>1, <4>3, <4>4, <5>2 DEF Mainline
        <5> QED BY <1>2, <3>3, <4>1, <5>3
      <4> QED BY <4>5, <4>6
    <3> QED BY <1>1, <1>2, <2>3, <3>2, <3>4
  <2>4. i \in 1 .. n - 1 \/ i = n \/ i = n + 1
    BY <1>1
  <2> QED BY <2>1, <2>2, <2>3, <2>4
<1>9. /\ Tip \in Main'
      /\ \A x \in OnMainline' : HasFirst(x) => FirstParent(x) \in OnMainline'
  BY <1>2 DEF Mainline
<1>10. \A x : (HasFirst(x)' <=> HasFirst(x)) /\ FirstParent(x)' = FirstParent(x)
  BY <1>3, SameLineage
<1> QED BY <1>1, <1>3, <1>6, <1>7, <1>8, <1>9 DEF Mainline, HasFirst, FirstParent, Revs

LEMMA MainlineSkip ==
  ASSUME MTyped, MTyped', Placed, Path, Mainline, NEW n, NEW r, NEW rest, Skipped(n, r, rest)
  PROVE  Mainline'
<1>1. /\ n = Len(frames) /\ n \in 1 .. n /\ n \in Nat /\ Len(frames') = n
      /\ \A i \in 1 .. n : /\ frames'[i].name = frames[i].name /\ frames'[i].depth = frames[i].depth
                           /\ frames'[i].first = frames[i].first
      /\ \A i \in 1 .. n - 1 : frames'[i] = frames[i]
      /\ frames'[n].left
      /\ OnStack' = OnStack /\ Completed' = Completed /\ OnMainline' = OnMainline /\ Main' = Main
  BY AfterSkip
<1>3. Looked(n, r, rest) /\ lineage' = lineage /\ (r \in Completed \/ r \notin Revs)
  BY DEF Skipped, Looked
<1>5. ~frames[n].left => /\ HasFirst(frames[n].name) => FirstParent(frames[n].name) = r /\ r \in Revs
  BY <1>1, <1>3, FirstLooked
<1>8. ASSUME NEW i \in 1 .. n, frames'[i].depth = 0
      PROVE  LET nm == frames'[i].name IN
             /\ frames'[i].left /\ HasFirst(nm) => FirstParent(nm) \in Main
             /\ ~frames'[i].left => Completed = {}
             /\ HasFirst(nm) => frames'[i].first
  <2>1. CASE i \in 1 .. n - 1
    <3>1. frames'[i] = frames[i] /\ frames[i].left /\ i # n
      BY <1>1, <2>1 DEF Path
    <3> QED BY <1>1, <1>8, <3>1 DEF Mainline
  <2>2. CASE i = n
    <3>1. /\ frames'[i].left /\ frames'[i].name = frames[n].name /\ frames'[i].first = frames[n].first
          /\ frames[n].depth = 0
      BY <1>1, <1>8, <2>2
    <3>2. ~frames[n].left => ~HasFirst(frames[n].name)
      <4>1. ~frames[n].left => Completed = {}
        BY <1>1, <3>1 DEF Mainline
      <4> QED BY <1>3, <1>5, <4>1
    <3> QED BY <1>1, <3>1, <3>2 DEF Mainline
  <2> QED BY <1>1, <2>1, <2>2
<1>9. \A i, j \in 1 .. n : i <= j => frames'[i].depth <= frames'[j].depth
  BY <1>1 DEF Mainline
<1>10. /\ Tip \in Main
       /\ \A x \in Main : x = Tip \/ \E c \in Main : HasFirst(c) /\ FirstParent(c) = x
       /\ \A x \in OnMainline : HasFirst(x) => FirstParent(x) \in OnMainline
  BY DEF Mainline
<1> QED BY <1>1, <1>3, <1>8, <1>9, <1>10 DEF Mainline, HasFirst, FirstParent, Revs

LEMMA MainlinePop ==
  ASSUME MTyped, MTyped', Placed, Path, Mainline, NEW n, Popped(n)
  PROVE  Mainline'
<1> DEFINE nm == frames[n].name
<1>1. /\ n = Len(frames) /\ n \in 1 .. n /\ n \in Nat /\ Len(frames') = n - 1
      /\ \A i \in 1 .. n - 1 : frames'[i] = frames[i] /\ i \in 1 .. n
      /\ Completed' = Completed \cup {nm} /\ Main' = Main /\ nm \in Revs
      /\ OnMainline' = OnMainline \cup (IF frames[n].depth = 0 THEN {nm} ELSE {})
  BY AfterPop
<1>2. lineage' = lineage /\ frames[n].todo = <<>>
  BY DEF Popped
<1>3. ASSUME frames[n].depth = 0, HasFirst(nm) PROVE FirstParent(nm) \in OnMainline
  <2>1. lineage[nm] # <<>> /\ FirstParent(nm) \in ParentsOf(nm)
    BY <1>1, <1>3, MergeParents
  <2>2. frames[n].left
    BY <1>1, <1>2, <2>1 DEF Path
  <2>3. FirstParent(nm) \in Main
    BY <1>1, <1>3, <2>2 DEF Mainline
  <2>4. FirstParent(nm) \in Completed
    BY <2>1, ParentsLeft
  <2>5. FirstParent(nm) \notin OnStack
    BY <2>4 DEF Placed
  <2> QED BY <2>3, <2>5, Held
<1>4. \A x \in OnMainline' : HasFirst(x) => FirstParent(x) \in OnMainline'
  BY <1>1, <1>3 DEF Mainline
<1>5. ASSUME NEW i \in 1 .. n - 1, frames'[i].depth = 0
      PROVE  LET x == frames'[i].name IN
             frames'[i].left /\ (HasFirst(x) => FirstParent(x) \in Main /\ frames'[i].first)
  <2>1. frames'[i] = frames[i] /\ frames[i].left /\ i # n /\ i \in 1 .. n
    BY <1>1, <1>5 DEF Path
  <2> QED BY <1>1, <1>5, <2>1 DEF Mainline
<1>6. \A i, j \in 1 .. n - 1 : i <= j => frames'[i].depth <= frames'[j].depth
  BY <1>1 DEF Mainline
<1>7. /\ Tip \in Main
      /\ \A x \in Main : x = Tip \/ \E c \in Main : HasFirst(c) /\ FirstParent(c) = x
  BY DEF Mainline
<1> QED BY <1>1, <1>2, <1>4, <1>5, <1>6, <1>7 DEF Mainline, HasFirst, FirstParent, Revs

\* Which child continues a line is settled when it is pushed.
LEMMA ContinuedPush ==
  ASSUME MTyped, MTyped', Placed, Continued, NEW n, NEW r, NEW rest, Pushed(n, r, rest)
  PROVE  Continued'
<1>1. /\ n = Len(frames) /\ n \in 1 .. n /\ n \in Nat /\ r \in unvisited /\ r \in Revs /\ Len(frames') = n + 1
      /\ \A i \in 1 .. n : /\ frames'[i].name = frames[i].name
                           /\ frames'[i].first = frames[i].first
      /\ frames'[n + 1].name = r
      /\ frames'[n + 1].first = (HasFirst(r) /\ FirstParent(r) \notin continued)
      /\ \A i \in 1 .. n + 1 : i \in 1 .. n \/ i = n + 1
      /\ Completed' = Completed
  BY AfterPush
<1>2. /\ unvisited' = unvisited \ {r} /\ lineage' = lineage /\ revno' = revno
      /\ continued' = continued \cup (IF HasFirst(r) THEN {FirstParent(r)} ELSE {})
  BY DEF Pushed, Looked, Continue
<1>3. \A i \in 1 .. n : frames[i].name \in Revs \ unvisited
  <2>1. \A i \in 1 .. n : frames[i].name \in OnStack /\ frames[i].name \in Revs
    BY <1>1, Held
  <2> QED BY <2>1 DEF Placed
<1>4. Completed \subseteq Revs \ unvisited
  BY Held DEF Placed
<1>5. \A x \in Revs \ unvisited' : HasFirst(x) => FirstParent(x) \in continued'
  BY <1>1, <1>2 DEF Continued
<1>6. \A p \in continued' : \E c \in Revs \ unvisited' : HasFirst(c) /\ FirstParent(c) = p
  BY <1>1, <1>2 DEF Continued
<1>7. ASSUME NEW i \in 1 .. n + 1, frames'[i].first
      PROVE  /\ HasFirst(frames'[i].name)
             /\ \A j \in 1 .. n + 1 :
                  frames'[j].first /\ FirstParent(frames'[j].name) = FirstParent(frames'[i].name) => i = j
             /\ \A s \in Completed :
                  HasFirst(s) /\ FirstParent(s) = FirstParent(frames'[i].name) => Last(revno[s]) = 1
  <2>1. \A j \in 1 .. n : frames[j].first =>
          HasFirst(frames[j].name) /\ FirstParent(frames[j].name) \in continued
    BY <1>1, <1>3 DEF Continued
  <2>2. \A s \in Completed : HasFirst(s) => FirstParent(s) \in continued
    BY <1>4 DEF Continued
  <2>3. CASE i \in 1 .. n
    <3>1. /\ HasFirst(frames[i].name) /\ FirstParent(frames[i].name) \in continued
          /\ \A j \in 1 .. n : frames[j].first /\ FirstParent(frames[j].name) = FirstParent(frames[i].name) => i = j
          /\ \A s \in Completed :
               HasFirst(s) /\ FirstParent(s) = FirstParent(frames[i].name) => Last(revno[s]) = 1
      BY <1>1, <1>7, <2>1, <2>3 DEF Continued
    <3> QED BY <1>1, <1>7, <2>3, <3>1
  <2>4. CASE i = n + 1
    <3>1. HasFirst(r) /\ FirstParent(r) \notin continued /\ frames'[i].name = r
      BY <1>1, <1>7, <2>4
    <3> QED BY <1>1, <2>1, <2>2, <2>4, <3>1
  <2> QED BY <1>1, <2>3, <2>4
<1> QED BY <1>1, <1>2, <1>5, <1>6, <1>7 DEF Continued, HasFirst, FirstParent, Revs

LEMMA ContinuedSkip ==
  ASSUME MTyped, MTyped', Placed, Continued, NEW n, NEW r, NEW rest, Skipped(n, r, rest)
  PROVE  Continued'
<1>1. /\ n = Len(frames) /\ n \in Nat /\ Len(frames') = n
      /\ \A i \in 1 .. n : /\ frames'[i].name = frames[i].name
                           /\ frames'[i].first = frames[i].first
      /\ Completed' = Completed
  BY AfterSkip
<1>2. unvisited' = unvisited /\ lineage' = lineage /\ revno' = revno /\ continued' = continued
  BY DEF Skipped, Looked
<1>3. ASSUME NEW i \in 1 .. n, frames'[i].first
      PROVE  /\ HasFirst(frames'[i].name)
             /\ \A j \in 1 .. n :
                  frames'[j].first /\ FirstParent(frames'[j].name) = FirstParent(frames'[i].name) => i = j
             /\ \A s \in Completed :
                  HasFirst(s) /\ FirstParent(s) = FirstParent(frames'[i].name) => Last(revno[s]) = 1
  BY <1>1, <1>3 DEF Continued
<1>4. /\ \A r0 \in Revs \ unvisited : HasFirst(r0) => FirstParent(r0) \in continued
      /\ \A p \in continued : \E c \in Revs \ unvisited : HasFirst(c) /\ FirstParent(c) = p
  BY DEF Continued
<1> QED BY <1>1, <1>2, <1>3, <1>4 DEF Continued, HasFirst, FirstParent, Revs

\* The next number on a line of three.
LEMMA Triples ==
  ASSUME NEW b \in Int, NEW k \in Int, NEW a \in Int
  PROVE  SubSeq(<<b, k, a>>, 1, 2) = <<b, k>> /\ Append(<<b, k>>, a) = <<b, k, a>>
<1>1. SubSeq(<<b, k, a>>, 1, 2) = <<b, k>>
  <2> DEFINE s == SubSeq(<<b, k, a>>, 1, 2)
             t == <<b, k>>
  <2>1. s \in Seq(Int) /\ t \in Seq(Int) /\ Len(s) = 2 /\ Len(t) = 2
    OBVIOUS
  <2>2. s[1] = t[1] /\ s[2] = t[2]
    OBVIOUS
  <2> HIDE DEF s, t
  <2>3. \A i \in 1 .. Len(s) : s[i] = t[i]
    <3>1. \A i \in 1 .. 2 : i = 1 \/ i = 2
      OBVIOUS
    <3> QED BY <2>1, <2>2, <3>1
  <2>4. s = t
    BY <2>1, <2>3, SeqEqual
  <2> QED BY <2>4 DEF s, t
<1>2. Append(<<b, k>>, a) = <<b, k, a>>
  <2> DEFINE s == Append(<<b, k>>, a)
             t == <<b, k, a>>
  <2>1. s \in Seq(Int) /\ t \in Seq(Int) /\ Len(s) = 3 /\ Len(t) = 3
    OBVIOUS
  <2>2. s[1] = t[1] /\ s[2] = t[2] /\ s[3] = t[3]
    OBVIOUS
  <2> HIDE DEF s, t
  <2>3. \A i \in 1 .. Len(s) : s[i] = t[i]
    <3>1. \A i \in 1 .. 3 : i = 1 \/ i = 2 \/ i = 3
      OBVIOUS
    <3> QED BY <2>1, <2>2, <3>1
  <2>4. s = t
    BY <2>1, <2>3, SeqEqual
  <2> QED BY <2>4 DEF s, t
<1> QED BY <1>1, <1>2

\* What the numbers are made of.
LEMMA NumberFacts ==
  ASSUME NEW v \in Numbers
  PROVE  /\ v \in Seq(Int) /\ v # <<>> /\ Len(v) \in {1, 3} /\ Head(v) = v[1] /\ v[1] \in Nat
         /\ Last(v) \in Nat \ {0} /\ After(v) \in Numbers /\ Len(After(v)) = Len(v)
         /\ Last(After(v)) = Last(v) + 1
         /\ Len(v) = 1 => v = <<v[1]>> /\ After(v) = <<v[1] + 1>> /\ Last(v) = v[1]
         /\ Len(v) = 3 => /\ v = <<v[1], v[2], v[3]>> /\ After(v) = <<v[1], v[2], v[3] + 1>> /\ Last(v) = v[3]
                          /\ v[2] \in Nat
<1>1. CASE \E a \in Nat \ {0} : v = <<a>>
  <2>1. PICK a \in Nat \ {0} : v = <<a>>
    BY <1>1
  <2>2. Front(v) = <<>> /\ Last(v) = a
    BY <2>1 DEF Front, Last
  <2>3. After(v) = <<a + 1>>
    BY <2>2 DEF After
  <2>4. After(v) \in Numbers
    BY <2>3 DEF Numbers
  <2> QED BY <2>1, <2>2, <2>3, <2>4 DEF Last
<1>2. CASE \E b \in Nat, k \in Nat \ {0}, a \in Nat \ {0} : v = <<b, k, a>>
  <2>1. PICK b \in Nat, k \in Nat \ {0}, a \in Nat \ {0} : v = <<b, k, a>>
    BY <1>2
  <2>2. Last(v) = a
    BY <2>1 DEF Last
  <2>3. Front(v) = <<b, k>>
    <3>1. Len(v) - 1 = 2
      BY <2>1
    <3>2. Front(v) = SubSeq(v, 1, 2)
      BY <3>1 DEF Front
    <3>3. SubSeq(<<b, k, a>>, 1, 2) = <<b, k>>
      <4>1. b \in Int /\ k \in Int /\ a \in Int
        OBVIOUS
      <4> QED BY <4>1, Triples, Zenon
    <3> QED BY <2>1, <3>2, <3>3, Zenon
  <2>4. After(v) = <<b, k, a + 1>>
    <3>1. After(v) = Append(<<b, k>>, a + 1)
      BY <2>2, <2>3, Zenon DEF After
    <3>2. Append(<<b, k>>, a + 1) = <<b, k, a + 1>>
      <4>1. b \in Int /\ k \in Int /\ a + 1 \in Int
        OBVIOUS
      <4> QED BY <4>1, Triples, Zenon
    <3> QED BY <3>1, <3>2, Zenon
  <2>5. After(v) \in Numbers
    BY <2>4 DEF Numbers
  <2> QED BY <2>1, <2>2, <2>4, <2>5 DEF Last
<1> QED BY <1>1, <1>2 DEF Numbers

\* Two lines that meet in a number had met before.
LEMMA AfterInjective ==
  ASSUME NEW v \in Numbers, NEW w \in Numbers, After(v) = After(w)
  PROVE  v = w
<1>1. Len(v) = Len(w)
  BY NumberFacts
<1>2. CASE Len(v) = 1
  <2>1. v = <<v[1]>> /\ w = <<w[1]>> /\ <<v[1] + 1>> = <<w[1] + 1>> /\ v[1] \in Nat /\ w[1] \in Nat
    BY <1>1, <1>2, NumberFacts
  <2>2. v[1] = w[1]
    BY <2>1
  <2> QED BY <2>1, <2>2
<1>3. CASE Len(v) = 3
  <2>1. /\ v = <<v[1], v[2], v[3]>> /\ w = <<w[1], w[2], w[3]>>
        /\ <<v[1], v[2], v[3] + 1>> = <<w[1], w[2], w[3] + 1>> /\ v[3] \in Nat /\ w[3] \in Nat
    BY <1>1, <1>3, NumberFacts
  <2>2. v[1] = w[1] /\ v[2] = w[2] /\ v[3] = w[3]
    BY <2>1
  <2> QED BY <2>1, <2>2
<1> QED BY <1>2, <1>3, NumberFacts

\* The number a revision gets when it leaves the stack: the next one, or a new line's first.
Nexts(n) ==
  LET nm == frames[n].name IN
  /\ frames[n].first /\ HasFirst(nm) /\ FirstParent(nm) \in Completed
  /\ revno' = [revno EXCEPT ![nm] = After(revno[FirstParent(nm)])] /\ spawned' = spawned
Starts(n, base) ==
  LET nm == frames[n].name IN
  /\ \/ HasFirst(nm) /\ ~frames[n].first /\ FirstParent(nm) \in Completed /\ base = revno[FirstParent(nm)][1]
     \/ ~HasFirst(nm) /\ base = 0
  /\ spawned' = [spawned EXCEPT ![base] = spawned[base] + 1]
  /\ revno' = [revno EXCEPT ![nm] =
                 IF base = 0 /\ spawned[0] = -1 THEN <<1>> ELSE <<base, spawned[base] + 1, 1>>]
  /\ base \in 0 .. Cardinality(Revs) /\ base <= Len(scheduled)
  /\ IF base = 0 /\ spawned[0] = -1 THEN TRUE ELSE spawned[base] \in Nat

\* The number that a pop gives is one or the other.
LEMMA PopNumbers ==
  ASSUME MTyped, Placed, Path, Numbered, Pop, NEW n, n = Len(frames), Popped(n)
  PROVE  Nexts(n) \/ \E base : Starts(n, base)
<1> DEFINE nm == frames[n].name
           fp == FirstParent(nm)
<1>1. /\ outcome = "sorting" /\ frames # <<>> /\ Last(frames) = frames[n]
      /\ \/ /\ HasFirst(nm) /\ revno[fp] # <<>> /\ ~frames[n].first /\ NewLine(Head(revno[fp]))
         \/ /\ HasFirst(nm) /\ revno[fp] # <<>> /\ frames[n].first
            /\ revno' = [revno EXCEPT ![nm] = Append(Front(revno[fp]), Last(revno[fp]) + 1)]
            /\ UNCHANGED spawned
         \/ ~(HasFirst(nm) /\ revno[fp] # <<>>) /\ NewLine(0)
  BY DEF Pop, Last
<1>2. n \in 1 .. n /\ nm \in Revs
  <2>1. n \in 1 .. n
    BY DEF Popped
  <2> QED BY <2>1, Held
<1>3. HasFirst(nm) => fp \in Completed /\ fp \in Revs
  BY <1>2, MergeParents, ParentsLeft
<1>4. HasFirst(nm) => revno[fp] \in Numbers /\ revno[fp] # <<>> /\ Head(revno[fp]) = revno[fp][1]
  BY <1>3, NumberFacts DEF Numbered
<1>5. /\ Cardinality(Revs) \in Nat /\ Len(scheduled) <= Cardinality(Revs) /\ Len(scheduled) \in Nat
  <2>1. Completed \in SUBSET Revs /\ IsFiniteSet(Revs)
    BY Held, ReachedClosed
  <2>2. Cardinality(Completed) <= Cardinality(Revs)
    BY <2>1, FS_Subset
  <2> QED BY <2>1, <2>2, FS_CardinalityType, Held DEF Placed
<1>6. spawned \in [0 .. Cardinality(Revs) -> Int]
  BY DEF MTyped
<1>7. \A b \in 0 .. Cardinality(Revs) : spawned[b] \in Nat \/ (b = 0 /\ spawned[b] = -1)
  <2>1. spawned[0] = -1 \/ spawned[0] >= 0
    BY DEF Numbered
  <2>2. \A b \in 1 .. Cardinality(Revs) : spawned[b] >= 0
    BY DEF Numbered
  <2>3. \A b \in 0 .. Cardinality(Revs) : b = 0 \/ b \in 1 .. Cardinality(Revs)
    BY <1>5
  <2> QED BY <1>5, <1>6, <2>1, <2>2, <2>3
<1>8. ASSUME NEW base \in 0 .. Cardinality(Revs), NewLine(base)
      PROVE  /\ spawned' = [spawned EXCEPT ![base] = spawned[base] + 1]
             /\ revno' = [revno EXCEPT ![nm] =
                 IF base = 0 /\ spawned[0] = -1 THEN <<1>> ELSE <<base, spawned[base] + 1, 1>>]
             /\ IF base = 0 /\ spawned[0] = -1 THEN TRUE ELSE spawned[base] \in Nat
  <2>1. /\ spawned' = [spawned EXCEPT ![base] = spawned[base] + 1]
        /\ revno' = [revno EXCEPT ![nm] =
                 IF base = 0 /\ spawned'[0] = 0 THEN <<1>> ELSE <<base, spawned'[base], 1>>]
    BY <1>1, <1>8 DEF NewLine
  <2>2. spawned'[base] = spawned[base] + 1
    BY <1>6, <2>1
  <2>3. base = 0 => (spawned'[0] = 0 <=> spawned[0] = -1)
    BY <1>6, <2>2
  <2>4. (base = 0 /\ spawned'[0] = 0) <=> (base = 0 /\ spawned[0] = -1)
    BY <2>3
  <2>5. IF base = 0 /\ spawned[0] = -1 THEN TRUE ELSE spawned[base] \in Nat
    BY <1>7
  <2> HIDE DEF nm
  <2>6. revno' = [revno EXCEPT ![nm] =
                 IF base = 0 /\ spawned[0] = -1 THEN <<1>> ELSE <<base, spawned[base] + 1, 1>>]
    <3>1. CASE base = 0 /\ spawned[0] = -1
      <4>1. revno' = [revno EXCEPT ![nm] = <<1>>]
        BY <2>1, <2>4, <3>1
      <4> QED BY <3>1, <4>1
    <3>2. CASE ~(base = 0 /\ spawned[0] = -1)
      <4>1. revno' = [revno EXCEPT ![nm] = <<base, spawned'[base], 1>>]
        BY <2>1, <2>4, <3>2
      <4>2. revno' = [revno EXCEPT ![nm] = <<base, spawned[base] + 1, 1>>]
        BY <2>2, <4>1
      <4> QED BY <3>2, <4>2
    <3> QED BY <3>1, <3>2
  <2> QED BY <2>1, <2>5, <2>6
<1> HIDE DEF nm, fp
<1>9. CASE HasFirst(nm) /\ frames[n].first
  <2>1. revno' = [revno EXCEPT ![nm] = After(revno[fp])] /\ UNCHANGED spawned
    BY <1>1, <1>4, <1>9 DEF After
  <2> QED BY <1>3, <1>9, <2>1 DEF Nexts, nm, fp
<1>10. CASE HasFirst(nm) /\ ~frames[n].first
  <2> DEFINE base == revno[fp][1]
  <2>1. base \in Nat /\ base <= Len(scheduled)
    BY <1>3, <1>4, <1>10, NumberFacts DEF Numbered
  <2>2. base \in 0 .. Cardinality(Revs) /\ NewLine(base)
    BY <1>1, <1>4, <1>5, <1>10, <2>1
  <2> HIDE DEF base
  <2>3. Starts(n, base)
    BY <1>3, <1>8, <1>10, <2>1, <2>2 DEF Starts, nm, fp, base
  <2> QED BY <2>3
<1>11. CASE ~HasFirst(nm)
  <2>1. 0 \in 0 .. Cardinality(Revs) /\ NewLine(0) /\ 0 <= Len(scheduled)
    BY <1>1, <1>5, <1>11
  <2>2. Starts(n, 0)
    BY <1>8, <1>11, <2>1 DEF Starts, nm
  <2> QED BY <2>2
<1> QED BY <1>9, <1>10, <1>11

\* In both cases, the number of the revision is one and the others keep theirs.
LEMMA PopGives ==
  ASSUME MTyped, Placed, Numbered, NEW n, Popped(n), Nexts(n) \/ \E base : Starts(n, base)
  PROVE  /\ revno' \in [Revs -> Seq(Int)] /\ spawned' \in [0 .. Cardinality(Revs) -> Int]
         /\ revno'[frames[n].name] \in Numbers
         /\ \A s \in Revs : s # frames[n].name => revno'[s] = revno[s]
         /\ \A b \in 0 .. Cardinality(Revs) : spawned'[b] \in Int /\ spawned[b] \in Int /\ spawned'[b] >= spawned[b]
<1> DEFINE nm == frames[n].name
<1>1. nm \in Revs
  <2>1. n = Len(frames) /\ n \in 1 .. n
    BY DEF Popped
  <2> QED BY <2>1, Held
<1>2. revno \in [Revs -> Seq(Int)] /\ spawned \in [0 .. Cardinality(Revs) -> Int]
  BY DEF MTyped
<1> HIDE DEF nm
<1>3. ASSUME NEW v \in Numbers, revno' = [revno EXCEPT ![nm] = v]
      PROVE  /\ revno' \in [Revs -> Seq(Int)] /\ revno'[nm] \in Numbers
             /\ \A s \in Revs : s # nm => revno'[s] = revno[s]
  <2>1. v \in Seq(Int)
    BY NumberFacts
  <2> QED BY <1>1, <1>2, <1>3, <2>1
<1>4. CASE Nexts(n)
  <2>1. /\ HasFirst(nm) /\ FirstParent(nm) \in Completed
        /\ revno' = [revno EXCEPT ![nm] = After(revno[FirstParent(nm)])] /\ spawned' = spawned
    BY <1>4 DEF Nexts, nm
  <2>2. FirstParent(nm) \in Revs
    BY <2>1, Held
  <2>3. After(revno[FirstParent(nm)]) \in Numbers
    BY <2>1, <2>2, NumberFacts DEF Numbered
  <2>4. \A b \in 0 .. Cardinality(Revs) : spawned'[b] \in Int /\ spawned[b] \in Int /\ spawned'[b] >= spawned[b]
    BY <1>2, <2>1
  <2> QED BY <1>2, <1>3, <2>1, <2>3, <2>4 DEF nm
<1>5. ASSUME NEW base, Starts(n, base)
      PROVE  /\ revno' \in [Revs -> Seq(Int)] /\ spawned' \in [0 .. Cardinality(Revs) -> Int]
             /\ revno'[nm] \in Numbers
             /\ \A s \in Revs : s # nm => revno'[s] = revno[s]
             /\ \A b \in 0 .. Cardinality(Revs) : spawned'[b] \in Int /\ spawned[b] \in Int /\ spawned'[b] >= spawned[b]
  <2> DEFINE v == IF base = 0 /\ spawned[0] = -1 THEN <<1>> ELSE <<base, spawned[base] + 1, 1>>
  <2>1. /\ spawned' = [spawned EXCEPT ![base] = spawned[base] + 1]
        /\ revno' = [revno EXCEPT ![nm] = v]
        /\ base \in 0 .. Cardinality(Revs) /\ base \in Nat
        /\ IF base = 0 /\ spawned[0] = -1 THEN TRUE ELSE spawned[base] \in Nat
    BY <1>5 DEF Starts, nm
  <2>2. v \in Numbers
    <3>1. <<1>> \in Numbers
      BY DEF Numbers
    <3>2. ASSUME NEW k \in Nat PROVE <<base, k + 1, 1>> \in Numbers
      BY <2>1 DEF Numbers
    <3> QED BY <2>1, <3>1, <3>2
  <2> HIDE DEF v
  <2>3. spawned' \in [0 .. Cardinality(Revs) -> Int]
    BY <1>2, <2>1
  <2>4. \A b \in 0 .. Cardinality(Revs) : spawned'[b] \in Int /\ spawned[b] \in Int /\ spawned'[b] >= spawned[b]
    BY <1>2, <2>1
  <2> QED BY <1>3, <2>1, <2>2, <2>3, <2>4
<1> QED BY <1>4, <1>5 DEF nm

\* The revisions that are completed already, and the last number of the one that gets it.
LEMMA PopLasts ==
  ASSUME MTyped, Placed, Numbered, NEW n, Popped(n), Nexts(n) \/ \E base : Starts(n, base)
  PROVE  LET nm == frames[n].name IN
         \/ /\ Nexts(n) /\ revno'[nm] = After(revno[FirstParent(nm)]) /\ Last(revno'[nm]) > 1
            /\ revno[FirstParent(nm)] \in Numbers
         \/ /\ Completed = {} /\ revno'[nm] = <<1>> /\ Last(revno'[nm]) = 1 /\ ~HasFirst(nm)
            /\ spawned'[0] = 0
         \/ /\ Last(revno'[nm]) = 1 /\ Completed # {} /\ ~(frames[n].first /\ HasFirst(nm))
            /\ \E base \in 0 .. Cardinality(Revs) :
                 /\ revno'[nm] = <<base, spawned[base] + 1, 1>> /\ base <= Len(scheduled)
                 /\ spawned[base] \in Nat /\ spawned'[base] = spawned[base] + 1
<1> DEFINE nm == frames[n].name
<1>1. nm \in Revs
  <2>1. n = Len(frames) /\ n \in 1 .. n
    BY DEF Popped
  <2> QED BY <2>1, Held
<1>2. revno \in [Revs -> Seq(Int)] /\ spawned \in [0 .. Cardinality(Revs) -> Int]
  BY DEF MTyped
<1> HIDE DEF nm
<1>3. CASE Nexts(n)
  <2>1. /\ HasFirst(nm) /\ FirstParent(nm) \in Completed
        /\ revno' = [revno EXCEPT ![nm] = After(revno[FirstParent(nm)])]
    BY <1>3 DEF Nexts, nm
  <2>2. revno[FirstParent(nm)] \in Numbers
    BY <2>1, Held DEF Numbered
  <2>3. revno'[nm] = After(revno[FirstParent(nm)])
    BY <1>1, <1>2, <2>1
  <2>4. Last(revno'[nm]) > 1
    <3>1. /\ Last(revno'[nm]) = Last(revno[FirstParent(nm)]) + 1
          /\ Last(revno[FirstParent(nm)]) \in Nat \ {0}
      BY <2>2, <2>3, NumberFacts
    <3> QED BY <3>1
  <2> QED BY <1>3, <2>2, <2>3, <2>4 DEF nm
<1>4. ASSUME NEW base, Starts(n, base), base = 0, spawned[0] = -1
      PROVE  /\ Completed = {} /\ revno'[nm] = <<1>> /\ Last(revno'[nm]) = 1 /\ ~HasFirst(nm)
             /\ spawned'[0] = 0
  <2>1. /\ HasFirst(nm) => FirstParent(nm) \in Completed
        /\ spawned' = [spawned EXCEPT ![0] = spawned[0] + 1]
        /\ revno' = [revno EXCEPT ![nm] = <<1>>] /\ 0 \in 0 .. Cardinality(Revs)
    BY <1>4 DEF Starts, nm
  <2>2. Completed = {}
    BY <1>4 DEF Numbered
  <2>3. revno'[nm] = <<1>> /\ Last(<<1>>) = 1
    BY <1>1, <1>2, <2>1 DEF Last
  <2>4. spawned'[0] = 0
    BY <1>2, <1>4, <2>1
  <2> QED BY <2>1, <2>2, <2>3, <2>4
<1>5. ASSUME NEW base, Starts(n, base), ~(base = 0 /\ spawned[0] = -1)
      PROVE  /\ Last(revno'[nm]) = 1 /\ Completed # {} /\ ~(frames[n].first /\ HasFirst(nm))
             /\ base \in 0 .. Cardinality(Revs)
             /\ revno'[nm] = <<base, spawned[base] + 1, 1>> /\ base <= Len(scheduled)
             /\ spawned[base] \in Nat /\ spawned'[base] = spawned[base] + 1
  <2>1. /\ \/ HasFirst(nm) /\ ~frames[n].first /\ FirstParent(nm) \in Completed
           \/ ~HasFirst(nm) /\ base = 0
        /\ spawned' = [spawned EXCEPT ![base] = spawned[base] + 1]
        /\ base \in 0 .. Cardinality(Revs) /\ base <= Len(scheduled) /\ spawned[base] \in Nat
    BY <1>5 DEF Starts, nm
  <2>2. revno' = [revno EXCEPT ![nm] = <<base, spawned[base] + 1, 1>>]
    BY <1>5 DEF Starts, nm
  <2>3. revno'[nm] = <<base, spawned[base] + 1, 1>>
    BY <1>1, <1>2, <2>2
  <2>4. Last(<<base, spawned[base] + 1, 1>>) = 1
    BY DEF Last
  <2>5. spawned'[base] = spawned[base] + 1
    BY <1>2, <2>1
  <2>6. Completed # {}
    BY <1>5, <2>1 DEF Numbered
  <2> QED BY <2>1, <2>3, <2>4, <2>5, <2>6
<1>6. CASE \E base : Starts(n, base)
  <2>1. PICK base : Starts(n, base)
    BY <1>6
  <2>2. CASE base = 0 /\ spawned[0] = -1
    BY <1>4, <2>1, <2>2 DEF nm
  <2>3. CASE ~(base = 0 /\ spawned[0] = -1)
    BY <1>5, <2>1, <2>3 DEF nm
  <2> QED BY <2>2, <2>3
<1> QED BY <1>3, <1>6

\* A line goes on, if at all, below the one child that was the first to enter the stack.
LEMMA ContinuedPop ==
  ASSUME MTyped, MTyped', Placed, Continued, Numbered, NEW n, Popped(n), Nexts(n) \/ \E base : Starts(n, base)
  PROVE  Continued'
<1> DEFINE nm == frames[n].name
<1>1. /\ n = Len(frames) /\ n \in 1 .. n /\ n \in Nat /\ Len(frames') = n - 1
      /\ \A i \in 1 .. n - 1 : frames'[i] = frames[i] /\ i \in 1 .. n /\ i # n
      /\ Completed' = Completed \cup {nm} /\ nm \in Revs /\ nm \notin Completed
  <2>1. n \in Nat
    BY AfterPop
  <2> QED BY <2>1, AfterPop
<1>2. lineage' = lineage /\ unvisited' = unvisited /\ continued' = continued
  BY DEF Popped
<1>3. \A s \in Completed : revno'[s] = revno[s]
  <2>1. \A s \in Completed : s \in Revs /\ s # nm
    BY <1>1, Held
  <2> QED BY <2>1, PopGives
<1>4. ~frames[n].first \/ ~HasFirst(nm) \/ Last(revno'[nm]) > 1
  BY PopLasts
<1>5. HasFirst(nm) => Last(revno'[nm]) = 1 \/ frames[n].first
  BY PopLasts DEF Nexts
<1> HIDE DEF nm
<1>6. ASSUME NEW i \in 1 .. n - 1, frames'[i].first
      PROVE  /\ HasFirst(frames'[i].name)
             /\ \A j \in 1 .. n - 1 :
                  frames'[j].first /\ FirstParent(frames'[j].name) = FirstParent(frames'[i].name) => i = j
             /\ \A s \in Completed' :
                  HasFirst(s) /\ FirstParent(s) = FirstParent(frames'[i].name) => Last(revno'[s]) = 1
  <2>1. frames'[i] = frames[i] /\ i \in 1 .. n /\ i # n
    BY <1>1
  <2>2. /\ HasFirst(frames[i].name)
        /\ \A j \in 1 .. n : frames[j].first /\ FirstParent(frames[j].name) = FirstParent(frames[i].name) => i = j
        /\ \A s \in Completed :
             HasFirst(s) /\ FirstParent(s) = FirstParent(frames[i].name) => Last(revno[s]) = 1
    BY <1>1, <1>6, <2>1 DEF Continued
  <2>3. \A j \in 1 .. n - 1 :
                  frames'[j].first /\ FirstParent(frames'[j].name) = FirstParent(frames'[i].name) => i = j
    BY <1>1, <2>1, <2>2
  <2>4. HasFirst(nm) /\ FirstParent(nm) = FirstParent(frames[i].name) => ~frames[n].first
    BY <1>1, <2>1, <2>2 DEF nm
  <2> QED BY <1>1, <1>3, <1>5, <2>1, <2>2, <2>3, <2>4
<1>7. /\ \A r0 \in Revs \ unvisited : HasFirst(r0) => FirstParent(r0) \in continued
      /\ \A p \in continued : \E c \in Revs \ unvisited : HasFirst(c) /\ FirstParent(c) = p
  BY DEF Continued
<1> QED BY <1>1, <1>2, <1>6, <1>7 DEF Continued, HasFirst, FirstParent, Revs

\* The number is new: a new line has a new branch count, and a line that goes on has no
\* other child of the same parent on it.
LEMMA NumberedPop ==
  ASSUME MTyped, MTyped', Placed, Continued, Numbered, NEW n, Popped(n),
         Nexts(n) \/ \E base : Starts(n, base)
  PROVE  Numbered'
<1> DEFINE nm == frames[n].name
           m == Len(scheduled)
<1>1. /\ n = Len(frames) /\ n \in 1 .. n
      /\ Completed' = Completed \cup {nm} /\ nm \in Revs /\ nm \notin Completed
  BY AfterPop
<1>2. lineage' = lineage /\ m \in Nat /\ Len(scheduled') = m + 1
  BY DEF Popped
<1>3. /\ revno'[nm] \in Numbers
      /\ \A s \in Revs : s # nm => revno'[s] = revno[s]
      /\ \A b \in 0 .. Cardinality(Revs) : spawned'[b] \in Int /\ spawned[b] \in Int /\ spawned'[b] >= spawned[b]
  BY PopGives
<1>4. Completed \subseteq Revs /\ \A s \in Completed : s # nm /\ revno'[s] = revno[s]
  BY <1>1, <1>3, Held
<1>5. Cardinality(Revs) \in Nat /\ m <= Cardinality(Revs)
  <2>1. Completed \in SUBSET Revs /\ IsFiniteSet(Revs)
    BY Held, ReachedClosed
  <2>2. Cardinality(Completed) <= Cardinality(Revs)
    BY <2>1, FS_Subset
  <2> QED BY <2>1, <2>2, FS_CardinalityType DEF Placed
<1>6. \/ /\ Nexts(n) /\ revno'[nm] = After(revno[FirstParent(nm)]) /\ Last(revno'[nm]) > 1
         /\ revno[FirstParent(nm)] \in Numbers
      \/ /\ Completed = {} /\ revno'[nm] = <<1>> /\ Last(revno'[nm]) = 1 /\ ~HasFirst(nm)
         /\ spawned'[0] = 0
      \/ /\ Last(revno'[nm]) = 1 /\ Completed # {} /\ ~(frames[n].first /\ HasFirst(nm))
         /\ \E base \in 0 .. Cardinality(Revs) :
              /\ revno'[nm] = <<base, spawned[base] + 1, 1>> /\ base <= m
              /\ spawned[base] \in Nat /\ spawned'[base] = spawned[base] + 1
  BY PopLasts
<1>7. Nexts(n) => frames[n].first /\ HasFirst(nm) /\ FirstParent(nm) \in Completed /\ spawned' = spawned
  BY DEF Nexts
<1>8. \A s \in Completed : revno[s] \in Numbers
  BY <1>4 DEF Numbered
<1> HIDE DEF nm, m
<1>9. \A r \in Revs : IF r \in Completed' THEN revno'[r] \in Numbers ELSE revno'[r] = <<>>
  BY <1>1, <1>3, <1>4, <1>8 DEF Numbered
<1>10. ASSUME NEW r \in Completed
       PROVE  /\ Head(revno'[r]) <= m + 1
              /\ Len(revno'[r]) = 3 => revno'[r][2] <= spawned'[revno'[r][1]]
              /\ Last(revno'[r]) > 1 =>
                   HasFirst(r) /\ FirstParent(r) \in Completed' /\ revno'[r] = After(revno'[FirstParent(r)])
  <2>1. /\ Head(revno[r]) <= m
        /\ Len(revno[r]) = 3 => revno[r][2] <= spawned[revno[r][1]]
        /\ Last(revno[r]) > 1 =>
             HasFirst(r) /\ FirstParent(r) \in Completed /\ revno[r] = After(revno[FirstParent(r)])
    BY DEF Numbered, m
  <2>2. revno[r] \in Numbers /\ revno'[r] = revno[r]
    BY <1>4, <1>8
  <2>4. Head(revno[r]) = revno[r][1] /\ revno[r][1] \in Nat
    BY <2>2, NumberFacts
  <2>5. revno[r][1] \in 0 .. Cardinality(Revs) /\ Head(revno[r]) <= m + 1
    BY <1>2, <1>5, <2>1, <2>4
  <2>6. Len(revno[r]) = 3 => revno[r][2] <= spawned'[revno[r][1]]
    <3>1. spawned'[revno[r][1]] \in Int /\ spawned[revno[r][1]] \in Int /\ spawned'[revno[r][1]] >= spawned[revno[r][1]]
      BY <1>3, <2>5
    <3>2. Len(revno[r]) = 3 => revno[r][2] \in Nat
      BY <2>2, NumberFacts
    <3> QED BY <2>1, <3>1, <3>2
  <2>7. Last(revno[r]) > 1 =>
          HasFirst(r) /\ FirstParent(r) \in Completed' /\ revno[r] = After(revno'[FirstParent(r)])
    BY <1>1, <1>4, <2>1
  <2> QED BY <2>2, <2>5, <2>6, <2>7
<1>11. /\ Head(revno'[nm]) <= m + 1
       /\ Len(revno'[nm]) = 3 => revno'[nm][2] <= spawned'[revno'[nm][1]]
       /\ Last(revno'[nm]) > 1 =>
            HasFirst(nm) /\ FirstParent(nm) \in Completed' /\ revno'[nm] = After(revno'[FirstParent(nm)])
  <2>1. CASE Nexts(n) /\ revno'[nm] = After(revno[FirstParent(nm)]) /\ revno[FirstParent(nm)] \in Numbers
    <3> DEFINE v == revno[FirstParent(nm)]
               w == revno'[nm]
    <3>2. FirstParent(nm) \in Completed /\ Head(v) <= m
      BY <1>7, <2>1 DEF Numbered, m
    <3>3. v \in Numbers /\ w \in Numbers /\ w = After(v)
      BY <1>3, <2>1
    <3>4. Len(v) = 3 => v[2] <= spawned[v[1]]
      BY <3>2 DEF Numbered
    <3>5. FirstParent(nm) \in Completed' /\ w = After(revno'[FirstParent(nm)])
      BY <1>1, <1>4, <2>1, <3>2
    <3> HIDE DEF v, w
    <3>6. /\ Head(v) = v[1] /\ v[1] \in Nat /\ Len(w) = Len(v) /\ Len(v) \in {1, 3} /\ Head(w) = w[1]
          /\ Len(v) = 1 => w = <<v[1] + 1>>
          /\ Len(v) = 3 => w = <<v[1], v[2], v[3] + 1>>
      BY <3>3, NumberFacts
    <3>7. w[1] <= v[1] + 1 /\ (Len(v) = 3 => w[1] = v[1] /\ w[2] = v[2])
      BY <3>6
    <3>8. Head(w) <= m + 1 /\ (Len(w) = 3 => w[2] <= spawned'[w[1]])
      <4>1. Len(w) = 3 => w[2] <= spawned'[w[1]]
        BY <1>7, <2>1, <3>4, <3>6, <3>7
      <4>2. w[1] \in Nat
        BY <3>3, NumberFacts
      <4> QED BY <1>2, <3>2, <3>6, <3>7, <4>1, <4>2
    <3> QED BY <1>7, <2>1, <3>5, <3>8 DEF w
  <2>2. CASE revno'[nm] = <<1>> /\ Last(revno'[nm]) = 1
    <3>1. Head(<<1>>) = 1 /\ Len(<<1>>) = 1
      OBVIOUS
    <3> QED BY <1>2, <2>2, <3>1
  <2>3. ASSUME Last(revno'[nm]) = 1, NEW base \in 0 .. Cardinality(Revs),
               revno'[nm] = <<base, spawned[base] + 1, 1>>, base <= m,
               spawned[base] \in Nat, spawned'[base] = spawned[base] + 1
        PROVE  /\ Head(revno'[nm]) <= m + 1
               /\ Len(revno'[nm]) = 3 => revno'[nm][2] <= spawned'[revno'[nm][1]]
               /\ ~(Last(revno'[nm]) > 1)
    <3>1. Head(revno'[nm]) = base /\ revno'[nm][1] = base /\ revno'[nm][2] = spawned[base] + 1
      BY <2>3
    <3>2. base \in Int
      BY <1>5
    <3> QED BY <1>2, <2>3, <3>1, <3>2
  <2> QED BY <1>6, <2>1, <2>2, <2>3
<1>12. spawned'[0] >= 0 /\ nm \in Completed'
  <2>1. 0 \in 0 .. Cardinality(Revs)
    BY <1>5
  <2>2. Completed # {} => spawned[0] >= 0
    BY DEF Numbered
  <2>3. spawned'[0] \in Int /\ spawned[0] \in Int /\ spawned'[0] >= spawned[0]
    BY <1>3, <2>1
  <2> QED BY <1>1, <1>6, <1>7, <2>2, <2>3
<1>13. \A b \in 1 .. Cardinality(Revs) : spawned'[b] >= 0
  <2>1. \A b \in 1 .. Cardinality(Revs) : b \in 0 .. Cardinality(Revs) /\ spawned[b] >= 0
    BY <1>5 DEF Numbered
  <2> QED BY <1>3, <2>1
<1>14. ASSUME NEW s \in Completed, revno'[nm] = revno[s] PROVE FALSE
  <2>0. revno[s] \in Numbers
    BY <1>8
  <2>1. CASE Nexts(n) /\ revno'[nm] = After(revno[FirstParent(nm)]) /\ Last(revno'[nm]) > 1
             /\ revno[FirstParent(nm)] \in Numbers
    <3>1. HasFirst(s) /\ FirstParent(s) \in Completed /\ revno[s] = After(revno[FirstParent(s)])
      BY <1>14, <2>1 DEF Numbered
    <3>2. revno[FirstParent(s)] = revno[FirstParent(nm)]
      <4>1. revno[FirstParent(s)] \in Numbers
        BY <1>8, <3>1
      <4>2. After(revno[FirstParent(s)]) = After(revno[FirstParent(nm)])
        BY <1>14, <2>1, <3>1
      <4> QED BY <2>1, <4>1, <4>2, AfterInjective
    <3>3. FirstParent(s) = FirstParent(nm)
      BY <1>7, <2>1, <3>1, <3>2 DEF Numbered
    <3>4. Last(revno[s]) = 1
      BY <1>1, <1>7, <2>1, <3>1, <3>3 DEF Continued, nm
    <3> QED BY <1>14, <2>1, <3>4
  <2>2. ASSUME NEW base \in 0 .. Cardinality(Revs), revno'[nm] = <<base, spawned[base] + 1, 1>>,
               spawned[base] \in Nat
        PROVE  FALSE
    <3>1. Len(revno[s]) = 3 /\ revno[s][1] = base /\ revno[s][2] = spawned[base] + 1
      BY <1>14, <2>2
    <3>2. revno[s][2] <= spawned[base]
      BY <3>1 DEF Numbered
    <3> QED BY <2>2, <3>1, <3>2
  <2> QED BY <1>6, <2>1, <2>2
<1>15. \A r, s \in Completed' : revno'[r] = revno'[s] => r = s
  <2>1. \A r, s \in Completed : revno'[r] = revno'[s] => r = s
    BY <1>4 DEF Numbered
  <2>2. \A s \in Completed : revno'[nm] # revno'[s]
    BY <1>4, <1>14
  <2> QED BY <1>1, <2>1, <2>2
<1>16. \A r \in Completed' :
         /\ Head(revno'[r]) <= Len(scheduled')
         /\ Len(revno'[r]) = 3 => revno'[r][2] <= spawned'[revno'[r][1]]
         /\ Last(revno'[r]) > 1 =>
              HasFirst(r) /\ FirstParent(r) \in Completed' /\ revno'[r] = After(revno'[FirstParent(r)])
  BY <1>1, <1>2, <1>10, <1>11
<1> QED BY <1>2, <1>9, <1>12, <1>13, <1>15, <1>16 DEF Numbered, HasFirst, FirstParent, Revs

\* The mainline alone has single numbers.
LEMMA SinglePush ==
  ASSUME MTyped, MTyped', Placed, Path, Single, NEW n, NEW r, NEW rest, Pushed(n, r, rest)
  PROVE  Single'
<1>1. /\ n = Len(frames) /\ n \in 1 .. n /\ n \in Nat /\ Len(frames') = n + 1
      /\ \A i \in 1 .. n : frames'[i].depth = frames[i].depth
      /\ ~frames'[n + 1].left
      /\ frames'[n + 1].depth = frames[n].depth + (IF frames[n].left THEN 1 ELSE 0)
      /\ \A i \in 1 .. n + 1 : i \in 1 .. n \/ i = n + 1
      /\ Completed' = Completed /\ OnMainline' = OnMainline
      /\ Main' = Main \cup (IF frames[n].depth = 0 /\ ~frames[n].left THEN {r} ELSE {})
  BY AfterPush
<1>2. lineage' = lineage /\ revno' = revno
  BY DEF Pushed, Looked
<1>3. NoGhostEnds' => NoGhostEnds
  BY <1>1, <1>2 DEF NoGhostEnds, HasFirst, Revs
<1>4. ASSUME NoGhostEnds, Completed = {}
      PROVE  \A i \in 1 .. n + 1 : frames'[i].depth = 0
  <2>1. (\A i \in 1 .. n : frames[i].depth = 0) /\ ~frames[n].left
    <3>1. frames # <<>>
      BY <1>1
    <3> QED BY <1>1, <1>4, <3>1 DEF Single
  <2>2. frames'[n + 1].depth = 0
    BY <1>1, <2>1
  <2> QED BY <1>1, <2>1, <2>2
<1>5. NoGhostEnds =>
        /\ \A x \in OnMainline : revno[x] = IF HasFirst(x) THEN <<revno[FirstParent(x)][1] + 1>> ELSE <<1>>
        /\ \A x \in Completed \ OnMainline : Len(revno[x]) = 3
  BY DEF Single
<1> QED BY <1>1, <1>2, <1>3, <1>4, <1>5 DEF Single, HasFirst, FirstParent, Revs

LEMMA SingleSkip ==
  ASSUME MTyped, MTyped', Placed, Path, Single, NEW n, NEW r, NEW rest, Skipped(n, r, rest)
  PROVE  Single'
<1>1. /\ n = Len(frames) /\ n \in 1 .. n /\ n \in Nat
      /\ Completed' = Completed /\ OnMainline' = OnMainline /\ Main' = Main
  BY AfterSkip
<1>2. Looked(n, r, rest) /\ lineage' = lineage /\ revno' = revno /\ (r \in Completed \/ r \notin Revs)
  BY DEF Skipped, Looked
<1>3. NoGhostEnds' <=> NoGhostEnds
  BY <1>1, <1>2 DEF NoGhostEnds, HasFirst, Revs
<1>4. ~(NoGhostEnds /\ Completed = {})
  <2> SUFFICES ASSUME NoGhostEnds, Completed = {} PROVE FALSE
    OBVIOUS
  <2>1. frames[n].depth = 0 /\ ~frames[n].left
    <3>1. frames # <<>>
      BY <1>1
    <3> QED BY <1>1, <3>1 DEF Single
  <2>2. lineage[frames[n].name] # <<>> /\ ~HasFirst(frames[n].name)
    BY <1>2, <2>1, FirstLooked
  <2>3. frames[n].name \in Main
    BY <1>1, <2>1, Held
  <2> QED BY <2>2, <2>3 DEF NoGhostEnds
<1>5. NoGhostEnds =>
        /\ \A x \in OnMainline : revno[x] = IF HasFirst(x) THEN <<revno[FirstParent(x)][1] + 1>> ELSE <<1>>
        /\ \A x \in Completed \ OnMainline : Len(revno[x]) = 3
  BY DEF Single
<1> QED BY <1>1, <1>2, <1>3, <1>4, <1>5 DEF Single, HasFirst, FirstParent, Revs

\* Only a revision of the mainline continues one of the mainline.
LEMMA SidesStayAside ==
  ASSUME MTyped, Placed, Path, Mainline, Continued, Numbered, Single, NoGhostEnds,
         NEW n, Popped(n), Nexts(n), frames[n].depth # 0
  PROVE  FirstParent(frames[n].name) \notin OnMainline
<1> DEFINE nm == frames[n].name
           fp == FirstParent(nm)
<1> SUFFICES ASSUME fp \in OnMainline PROVE FALSE
  OBVIOUS
<1>1. /\ n = Len(frames) /\ n \in 1 .. n /\ frames[n].first /\ HasFirst(nm) /\ fp \in Completed
  BY DEF Popped, Nexts
<1>2. fp # Tip
  <2>1. frames # <<>> /\ 1 \in 1 .. n
    BY <1>1
  <2>2. Tip \in OnStack
    BY <1>1, <2>1, Held DEF Placed
  <2> QED BY <1>1, <2>2 DEF Placed
<1>3. fp \in Main
  BY Held
<1>4. PICK c \in Main : HasFirst(c) /\ FirstParent(c) = fp
  BY <1>2, <1>3 DEF Mainline
<1> HIDE DEF nm, fp
<1>5. CASE c \in OnMainline
  <2>1. revno[c] = <<revno[fp][1] + 1>>
    BY <1>4, <1>5 DEF Single
  <2>2. c \in Completed
    BY <1>5, Held
  <2>3. Last(revno[c]) = 1
    BY <1>1, <1>4, <2>2 DEF Continued, nm, fp
  <2>4. revno[fp] \in Numbers
    BY <1>1, Held DEF Numbered
  <2>5. revno[fp][1] \in Nat /\ revno[fp][1] # 0
    <3>1. revno[fp] = IF HasFirst(fp) THEN <<revno[FirstParent(fp)][1] + 1>> ELSE <<1>>
      BY DEF Single
    <3>2. Len(revno[fp]) = 1
      BY <3>1
    <3>3. Last(revno[fp]) = revno[fp][1] /\ Last(revno[fp]) \in Nat \ {0}
      BY <2>4, <3>2, NumberFacts
    <3> QED BY <3>3
  <2>6. Last(revno[c]) = revno[fp][1] + 1
    BY <2>1 DEF Last
  <2> QED BY <2>3, <2>5, <2>6
<1>6. CASE c \notin OnMainline
  <2>1. PICK i \in 1 .. n : frames[i].depth = 0 /\ frames[i].name = c
    BY <1>1, <1>6, Held
  <2>2. fp \notin OnStack
    BY <1>1 DEF Placed
  <2>3. frames[i].first
    BY <1>1, <1>4, <2>1, <2>2 DEF Mainline
  <2>4. i = n
    BY <1>1, <1>4, <2>1, <2>3 DEF Continued, nm, fp
  <2> QED BY <2>1, <2>4
<1> QED BY <1>5, <1>6

LEMMA SinglePop ==
  ASSUME MTyped, MTyped', Placed, Path, Mainline, Mainline', Continued, Numbered, Single,
         NEW n, Popped(n), Nexts(n) \/ \E base : Starts(n, base)
  PROVE  Single'
<1> DEFINE nm == frames[n].name
           fp == FirstParent(nm)
<1>1. /\ n = Len(frames) /\ n \in 1 .. n
      /\ Completed' = Completed \cup {nm} /\ Main' = Main /\ nm \in Revs /\ nm \notin Completed
      /\ OnMainline' = OnMainline \cup (IF frames[n].depth = 0 THEN {nm} ELSE {})
  BY AfterPop
<1>2. lineage' = lineage /\ frames[n].todo = <<>>
  BY DEF Popped
<1>3. OnMainline \subseteq Completed /\ \A s \in Completed : s # nm /\ revno'[s] = revno[s]
  BY <1>1, PopGives, Held
<1>4. NoGhostEnds' <=> NoGhostEnds
  BY <1>1, <1>2 DEF NoGhostEnds, HasFirst, Revs
<1>5. \/ /\ Nexts(n) /\ revno'[nm] = After(revno[fp]) /\ revno[fp] \in Numbers
      \/ /\ Completed = {} /\ revno'[nm] = <<1>> /\ ~HasFirst(nm)
      \/ /\ Completed # {} /\ ~(frames[n].first /\ HasFirst(nm)) /\ Len(revno'[nm]) = 3
  <2>1. \A a, b, c : Len(<<a, b, c>>) = 3
    OBVIOUS
  <2> QED BY <2>1, PopLasts
<1>6. Nexts(n) => frames[n].first /\ HasFirst(nm) /\ fp \in Completed
  BY DEF Nexts
<1>7. frames[n].depth = 0 /\ HasFirst(nm) => frames[n].first
  <2>1. HasFirst(nm) => fp \in Completed
    BY <1>1, MergeParents, ParentsLeft
  <2>2. HasFirst(nm) => fp \notin OnStack
    BY <2>1 DEF Placed
  <2> QED BY <1>1, <2>2 DEF Mainline
<1>8. frames[n].depth = 0 /\ ~HasFirst(nm) /\ NoGhostEnds => Completed = {}
  <2> SUFFICES ASSUME frames[n].depth = 0, ~HasFirst(nm), NoGhostEnds PROVE Completed = {}
    OBVIOUS
  <2>1. nm \in Main
    BY <1>1, Held
  <2>2. lineage[nm] = <<>>
    BY <2>1 DEF NoGhostEnds
  <2>3. ~frames[n].left
    BY <1>1, <2>2 DEF Path
  <2> QED BY <1>1, <2>3 DEF Mainline
<1>9. frames[n].depth = 0 /\ HasFirst(nm) => fp \in OnMainline /\ fp # nm
  <2> SUFFICES ASSUME frames[n].depth = 0, HasFirst(nm) PROVE fp \in OnMainline /\ fp # nm
    OBVIOUS
  <2>1. fp \in OnMainline'
    BY <1>1, <1>2 DEF Mainline, HasFirst, FirstParent, Revs
  <2>2. fp \in Completed
    BY <1>1, MergeParents, ParentsLeft
  <2> QED BY <1>1, <1>3, <2>1, <2>2
<1>10. NoGhostEnds /\ Completed = {} => frames[n].depth = 0
  <2>1. frames # <<>>
    BY <1>1
  <2> QED BY <1>1, <2>1 DEF Single
<1>11. NoGhostEnds /\ Nexts(n) /\ frames[n].depth # 0 => fp \in Completed \ OnMainline
  BY <1>6, SidesStayAside
<1> HIDE DEF nm, fp
<1>12. ASSUME NoGhostEnds, NEW x \in OnMainline'
       PROVE  revno'[x] = IF HasFirst(x) THEN <<revno'[FirstParent(x)][1] + 1>> ELSE <<1>>
  <2>1. CASE x \in OnMainline
    <3>1. revno[x] = IF HasFirst(x) THEN <<revno[FirstParent(x)][1] + 1>> ELSE <<1>>
      BY <1>12, <2>1 DEF Single
    <3>2. revno'[x] = revno[x] /\ (HasFirst(x) => revno'[FirstParent(x)] = revno[FirstParent(x)])
      BY <1>3, <2>1 DEF Mainline
    <3> QED BY <3>1, <3>2
  <2>2. CASE x = nm /\ frames[n].depth = 0 /\ HasFirst(nm)
    <3>1. revno'[nm] = After(revno[fp]) /\ revno[fp] \in Numbers
      BY <1>1, <1>5, <1>7, <2>2
    <3>2. fp \in OnMainline /\ revno'[fp] = revno[fp]
      BY <1>3, <1>9, <2>2
    <3>3. Len(revno[fp]) = 1
      <4>1. revno[fp] = IF HasFirst(fp) THEN <<revno[FirstParent(fp)][1] + 1>> ELSE <<1>>
        BY <1>12, <3>2 DEF Single
      <4> QED BY <4>1
    <3>4. revno'[nm] = <<revno[fp][1] + 1>>
      BY <3>1, <3>3, NumberFacts
    <3> QED BY <2>2, <3>2, <3>4 DEF fp
  <2>3. CASE x = nm /\ frames[n].depth = 0 /\ ~HasFirst(nm)
    BY <1>5, <1>6, <1>8, <1>12, <2>3
  <2> QED BY <1>1, <2>1, <2>2, <2>3
<1>13. ASSUME NoGhostEnds, NEW x \in Completed' \ OnMainline' PROVE Len(revno'[x]) = 3
  <2>1. CASE x \in Completed
    BY <1>1, <1>3, <1>13, <2>1 DEF Single
  <2>2. CASE x = nm
    <3>1. frames[n].depth # 0
      BY <1>1, <1>13, <2>2
    <3>2. CASE Nexts(n) /\ revno'[nm] = After(revno[fp]) /\ revno[fp] \in Numbers
      <4>1. Len(revno[fp]) = 3
        BY <1>11, <1>13, <3>1, <3>2 DEF Single
      <4> QED BY <2>2, <3>2, <4>1, NumberFacts
    <3> QED BY <1>5, <1>10, <1>13, <2>2, <3>1, <3>2
  <2> QED BY <1>1, <2>1, <2>2
<1>14. Completed' # {}
  BY <1>1
<1> QED BY <1>2, <1>4, <1>12, <1>13, <1>14 DEF Single, HasFirst, FirstParent, Revs

-----------------------------------------------------------------------------
(* The invariant, and what it says of a search that has ended *)

\* The inductive invariant.
MergeInv ==
  MTyped /\ Placed /\ Path /\ Ordered /\ Ends /\ Mainline /\ Continued /\ Numbered /\ Single

\* Types: a branch's count is looked up where there is one, as numbers are not above the list's length.
LEMMA MergeTypedStep ==
  ASSUME MTyped, Placed, Path, Numbered, [MergeNext]_mergevars
  PROVE  MTyped'
<1>1. CASE UNCHANGED mergevars
  BY <1>1 DEF MTyped, mergevars, FrameSet, Revs, Parents
<1>2. ASSUME MergeNext PROVE MTyped'
  <2>1. CASE Pop /\ Popped(Len(frames))
    <3>1. frames' \in Seq(FrameSet) /\ scheduled' \in Seq([name : Revs, depth : Nat])
      BY <2>1, Pops
    <3>2. revno' \in [Revs -> Seq(Int)] /\ spawned' \in [0 .. Cardinality(Revs) -> Int]
      BY <2>1, PopNumbers, PopGives
    <3>3. UNCHANGED <<lineage, unvisited, continued, outcome>>
      BY <2>1 DEF Popped
    <3> QED BY <3>1, <3>2, <3>3 DEF MTyped, FrameSet, Revs, Parents
  <2>2. CASE Visit
    <3>1. frames' \in Seq(FrameSet) /\ UNCHANGED <<lineage, revno, spawned, scheduled>>
      BY <2>2, Visits DEF Visit
    <3>2. unvisited' \subseteq Revs /\ continued' \subseteq Revs /\ outcome' \in {"sorting", "sorted", "GraphCycleError"}
      <4>1. PICK n, r, rest : Pushed(n, r, rest) \/ Skipped(n, r, rest) \/ FoundCycle(n, r, rest)
        BY <2>2, Visits
      <4>2. CASE Pushed(n, r, rest)
        <5>1. /\ r \in unvisited /\ unvisited' = unvisited \ {r} /\ outcome' = outcome
              /\ continued' = continued \cup (IF HasFirst(r) THEN {FirstParent(r)} ELSE {})
          BY <4>2 DEF Pushed, Continue
        <5>2. HasFirst(r) => FirstParent(r) \in Revs
          BY DEF HasFirst, FirstParent
        <5> QED BY <5>1, <5>2 DEF MTyped
      <4>3. CASE Skipped(n, r, rest)
        BY <4>3 DEF Skipped, MTyped
      <4>4. CASE FoundCycle(n, r, rest)
        BY <4>4 DEF FoundCycle, MTyped
      <4> QED BY <4>1, <4>2, <4>3, <4>4
    <3> QED BY <3>1, <3>2 DEF MTyped, FrameSet, Revs, Parents
  <2>3. CASE Deliver
    BY <2>3 DEF Deliver, MTyped, FrameSet, Revs, Parents
  <2>4. CASE HasEnded
    BY <1>1, <2>4 DEF HasEnded
  <2> QED BY <1>2, <2>1, <2>2, <2>3, <2>4, Pops DEF MergeNext
<1> QED BY <1>1, <1>2

\* The stack has the tip, and nothing is completed.
LEMMA MergeInvInit == MergeInit => MergeInv
<1> SUFFICES ASSUME MergeInit PROVE MergeInv
  OBVIOUS
<1>1. /\ lineage \in Lineages /\ unvisited = Revs \ {Tip}
      /\ continued = IF HasFirst(Tip) THEN {FirstParent(Tip)} ELSE {}
      /\ revno = [r \in Revs |-> <<>>]
      /\ spawned = [b \in 0 .. Cardinality(Revs) |-> IF b = 0 THEN -1 ELSE 0]
      /\ scheduled = <<>> /\ outcome = "sorting"
  BY DEF MergeInit
<1> DEFINE top == [name |-> Tip, depth |-> 0, left |-> FALSE, todo |-> lineage[Tip], first |-> HasFirst(Tip)]
<1>2. frames = <<top>>
  BY DEF MergeInit
<1>3. Tip \in Revs /\ IsFiniteSet(Revs)
  BY <1>1, MergeSortAssumption DEF Revs
<1>4. lineage[Tip] \in Seq(Parents)
  <2>1. lineage[Tip] \in Seq(ToSet(lineage[Tip]))
    BY <1>1, <1>3, MergeSortAssumption DEF Revs
  <2>2. ToSet(lineage[Tip]) \subseteq Parents
    BY <1>3 DEF Parents
  <2> QED BY <2>1, <2>2
<1>5. HasFirst(Tip) \in BOOLEAN /\ (HasFirst(Tip) => FirstParent(Tip) \in Revs)
  BY DEF HasFirst, FirstParent
<1>6. top \in FrameSet
  BY <1>3, <1>4, <1>5 DEF FrameSet
<1>7. /\ Len(frames) = 1 /\ frames[1].name = Tip /\ frames[1].depth = 0 /\ ~frames[1].left
      /\ frames[1].todo = lineage[Tip] /\ frames[1].first = HasFirst(Tip) /\ frames # <<>>
  BY <1>2
<1>8. Cardinality(Revs) \in Nat
  BY <1>3, FS_CardinalityType
<1>9. MTyped
  <2>1. frames \in Seq(FrameSet)
    <3> HIDE DEF top
    <3> QED BY <1>2, <1>6
  <2>2. spawned \in [0 .. Cardinality(Revs) -> Int] /\ revno \in [Revs -> Seq(Int)]
    BY <1>1, <1>8
  <2>3. scheduled \in Seq([name : Revs, depth : Nat])
    BY <1>1
  <2> QED BY <1>1, <1>5, <2>1, <2>2, <2>3 DEF MTyped
<1> HIDE DEF top
<1>10. Completed = {} /\ OnMainline = {} /\ OnStack = {Tip} /\ Main = {Tip}
  <2>1. \A x : x \notin Completed /\ x \notin OnMainline
    BY <1>1, <1>9, Held
  <2>2. \A x : x \in OnStack <=> x = Tip
    BY <1>7, <1>9, Held
  <2>3. \A x : x \in Main <=> x = Tip
    BY <1>7, <1>9, <2>1, Held
  <2> QED BY <2>1, <2>2, <2>3
<1>11. \A i \in 1 .. 1 : i = 1
  OBVIOUS
<1>12. Placed
  <2>1. Len(scheduled) = Cardinality(Completed)
    BY <1>1, <1>10, FS_EmptySet
  <2>2. Tip \in Reached
    BY <1>9, ReachedClosed
  <2> QED BY <1>1, <1>3, <1>7, <1>10, <1>11, <2>1, <2>2 DEF Placed
<1>13. Path
  BY <1>7, <1>11 DEF Path, ParentsOf
<1>14. Ordered
  BY <1>1 DEF Ordered
<1>15. Ends
  BY <1>1 DEF Ends
<1>16. Mainline
  BY <1>7, <1>10, <1>11 DEF Mainline
<1>17. Continued
  BY <1>1, <1>3, <1>7, <1>10, <1>11 DEF Continued
<1>18. Numbered
  <2>1. 0 \in 0 .. Cardinality(Revs) /\ \A b \in 1 .. Cardinality(Revs) : b \in 0 .. Cardinality(Revs) /\ b # 0
    BY <1>8
  <2> QED BY <1>1, <1>10, <2>1 DEF Numbered
<1>19. Single
  BY <1>7, <1>10, <1>11 DEF Single
<1> QED BY <1>9, <1>12, <1>13, <1>14, <1>15, <1>16, <1>17, <1>18, <1>19 DEF MergeInv

\* Every step keeps the invariant.
LEMMA MergeInvStep == MergeInv /\ [MergeNext]_mergevars => MergeInv'
<1> SUFFICES ASSUME MergeInv, [MergeNext]_mergevars PROVE MergeInv'
  OBVIOUS
<1>1. MTyped /\ Placed /\ Path /\ Ordered /\ Ends /\ Mainline /\ Continued /\ Numbered /\ Single
  BY DEF MergeInv
<1>2. MTyped'
  BY <1>1, MergeTypedStep
<1>3. ASSUME UNCHANGED <<lineage, unvisited, frames, continued, revno, spawned, scheduled>>, Ends'
      PROVE  MergeInv'
  BY <1>1, <1>2, <1>3, MergeStill DEF MergeInv
<1>4. CASE UNCHANGED mergevars
  <2>1. Ends'
    BY <1>1, <1>4, SameLineage DEF Ends, mergevars
  <2> QED BY <1>3, <1>4, <2>1 DEF mergevars
<1>5. ASSUME NEW n, NEW r, NEW rest, Pushed(n, r, rest) PROVE MergeInv'
  <2>1. Placed' /\ Path' /\ Mainline' /\ Continued' /\ Single'
    BY <1>1, <1>2, <1>5, PlacedPush, PathPush, MainlinePush, ContinuedPush, SinglePush
  <2>2. /\ Completed' = Completed /\ lineage' = lineage /\ scheduled' = scheduled
        /\ revno' = revno /\ spawned' = spawned /\ outcome' = "sorting"
    BY <1>1, <1>2, <1>5, AfterPush DEF Pushed, Looked
  <2>3. Ordered'
    BY <1>1, <2>2, SameLineage DEF Ordered
  <2>4. Numbered'
    BY <1>1, <2>2, SameLineage DEF Numbered
  <2>5. Ends'
    BY <2>2 DEF Ends
  <2> QED BY <1>2, <2>1, <2>3, <2>4, <2>5 DEF MergeInv
<1>6. ASSUME NEW n, NEW r, NEW rest, Skipped(n, r, rest) PROVE MergeInv'
  <2>1. Placed' /\ Path' /\ Mainline' /\ Continued' /\ Single'
    BY <1>1, <1>2, <1>6, PlacedSkip, PathSkip, MainlineSkip, ContinuedSkip, SingleSkip
  <2>2. /\ Completed' = Completed /\ lineage' = lineage /\ scheduled' = scheduled
        /\ revno' = revno /\ spawned' = spawned /\ outcome' = "sorting"
    BY <1>1, <1>2, <1>6, AfterSkip DEF Skipped, Looked
  <2>3. Ordered'
    BY <1>1, <2>2, SameLineage DEF Ordered
  <2>4. Numbered'
    BY <1>1, <2>2, SameLineage DEF Numbered
  <2>5. Ends'
    BY <2>2 DEF Ends
  <2> QED BY <1>2, <2>1, <2>3, <2>4, <2>5 DEF MergeInv
<1>7. ASSUME NEW n, NEW r, NEW rest, FoundCycle(n, r, rest) PROVE MergeInv'
  <2>1. /\ UNCHANGED <<lineage, unvisited, frames, continued, revno, spawned, scheduled>>
        /\ outcome' = "GraphCycleError"
    BY <1>7 DEF FoundCycle, Looked
  <2>2. LeadsToCycle
    BY <1>1, <1>7, CycleFound
  <2>3. Ends'
    BY <2>1, <2>2, SameLineage DEF Ends
  <2> QED BY <1>3, <2>1, <2>3
<1>8. CASE Pop /\ Popped(Len(frames))
  <2> DEFINE n == Len(frames)
  <2>1. Popped(n) /\ n = Len(frames)
    BY <1>8
  <2> HIDE DEF n
  <2>2. Nexts(n) \/ \E base : Starts(n, base)
    BY <1>1, <1>8, <2>1, PopNumbers
  <2>3. Placed' /\ Path' /\ Ordered' /\ Mainline'
    BY <1>1, <1>2, <2>1, PlacedPop, PathPop, OrderedPop, MainlinePop
  <2>4. Continued' /\ Numbered'
    BY <1>1, <1>2, <2>1, <2>2, ContinuedPop, NumberedPop
  <2>5. Single'
    BY <1>1, <1>2, <2>1, <2>2, <2>3, SinglePop
  <2>6. Ends'
    BY <2>1 DEF Popped, Ends
  <2> QED BY <1>2, <2>3, <2>4, <2>5, <2>6 DEF MergeInv
<1>9. CASE Deliver
  <2>1. /\ UNCHANGED <<lineage, unvisited, frames, continued, revno, spawned, scheduled>>
        /\ frames = <<>> /\ outcome' = "sorted"
    BY <1>9 DEF Deliver
  <2>2. Ends'
    BY <2>1 DEF Ends
  <2> QED BY <1>3, <2>1, <2>2
<1>10. CASE HasEnded
  BY <1>4, <1>10 DEF HasEnded
<1> QED BY <1>1, <1>4, <1>5, <1>6, <1>7, <1>8, <1>9, <1>10, MergeCases

\* What is in order, parents first, has no cycle.
LEMMA OrderHasNoCycle ==
  ASSUME MTyped, Ordered, NEW S \in SUBSET Completed, S # {}, \A r \in S : ParentsOf(r) \cap S # {}
  PROVE  FALSE
<1> DEFINE T == {i \in 1 .. Len(scheduled) : scheduled[i].name \in S}
<1>1. T \subseteq Nat /\ T # {}
  BY Held
<1>2. PICK i \in T : \A j \in T : i <= j
  <2> HIDE DEF T
  <2> QED BY <1>1, LeastNat
<1>3. i \in 1 .. Len(scheduled) /\ scheduled[i].name \in S /\ Len(scheduled) \in Nat
  BY Held
<1>4. PICK p \in ParentsOf(scheduled[i].name) : p \in S
  BY <1>3
<1>5. PICK j \in 1 .. i - 1 : scheduled[j].name = p
  BY <1>3, <1>4 DEF Ordered
<1>6. j \in T /\ ~(i <= j)
  BY <1>3, <1>4, <1>5
<1> QED BY <1>2, <1>6

\* When the stack is empty, what is completed is closed under parents and has the tip.
LEMMA InvNumbersRight == MergeInv => RevnosAreRight
<1> SUFFICES ASSUME MergeInv PROVE RevnosAreRight
  OBVIOUS
<1>1. MTyped /\ Placed /\ Path /\ Ordered /\ Ends /\ Mainline /\ Continued /\ Numbered /\ Single
  BY DEF MergeInv
<1>2. outcome = "GraphCycleError" => LeadsToCycle
  BY <1>1 DEF Ends
<1> DEFINE Right ==
       /\ ~LeadsToCycle
       /\ Completed = Reached /\ Len(scheduled) = Cardinality(Reached)
       /\ \A i \in DOMAIN scheduled : \A p \in ParentsOf(scheduled[i].name) :
            \E j \in 1 .. i - 1 : scheduled[j].name = p
       /\ Tip \in OnMainline
       /\ \A r \in OnMainline :
            /\ r = Tip \/ \E c \in OnMainline : HasFirst(c) /\ FirstParent(c) = r
            /\ HasFirst(r) => FirstParent(r) \in OnMainline
       /\ (\A r \in OnMainline : lineage[r] = <<>> \/ HasFirst(r)) =>
            /\ \A r \in OnMainline :
                 revno[r] = IF HasFirst(r) THEN <<revno[FirstParent(r)][1] + 1>> ELSE <<1>>
            /\ \A r \in Reached \ OnMainline : Len(revno[r]) = 3
       /\ \A r, s \in Reached : revno[r] = revno[s] => r = s
<1>3. ASSUME outcome = "sorted" PROVE Right
  <2>1. frames = <<>> /\ Len(frames) = 0
    BY <1>1, <1>3 DEF Ends
  <2>2. /\ \A x : x \notin OnStack
        /\ \A x : x \in Main <=> x \in OnMainline
    BY <1>1, <2>1, Held
  <2>3. Main = OnMainline /\ OnStack = {}
    BY <2>2
  <2>4. DOMAIN scheduled = 1 .. Len(scheduled)
    <3>1. scheduled \in Seq([name : Revs, depth : Nat])
      BY <1>1 DEF MTyped
    <3> HIDE DEF Right
    <3> QED BY <3>1, Elements
  <2>5. \A i \in 1 .. Len(scheduled) : \A p \in ParentsOf(scheduled[i].name) :
          \E j \in 1 .. i - 1 : scheduled[j].name = p
    BY <1>1 DEF Ordered
  <2>6. Completed = Reached
    <3>1. Tip \in Completed /\ Completed \in SUBSET Revs
      BY <1>1, <2>1, Held DEF Placed
    <3>2. ASSUME NEW c \in Completed PROVE ParentsOf(c) \subseteq Completed
      <4>1. PICK i \in 1 .. Len(scheduled) : scheduled[i].name = c
        BY <1>1, Held
      <4>2. ASSUME NEW p \in ParentsOf(c) PROVE p \in Completed
        <5>1. PICK j \in 1 .. i - 1 : scheduled[j].name = p
          BY <2>5, <4>1
        <5>2. j \in 1 .. Len(scheduled)
          BY <1>1, <5>1, Held
        <5> QED BY <1>1, <5>1, <5>2, Held
      <4> QED BY <4>2
    <3>3. Reached \subseteq Completed
      BY <1>1, <3>1, <3>2, ReachedClosed
    <3>4. Completed \subseteq Reached
      BY <1>1, <3>1 DEF Placed
    <3> QED BY <3>3, <3>4
  <2>7. ~LeadsToCycle
    BY <1>1, <2>6, OrderHasNoCycle DEF LeadsToCycle
  <2>8. Len(scheduled) = Cardinality(Reached)
    BY <1>1, <2>6 DEF Placed
  <2>9. /\ Tip \in OnMainline
        /\ \A r \in OnMainline :
             /\ r = Tip \/ \E c \in OnMainline : HasFirst(c) /\ FirstParent(c) = r
             /\ HasFirst(r) => FirstParent(r) \in OnMainline
    BY <1>1, <2>3 DEF Mainline
  <2>10. (\A r \in OnMainline : lineage[r] = <<>> \/ HasFirst(r)) =>
           /\ \A r \in OnMainline :
                revno[r] = IF HasFirst(r) THEN <<revno[FirstParent(r)][1] + 1>> ELSE <<1>>
           /\ \A r \in Reached \ OnMainline : Len(revno[r]) = 3
    BY <1>1, <2>3, <2>6 DEF Single, NoGhostEnds
  <2>11. \A r, s \in Reached : revno[r] = revno[s] => r = s
    BY <1>1, <2>6 DEF Numbered
  <2> QED BY <2>4, <2>5, <2>6, <2>7, <2>8, <2>9, <2>10, <2>11
<1> QED BY <1>2, <1>3 DEF RevnosAreRight

(* For any graph, sorting lists what the tip leads to once each, parents      *)
(* before children, with numbers no two revisions share, those of the         *)
(* left-hand line single ones; or it finds a cycle, and there is one.         *)
THEOREM NumbersRight == MergeSpec => []RevnosAreRight
<1>1. MergeInit => MergeInv
  BY MergeInvInit
<1>2. MergeInv /\ [MergeNext]_mergevars => MergeInv'
  BY MergeInvStep
<1>3. MergeInv => RevnosAreRight
  BY InvNumbersRight
<1> QED BY <1>1, <1>2, <1>3, PTL DEF MergeSpec
=============================================================================
