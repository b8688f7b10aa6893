------------------------------- MODULE ChkMap -------------------------------
(***************************************************************************)
(* CHKMap (bzrlib/chk_map.py): a dictionary kept as a trie of nodes that   *)
(* are named by the sha1 of their bytes.  A node is modelled by its value, *)
(* so two nodes are equal when they have the same key; whether a node is   *)
(* in memory or has to be read makes no difference here.  A leaf holds     *)
(* items, a node has children by search prefix.  Search keys are hashes,   *)
(* all of one length; different keys may have the same one.                *)
(***************************************************************************)
EXTENDS Integers, Sequences, FiniteSets, SequencesExt

CONSTANTS
  Keys,       \* the keys that may be mapped
  SearchKey,  \* _search_key_func: a sequence of numbers for each key
  Serialised, \* _serialise_key: another one, whose common prefix a leaf saves once
  Sizes,      \* the values, told apart by their length only
  MaxSize,    \* maximum_size of a leaf
  NewSize,    \* _INTERESTING_NEW_SIZE and
  Shrinkage,  \* _INTERESTING_SHRINKAGE_LIMIT: when a smaller leaf is worth a remap
  MaxDelta,   \* bound: items dropped, and items set, by one apply_delta
  Orders      \* the orders in which a dict or a delta may yield its items

ASSUME ChkMapAssumption ==
  /\ Sizes \subseteq Nat \ {0} /\ MaxSize \in Nat /\ MaxDelta \in Nat
  /\ \A k, l \in Keys : Len(SearchKey[k]) = Len(SearchKey[l])
  /\ \A k, l \in Keys :
       Front(SearchKey[k]) = Front(SearchKey[l]) => SearchKey[k] = SearchKey[l]
  /\ \A o \in Orders : Range(o) = Keys

VARIABLES
  root,       \* _root_node
  mapped,     \* what the map should hold
  basis,      \* an earlier root node that was saved, and what it held
  regular     \* history: every change so far was one that keeps the form canonical

chkvars == <<root, mapped, basis, regular>>

RECURSIVE Items(_), LeafMap(_, _, _, _), NodeMap(_, _, _, _), SplitInto(_, _, _, _),
          Unmap(_, _, _), Canonical(_), Found(_, _), Diff(_, _, _)

NoItems == [k \in {} |-> 0]
With(f, k, v) == [x \in DOMAIN f \cup {k} |-> IF x = k THEN v ELSE f[x]]
Only(f, ks) == [x \in DOMAIN f \cap ks |-> f[x]]
Longest(seqs) ==
  CHOOSE p \in UNION {Prefixes(s) : s \in seqs} :
    /\ \A s \in seqs : IsPrefix(p, s)
    /\ \A s \in seqs : Len(s) > Len(p) =>
         ~\A u \in seqs : IsPrefix(SubSeq(s, 1, Len(p) + 1), u)

-----------------------------------------------------------------------------
(* Nodes *)

Leaf(items) == [leaf |-> TRUE, items |-> items, prefix |-> <<>>, kids |-> NoItems]
Node(prefix, kids) == [leaf |-> FALSE, items |-> NoItems, prefix |-> prefix, kids |-> kids]

SearchPrefix(ks) == Longest({SearchKey[k] : k \in ks})
Path(node, k) == SubSeq(SearchKey[k], 1, Len(node.prefix) + 1)

\* _current_size, without the header, which is of the same length everywhere.
RECURSIVE SizeSum(_, _)
SizeSum(items, ks) ==
  IF ks = {} THEN 0
  ELSE LET k == CHOOSE x \in ks : TRUE
       IN Len(Serialised[k]) + items[k] + SizeSum(items, ks \ {k})
LeafSize(items) ==
  IF DOMAIN items = {} THEN 0
  ELSE LET common == Len(Longest({Serialised[k] : k \in DOMAIN items}))
       IN SizeSum(items, DOMAIN items) - common * (Cardinality(DOMAIN items) - 1)

\* A leaf whose search keys are all the same cannot be split.
Overflows(items) ==
  /\ Cardinality({SearchKey[k] : k \in DOMAIN items}) > 1
  /\ LeafSize(items) > MaxSize

Items(node) ==
  IF node.leaf THEN node.items
  ELSE LET below == [p \in DOMAIN node.kids |-> Items(node.kids[p])]
           ks == UNION {DOMAIN below[p] : p \in DOMAIN below}
       IN [k \in ks |-> below[CHOOSE p \in DOMAIN below : k \in DOMAIN below[p]][k]]

\* iteritems with a key filter goes down the path of the key.
Found(node, k) ==
  IF node.leaf THEN k \in DOMAIN node.items
  ELSE Path(node, k) \in DOMAIN node.kids /\ Found(node.kids[Path(node, k)], k)

-----------------------------------------------------------------------------
(* Map *)

\* LeafNode._split: item by item into leaves one symbol further down.  A leaf that
\* overflows again becomes a node; an item that does not belong under the prefix of
\* that node makes its map() return a new parent, which _split does not look at.
Resplit(node, k, v, order) ==
  IF node.leaf THEN LeafMap(node.items, k, v, order)
  ELSE IF IsPrefix(node.prefix, SearchKey[k]) THEN NodeMap(node, k, v, order)
  ELSE node
SplitInto(node, items, todo, order) ==
  IF todo = <<>> THEN node
  ELSE SplitInto(Resplit(node, Head(todo), items[Head(todo)], order), items,
                 Tail(todo), order)
Split(items, order) ==
  LET at == Len(SearchPrefix(DOMAIN items)) + 1
      short == [k \in DOMAIN items |-> SubSeq(SearchKey[k], 1, at)]
      under(p) == SelectSeq(order, LAMBDA k : k \in DOMAIN items /\ short[k] = p)
  IN Node(SearchPrefix(DOMAIN items),
          [p \in Range(short) |-> SplitInto(Leaf(NoItems), items, under(p), order)])

LeafMap(items, k, v, order) ==
  IF Overflows(With(items, k, v)) THEN Split(With(items, k, v), order)
  ELSE Leaf(With(items, k, v))

\* InternalNode._check_remap: may all children go into one leaf?
MutCheckRemap(node) ==
  IF \A p \in DOMAIN node.kids : node.kids[p].leaf THEN Leaf(Items(node)) ELSE node
CheckRemap(node) ==
  IF (\E p \in DOMAIN node.kids : ~node.kids[p].leaf) \/ Overflows(Items(node))
  THEN node ELSE Leaf(Items(node))

\* Whether a child that was changed makes the node look.
WorthRemap(before, after) ==
  /\ after.leaf
  /\ \/ ~before.leaf
     \/ LET lost == LeafSize(before.items) - LeafSize(after.items)
        IN (lost > 0 /\ LeafSize(after.items) < NewSize) \/ lost > Shrinkage

\* InternalNode.map; a key from elsewhere gets a new parent for both.
MutNewParent(node, k) == Node(Longest({node.prefix, SearchKey[k]}), NoItems)
NewParent(node, k) ==
  LET prefix == Longest({node.prefix, SearchKey[k]})
  IN Node(prefix, [p \in {SubSeq(node.prefix, 1, Len(prefix) + 1)} |-> node])
NodeMap(node, k, v, order) ==
  IF ~IsPrefix(node.prefix, SearchKey[k]) THEN NodeMap(NewParent(node, k), k, v, order)
  ELSE LET at == Path(node, k)
           before == IF at \in DOMAIN node.kids THEN node.kids[at] ELSE Leaf(NoItems)
           after == IF before.leaf THEN LeafMap(before.items, k, v, order)
                    ELSE NodeMap(before, k, v, order)
           changed == [node EXCEPT !.kids = With(@, at, after)]
       IN IF WorthRemap(before, after) THEN CheckRemap(changed) ELSE changed

MapIn(node, k, v, order) ==
  IF node.leaf THEN LeafMap(node.items, k, v, order) ELSE NodeMap(node, k, v, order)

-----------------------------------------------------------------------------
(* Unmap *)

\* A child without items goes; a node with one child is replaced by it.
Unmap(node, k, checkRemap) ==
  IF node.leaf THEN Leaf(Only(node.items, DOMAIN node.items \ {k}))
  ELSE LET at == Path(node, k)
           after == Unmap(node.kids[at], k, TRUE)
           kids == IF Items(after) = NoItems
                   THEN Only(node.kids, DOMAIN node.kids \ {at})
                   ELSE With(node.kids, at, after)
           changed == [node EXCEPT !.kids = kids]
       IN IF Cardinality(DOMAIN kids) = 1 THEN kids[CHOOSE p \in DOMAIN kids : TRUE]
          ELSE IF ~after.leaf \/ ~checkRemap THEN changed
          ELSE CheckRemap(changed)

-----------------------------------------------------------------------------
(* apply_delta: first what goes, without a remap of the root, then what comes *)

RECURSIVE UnmapAll(_, _), MapAll(_, _, _, _)
UnmapAll(node, todo) ==
  IF todo = <<>> THEN node ELSE UnmapAll(Unmap(node, Head(todo), FALSE), Tail(todo))
MapAll(node, new, todo, order) ==
  IF todo = <<>> THEN node
  ELSE MapAll(MapIn(node, Head(todo), new[Head(todo)], order), new, Tail(todo), order)
Sorted(order, ks) == SelectSeq(order, LAMBDA k : k \in ks)
ApplyDelta(node, gone, new, order) ==
  LET changed == MapAll(UnmapAll(node, Sorted(order, gone)), new,
                        Sorted(order, DOMAIN new), order)
  IN IF gone # {} /\ ~changed.leaf THEN CheckRemap(changed) ELSE changed

\* from_dict (_create_directly): all items go into one leaf, which is split at once;
\* an AssertionError when no split is possible.
Splittable(items) ==
  \/ Cardinality({SearchKey[k] : k \in DOMAIN items}) > 1
  \/ Cardinality(DOMAIN items) <= 1 \/ LeafSize(items) <= MaxSize
FromDict(items, order) == IF Overflows(items) THEN Split(items, order) ELSE Leaf(items)

-----------------------------------------------------------------------------
(* iter_changes *)

\* What is pending on a heap: the values of a leaf by search key, the children of a
\* node by prefix.  Equal nodes are never read.
NoKey == <<>>
Pending(node) ==
  IF node.leaf
  THEN {[prefix |-> SearchKey[k], key |-> <<k>>, it |-> <<node.items[k]>>] : k \in DOMAIN node.items}
  ELSE {[prefix |-> p, key |-> NoKey, it |-> <<node.kids[p]>>] : p \in DOMAIN node.kids}
Before(p, q) ==
  \/ IsPrefix(p, q) /\ p # q
  \/ \E i \in 1 .. Len(p) : i <= Len(q) /\ p[i] < q[i] /\ SubSeq(p, 1, i - 1) = SubSeq(q, 1, i - 1)
First(heap) ==
  CHOOSE e \in heap : \A f \in heap \ {e} :
    \/ Before(e.prefix, f.prefix)
    \/ e.prefix = f.prefix /\ Before(Serialised[e.key[1]], Serialised[f.key[1]])

Value(items, k) == IF k \in DOMAIN items THEN <<items[k]>> ELSE <<>>
Report(e, old) == {[key |-> k, old |-> IF old THEN <<v>> ELSE <<>>,
                    new |-> IF old THEN <<>> ELSE <<v>>] : <<k, v>> \in
                   IF e.key # NoKey THEN {<<e.key[1], e.it[1]>>}
                   ELSE {<<k, Items(e.it[1])[k]>> : k \in DOMAIN Items(e.it[1])}}
\* Two nodes or two leaves drop what they have in common.
MutExpand(new, old) == <<Pending(new) \ Pending(old), Pending(old)>>
Expand(new, old) ==
  IF new.leaf = old.leaf
  THEN <<Pending(new) \ Pending(old), Pending(old) \ Pending(new)>>
  ELSE <<Pending(new), Pending(old)>>

Diff(new, old, seen) ==
  IF new = {} THEN seen \cup UNION {Report(e, TRUE) : e \in old}
  ELSE IF old = {} THEN seen \cup UNION {Report(e, FALSE) : e \in new}
  ELSE
  LET n == First(new)
      o == First(old)
  IN CASE Before(n.prefix, o.prefix) /\ n.key # NoKey ->
            Diff(new \ {n}, old, seen \cup Report(n, FALSE))
       [] Before(n.prefix, o.prefix) /\ n.key = NoKey ->
            Diff((new \ {n}) \cup Pending(n.it[1]), old, seen)
       [] Before(o.prefix, n.prefix) /\ o.key # NoKey ->
            Diff(new, old \ {o}, seen \cup Report(o, TRUE))
       [] Before(o.prefix, n.prefix) /\ o.key = NoKey ->
            Diff(new, (old \ {o}) \cup Pending(o.it[1]), seen)
       [] n.prefix = o.prefix /\ n.key # NoKey /\ o.key # NoKey ->
            \* two values: only these are compared, not the keys
            Diff(new \ {n}, old \ {o},
                 IF n.it = o.it THEN seen
                 ELSE seen \cup {[key |-> n.key[1], old |-> o.it, new |-> n.it]})
       [] n.prefix = o.prefix /\ n.key = NoKey /\ o.key = NoKey ->
            LET both == IF n.it = o.it THEN <<{}, {}>> ELSE Expand(n.it[1], o.it[1])
            IN Diff((new \ {n}) \cup both[1], (old \ {o}) \cup both[2], seen)

IterChanges(new, old) ==
  IF new = old THEN {}
  ELSE LET both == Expand(new, old) IN Diff(both[1], both[2], {})

-----------------------------------------------------------------------------
ChkInit ==
  /\ root = Leaf(NoItems) /\ mapped = NoItems
  /\ basis = [node |-> root, items |-> mapped] /\ regular = TRUE

\* map(): a shorter value may leave a leaf that should be merged.
Map(k, v, order) ==
  /\ root' = MapIn(root, k, v, order)
  /\ mapped' = With(mapped, k, v)
  /\ regular' = (regular /\ (k \in DOMAIN mapped => mapped[k] <= v))
  /\ UNCHANGED basis

UnmapKey(k) ==
  /\ Found(root, k)
  /\ root' = Unmap(root, k, TRUE)
  /\ mapped' = Only(mapped, DOMAIN mapped \ {k})
  /\ UNCHANGED <<basis, regular>>

\* An item that is there is set by an entry that names its key as the old one, too.
Delta(gone, ks, order) ==
  \E new \in [ks -> Sizes] :
    /\ \A k \in gone : Found(root, k)
    /\ root' = ApplyDelta(root, gone, new, order)
    /\ mapped' = [k \in (DOMAIN mapped \ gone) \cup ks |->
                    IF k \in ks THEN new[k] ELSE mapped[k]]
    /\ regular' = (regular /\ (gone = {} \/ ks = {})
                    /\ \A k \in ks \cap DOMAIN mapped : mapped[k] <= new[k])
    /\ UNCHANGED basis

\* The whole map is written anew.
CreateDirectly(order) ==
  /\ Splittable(mapped)
  /\ root' = FromDict(mapped, order)
  /\ regular' = TRUE
  /\ UNCHANGED <<mapped, basis>>

Save ==
  /\ basis' = [node |-> root, items |-> mapped]
  /\ UNCHANGED <<root, mapped, regular>>

ChkNext ==
  \/ \E k \in Keys, v \in Sizes, order \in Orders : Map(k, v, order)
  \/ \E k \in Keys : UnmapKey(k)
  \/ \E gone, ks \in SUBSET Keys, order \in Orders :
       /\ gone \cap ks = {} /\ Cardinality(gone) <= MaxDelta /\ Cardinality(ks) <= MaxDelta
       /\ Delta(gone, ks, order)
  \/ \E order \in Orders : CreateDirectly(order)
  \/ Save
ChkSpec == ChkInit /\ [][ChkNext]_chkvars

-----------------------------------------------------------------------------
(* Properties *)

(* "The CHKMap class implements a dict from tuple_of_strings->string"         *)
(* (chk_map.py): after any maps, unmaps, splits and collapses it holds what   *)
(* was put in, where a lookup finds it.                                       *)
HoldsItsItems == Items(root) = mapped /\ \A k \in DOMAIN mapped : Found(root, k)

\* The one form of a map: nodes exist where a leaf would overflow.
Canonical(items) ==
  IF ~Overflows(items) THEN Leaf(items)
  ELSE LET prefix == SearchPrefix(DOMAIN items)
           at(k) == SubSeq(SearchKey[k], 1, Len(prefix) + 1)
       IN Node(prefix, [p \in {at(k) : k \in DOMAIN items} |->
                          Canonical(Only(items, {k \in DOMAIN items : at(k) = p}))])

(* assertCanonicalForm (test_chk_map.py): maps with the same items have the   *)
(* same layout and so the same key, in whatever order items came and others   *)
(* went; unless a value was replaced by a shorter one, or one delta both      *)
(* removed and added items.                                                   *)
RegularFormIsCanonical == regular => root = Canonical(mapped)

Differences ==
  {[key |-> k, old |-> Value(basis.items, k), new |-> Value(mapped, k)] :
     k \in {x \in DOMAIN mapped \cup DOMAIN basis.items :
              Value(basis.items, x) # Value(mapped, x)}}
NoCollisions ==
  \A k, l \in DOMAIN mapped \cup DOMAIN basis.items : SearchKey[k] = SearchKey[l] => k = l

(* iter_changes, which never reads what two maps have in common, tells        *)
(* exactly what is different between them, whatever their layouts, as long as *)
(* no two keys have the same search key.                                      *)
ChangesAreRightApart == NoCollisions => IterChanges(root, basis.node) = Differences
=============================================================================
