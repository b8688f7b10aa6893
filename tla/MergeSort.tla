------------------------------ MODULE MergeSort ------------------------------
(***************************************************************************)
(* MergeSorter of bzrlib/tsort.py: the revisions a branch tip leads to, in *)
(* an order in which merges stay together, with the dotted revision        *)
(* numbers users see.  A depth-first search visits the left-hand parent of *)
(* a revision first and the merged ones from right to left; a revision is  *)
(* numbered when it leaves the stack, after its left-hand parent, but      *)
(* whether it continues that parent's line is settled when it enters it.   *)
(* One turn of the search is a step.                                       *)
(***************************************************************************)
EXTENDS Integers, FiniteSets, SequencesExt

CONSTANTS
  Lineages, \* the graphs: from revisions to the sequences of their parents
  Tip        \* branch_tip, a revision of all of them

ASSUME MergeSortAssumption ==
  \A h \in Lineages :
    Tip \in DOMAIN h /\ IsFiniteSet(DOMAIN h) /\ \A r \in DOMAIN h : h[r] \in Seq(ToSet(h[r]))

VARIABLES
  lineage,   \* _original_graph; what is only a parent in it is a ghost
  unvisited, \* the revisions that are left in _graph
  frames,    \* the five stacks, as one
  continued, \* the revisions some child of which has entered the stack
  revno,     \* revno[r]: <<>> for None
  spawned,   \* _revno_to_branch_count
  scheduled, \* _scheduled_nodes: names with their merge depths
  outcome

mergevars == <<lineage, unvisited, frames, continued, revno, spawned, scheduled, outcome>>

Revs == DOMAIN lineage
\* The left-hand parent, if there is one and it is no ghost.
HasFirst(r) == lineage[r] # <<>> /\ Head(lineage[r]) \in Revs
FirstParent(r) == Head(lineage[r])

\* push_node: only the first child of its left-hand parent continues its line.
Frame(r, depth) ==
  [name |-> r, depth |-> depth, left |-> FALSE, todo |-> lineage[r],
   first |-> HasFirst(r) /\ FirstParent(r) \notin continued]
MutContinue(r) == continued
Continue(r) == continued \cup (IF HasFirst(r) THEN {FirstParent(r)} ELSE {})

MergeInit ==
  /\ lineage \in Lineages
  /\ unvisited = Revs \ {Tip}
  /\ frames = <<[name |-> Tip, depth |-> 0, left |-> FALSE, todo |-> lineage[Tip],
                 first |-> HasFirst(Tip)]>>
  /\ continued = IF HasFirst(Tip) THEN {FirstParent(Tip)} ELSE {}
  /\ revno = [r \in Revs |-> <<>>]
  /\ spawned = [b \in 0 .. Cardinality(Revs) |-> IF b = 0 THEN -1 ELSE 0]
  /\ scheduled = <<>> /\ outcome = "sorting"

Completed == {scheduled[i].name : i \in DOMAIN scheduled}

\* A parent of the revision on top: the left-hand one first, then from the right.
Visit ==
  LET top == Last(frames)
      r == IF top.left THEN Last(top.todo) ELSE Head(top.todo)
      rest == IF top.left THEN Front(top.todo) ELSE Tail(top.todo)
      below == Append(Front(frames), [top EXCEPT !.left = TRUE, !.todo = rest])
  IN  /\ outcome = "sorting" /\ frames # <<>> /\ top.todo # <<>>
      /\ \/ /\ r \in unvisited
            /\ unvisited' = unvisited \ {r}
            /\ frames' = Append(below, Frame(r, top.depth + (IF top.left THEN 1 ELSE 0)))
            /\ continued' = Continue(r)
            /\ UNCHANGED outcome
         \/ /\ r \in Completed \/ r \notin Revs
            /\ frames' = below
            /\ UNCHANGED <<unvisited, continued, outcome>>
         \/ /\ r \in Revs \ (unvisited \cup Completed)
            /\ outcome' = "GraphCycleError"
            /\ UNCHANGED <<unvisited, frames, continued>>
      /\ UNCHANGED <<lineage, revno, spawned, scheduled>>

\* pop_node: the next number on the line of the left-hand parent, or a new line.
NewLine(base) ==
  /\ spawned' = [spawned EXCEPT ![base] = @ + 1]
  /\ revno' = [revno EXCEPT ![Last(frames).name] =
                IF base = 0 /\ spawned'[0] = 0 THEN <<1>> ELSE <<base, spawned'[base], 1>>]
Pop ==
  LET top == Last(frames)
      numbered == HasFirst(top.name) /\ revno[FirstParent(top.name)] # <<>>
      before == revno[FirstParent(top.name)]
  IN  /\ outcome = "sorting" /\ frames # <<>> /\ top.todo = <<>>
      /\ \/ numbered /\ ~top.first /\ NewLine(Head(before))
         \/ /\ numbered /\ top.first
            /\ revno' = [revno EXCEPT ![top.name] = Append(Front(before), Last(before) + 1)]
            /\ UNCHANGED spawned
         \/ ~numbered /\ NewLine(0)
      /\ frames' = Front(frames)
      /\ scheduled' = Append(scheduled, [name |-> top.name, depth |-> top.depth])
      /\ UNCHANGED <<lineage, unvisited, continued, outcome>>

\* What is scheduled is then delivered from its end.
Deliver ==
  /\ outcome = "sorting" /\ frames = <<>>
  /\ outcome' = "sorted"
  /\ UNCHANGED <<lineage, unvisited, frames, continued, revno, spawned, scheduled>>
HasEnded == outcome # "sorting" /\ UNCHANGED mergevars

MergeNext == Visit \/ Pop \/ Deliver \/ HasEnded
MergeSpec == MergeInit /\ [][MergeNext]_mergevars

-----------------------------------------------------------------------------
(* Properties *)

ParentsOf(r) == ToSet(lineage[r]) \cap Revs
Reached ==
  {r \in Revs : \A S \in SUBSET Revs :
                  Tip \in S /\ (\A c \in S : ParentsOf(c) \subseteq S) => r \in S}
LeadsToCycle == \E S \in SUBSET Reached : S # {} /\ \A r \in S : ParentsOf(r) \cap S # {}
OnMainline == {scheduled[i].name : i \in {j \in DOMAIN scheduled : scheduled[j].depth = 0}}

(* What the tip leads to is listed once each, parents before their children    *)
(* (it is delivered the other way round), unless that has a cycle, which is    *)
(* noticed.  Depth 0 has the left-hand line of the tip, and that alone; unless *)
(* a ghost ends it, single numbers count it from 1, and only it has single     *)
(* numbers.  No two revisions have one number.                                 *)
RevnosAreRight ==
  /\ outcome = "GraphCycleError" => LeadsToCycle
  /\ outcome = "sorted" =>
       /\ ~LeadsToCycle
       /\ Completed = Reached /\ Len(scheduled) = Cardinality(Reached)
       /\ \A i \in DOMAIN scheduled : \A p \in ParentsOf(scheduled[i].name) :
            \E j \in 1 .. i - 1 : scheduled[j].name = p
       /\ Tip \in OnMainline
       /\ \A r \in OnMainline :
            /\ r = Tip \/ \E c \in OnMainline : HasFirst(c) /\ FirstParent(c) = r
            /\ HasFirst(r) => FirstParent(r) \in OnMainline
       /\ (\A r \in OnMainline : lineage[r] = <<>> \/ HasFirst(r)) =>
            /\ \A r \in OnMainline :
                 revno[r] = IF HasFirst(r) THEN <<revno[FirstParent(r)][1] + 1>> ELSE <<1>>
            /\ \A r \in Reached \ OnMainline : Len(revno[r]) = 3
       /\ \A r, s \in Reached : revno[r] = revno[s] => r = s
=============================================================================
