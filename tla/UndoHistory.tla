------------------------------ MODULE UndoHistory ------------------------------
(***************************************************************************)
(* ttyutils::undo::History over the buffer it points to: a tree of texts,   *)
(* one node per transaction that changed the buffer.  A text is a value;    *)
(* that set_text() replaces the whole buffer is part of PatchApplies.       *)
(* nodes_[i] is nodes[i + 1], so the root is node 1.                        *)
(***************************************************************************)
EXTENDS Naturals, Sequences

CONSTANTS
  Texts,     \* what the buffer may hold
  Empty,     \* the empty text
  MaxNodes,  \* bound: nodes of the tree
  MaxDepth,  \* bound: transactions open at a time
  MaxMarks   \* bound: checkpoints

ASSUME TextsAssumption == Empty \in Texts
ASSUME BoundsAssumption == MaxNodes \in Nat /\ MaxDepth \in Nat /\ MaxMarks \in Nat

VARIABLES
  text,         \* the buffer's text
  nodes,        \* nodes_
  current,      \* current_
  depth,        \* depth_
  before,       \* before_
  checkpoints,  \* checkpoints_, without their names
  strayed       \* history: the buffer was edited outside of every transaction, or
                \* undo() or redo_branch() was called inside one

vars == <<text, nodes, current, depth, before, checkpoints, strayed>>

Node == [before : Texts, after : Texts, parent : Nat, children : Seq(Nat)]

TypeOK ==
  /\ text \in Texts /\ before \in Texts
  /\ nodes \in Seq(Node)
  /\ current \in 1..Len(nodes)
  /\ depth \in Nat
  /\ checkpoints \in Seq(1..Len(nodes))
  /\ strayed \in BOOLEAN

Leaf(b, a, p) == [before |-> b, after |-> a, parent |-> p, children |-> <<>>]

Init ==
  /\ text \in Texts
  /\ nodes = <<Leaf(Empty, text, 1)>>
  /\ current = 1 /\ depth = 0 /\ before = Empty
  /\ checkpoints = <<>> /\ strayed = FALSE

-----------------------------------------------------------------------------

\* The application, or a cursor, edits the buffer.
Edit ==
  /\ text' \in Texts \ {text}
  /\ strayed' = (strayed \/ depth = 0)
  /\ UNCHANGED <<nodes, current, depth, before, checkpoints>>

\* Mutant of Begin: a nested transaction starts over.
BeginAgain ==
  /\ depth < MaxDepth
  /\ depth' = depth + 1
  /\ before' = text
  /\ UNCHANGED <<text, nodes, current, checkpoints, strayed>>

\* begin(), which a Transaction calls when it is made.
Begin ==
  /\ depth < MaxDepth
  /\ depth' = depth + 1
  /\ before' = IF depth = 0 THEN text ELSE before
  /\ UNCHANGED <<text, nodes, current, checkpoints, strayed>>

\* Mutant of Grown: a new branch replaces the ones there were.
GrownOver(n) ==
  Append([nodes EXCEPT ![current].children = <<n>>], Leaf(before, text, current))

\* Mutant of Grown: the root adopts every node.
GrownAtRoot(n) ==
  Append([nodes EXCEPT ![1].children = Append(@, n)], Leaf(before, text, current))

\* The tree with the transaction that ends as node n, a new child of the current one.
Grown(n) ==
  Append([nodes EXCEPT ![current].children = Append(@, n)], Leaf(before, text, current))

\* commit(), which a Transaction calls once: only the outermost one that changed the
\* text leaves a node.
Commit ==
  /\ depth > 0
  /\ depth' = depth - 1
  /\ \/ /\ depth = 1 /\ text # before /\ Len(nodes) < MaxNodes
        /\ nodes' = Grown(Len(nodes) + 1)
        /\ current' = Len(nodes) + 1
     \/ /\ depth > 1 \/ text = before
        /\ UNCHANGED <<nodes, current>>
  /\ UNCHANGED <<text, before, checkpoints, strayed>>

\* Mutant of Undo: current_ moves before the text is read.
UndoMovedFirst ==
  /\ current # 1
  /\ text' = nodes[nodes[current].parent].before
  /\ current' = nodes[current].parent
  /\ strayed' = (strayed \/ depth > 0)
  /\ UNCHANGED <<nodes, depth, before, checkpoints>>

Undo ==
  /\ current # 1
  /\ text' = nodes[current].before
  /\ current' = nodes[current].parent
  /\ strayed' = (strayed \/ depth > 0)
  /\ UNCHANGED <<nodes, depth, before, checkpoints>>

RedoBranch ==
  /\ \E branch \in 1..Len(nodes[current].children) :
       current' = nodes[current].children[branch]
  /\ text' = nodes[current'].after
  /\ strayed' = (strayed \/ depth > 0)
  /\ UNCHANGED <<nodes, depth, before, checkpoints>>

Checkpoint ==
  /\ Len(checkpoints) < MaxMarks
  /\ checkpoints' = Append(checkpoints, current)
  /\ UNCHANGED <<text, nodes, current, depth, before, strayed>>

Next == Edit \/ Begin \/ Commit \/ Undo \/ RedoBranch \/ Checkpoint

Spec == Init /\ [][Next]_vars

-----------------------------------------------------------------------------

\* parent and children are each other's inverse and every parent is older than its
\* children: from any node, undo() ends at the root and redo_branch() leads back.
TreeWellFormed ==
  /\ nodes # <<>>
  /\ \A n \in 2..Len(nodes) :
       LET p == nodes[n].parent
       IN  /\ p \in 1..n - 1
           /\ \E k \in 1..Len(nodes[p].children) : nodes[p].children[k] = n
  /\ \A p \in 1..Len(nodes) : \A k \in 1..Len(nodes[p].children) :
       LET n == nodes[p].children[k]
       IN  n \in 2..Len(nodes) /\ nodes[n].parent = p

\* What undo() restores is what the parent left: the two texts kept for each edge of
\* the tree are one, whatever the nesting of the transactions that made it.
EdgesMatch ==
  ~ strayed => \A n \in 2..Len(nodes) : nodes[n].before = nodes[nodes[n].parent].after

\* Between transactions the buffer shows the current node, so that undo() followed by
\* redo_branch() of the branch it came from brings the text back.
ShowsCurrent == ~ strayed /\ depth = 0 => text = nodes[current].after

\* No redo branch is ever lost: a node keeps its texts and its parent, and branches
\* keep their numbers.
KeepsBranches ==
  [][\A n \in 1..Len(nodes) :
       /\ n <= Len(nodes')
       /\ nodes'[n].before = nodes[n].before /\ nodes'[n].after = nodes[n].after
       /\ nodes'[n].parent = nodes[n].parent
       /\ \A k \in 1..Len(nodes[n].children) :
            /\ k <= Len(nodes'[n].children)
            /\ nodes'[n].children[k] = nodes[n].children[k]]_vars

=============================================================================
