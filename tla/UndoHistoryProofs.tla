--------------------------- MODULE UndoHistoryProofs ---------------------------
(***************************************************************************)
(* The invariants of UndoHistory for any texts and any bounds.             *)
(***************************************************************************)
EXTENDS UndoHistory, SequenceTheorems, TLAPS

LEMMA NodeFields ==
  ASSUME TypeOK, NEW i \in 1..Len(nodes)
  PROVE  /\ nodes[i].before \in Texts /\ nodes[i].after \in Texts
         /\ nodes[i].children \in Seq(Nat)
<1>1. nodes[i] \in Node
  BY ElementOfSeq DEF TypeOK
<1>2. QED
  BY <1>1 DEF Node

\* The tree after a commit: the old nodes keep everything but their children, of
\* which only the current node's grow, and the new node is a leaf below it.
LEMMA GrownTree ==
  ASSUME TypeOK
  PROVE  LET n == Len(nodes) + 1
             g == Grown(n)
         IN  /\ g \in Seq(Node) /\ Len(g) = n
             /\ g[n] = Leaf(before, text, current)
             /\ \A i \in 1..Len(nodes) :
                  /\ g[i].before = nodes[i].before /\ g[i].after = nodes[i].after
                  /\ g[i].parent = nodes[i].parent
                  /\ g[i].children = IF i = current THEN Append(nodes[i].children, n)
                                                    ELSE nodes[i].children
<1> DEFINE n == Len(nodes) + 1
           e == [nodes[current] EXCEPT !.children = Append(@, n)]
           m == [nodes EXCEPT ![current] = e]
           leaf == Leaf(before, text, current)
<1>1. n \in Nat /\ current \in 1..Len(nodes) /\ current \in Nat /\ nodes \in Seq(Node)
  BY DEF TypeOK
<1>2. \A i \in 1..Len(nodes) : nodes[i] \in Node
  BY <1>1, ElementOfSeq
<1>3. Append(nodes[current].children, n) \in Seq(Nat)
  <2>1. nodes[current].children \in Seq(Nat)
    BY <1>1, <1>2 DEF Node
  <2>2. QED
    BY <1>1, <2>1, AppendProperties
<1>4. e \in Node /\ e.children = Append(nodes[current].children, n)
  BY <1>1, <1>2, <1>3 DEF Node
<1>5. /\ m \in Seq(Node) /\ Len(m) = Len(nodes)
      /\ \A i \in 1..Len(nodes) : m[i] = IF i = current THEN e ELSE nodes[i]
  <2> HIDE DEF e
  <2>1. QED
    BY <1>1, <1>4, ExceptSeq
<1>6. leaf \in Node
  <2>1. <<>> \in Seq(Nat)
    OBVIOUS
  <2>2. QED
    BY <1>1, <2>1 DEF TypeOK, Leaf, Node
<1>7. Grown(n) = Append(m, leaf)
  BY DEF Grown
<1>8. /\ Grown(n) \in Seq(Node) /\ Len(Grown(n)) = n
      /\ Grown(n)[n] = leaf
      /\ \A i \in 1..Len(nodes) : Grown(n)[i] = m[i]
  <2> HIDE DEF m, leaf
  <2>1. QED
    BY <1>5, <1>6, <1>7, AppendProperties
<1>9. /\ e.before = nodes[current].before /\ e.after = nodes[current].after
      /\ e.parent = nodes[current].parent
  BY <1>1, <1>2 DEF Node
<1>10. QED
  <2> HIDE DEF m, e, leaf
  <2>1. \A i \in 1..Len(nodes) : Grown(n)[i] = IF i = current THEN e ELSE nodes[i]
    BY <1>5, <1>8
  <2>2. QED
    BY <1>4, <1>8, <1>9, <2>1 DEF leaf

\* redo_branch() ends at a node of the tree.
LEMMA BranchIsNode ==
  ASSUME TypeOK, TreeWellFormed, RedoBranch
  PROVE  current' \in 2..Len(nodes) /\ nodes[current'].parent = current
BY DEF TypeOK, TreeWellFormed, RedoBranch

LEMMA ParentIsNode ==
  ASSUME TypeOK, TreeWellFormed, current # 1
  PROVE  current \in 2..Len(nodes) /\ nodes[current].parent \in 1..Len(nodes)
<1>1. current \in 2..Len(nodes)
  BY DEF TypeOK
<1>2. nodes[current].parent \in 1..current - 1
  BY <1>1 DEF TreeWellFormed
<1>3. QED
  BY <1>1, <1>2 DEF TypeOK

\* A node that is added leaves the marks where they were.
LEMMA MarksKept ==
  ASSUME NEW marks \in Seq(1..Len(nodes)), NEW n \in Nat, Len(nodes) \in Nat, Len(nodes) <= n
  PROVE  marks \in Seq(1..n)
<1>1. 1..Len(nodes) \subseteq 1..n
  OBVIOUS
<1>2. QED
  BY <1>1

\* Commit either leaves the tree alone or grows it.
LEMMA CommitCases ==
  ASSUME Commit
  PROVE  \/ /\ depth = 1 /\ depth' = 0 /\ nodes' = Grown(Len(nodes) + 1)
            /\ current' = Len(nodes) + 1
         \/ /\ nodes' = nodes /\ current' = current
            /\ depth > 1 \/ text = before
BY DEF Commit

\* Types and the shape of the tree, which each need the other.
ShapeInv == TypeOK /\ TreeWellFormed

LEMMA ShapeInit == Init => ShapeInv
<1> SUFFICES ASSUME Init PROVE ShapeInv
  OBVIOUS
<1> DEFINE leaf == Leaf(Empty, text, 1)
<1>1. leaf \in Node /\ leaf.children = <<>>
  <2>1. <<>> \in Seq(Nat)
    OBVIOUS
  <2>2. QED
    BY <2>1, TextsAssumption DEF Init, Leaf, Node
<1>2. nodes \in Seq(Node) /\ Len(nodes) = 1 /\ nodes[1] = leaf
  <2> HIDE DEF leaf
  <2>1. nodes = <<leaf>>
    BY DEF Init, leaf
  <2>2. QED
    BY <1>1, <2>1
<1>3. TypeOK
  <2>1. checkpoints \in Seq(1..Len(nodes))
    BY DEF Init
  <2>2. QED
    <3>1. current \in 1..Len(nodes)
      BY <1>2 DEF Init
    <3>2. QED
      BY <1>2, <2>1, <3>1, TextsAssumption DEF Init, TypeOK
<1>4. \A p \in 1..Len(nodes) : nodes[p].children = <<>>
  <2> HIDE DEF leaf
  <2>1. QED
    BY <1>1, <1>2
<1>5. TreeWellFormed
  <2>1. nodes # <<>>
    BY <1>2
  <2>2. 2..Len(nodes) = {}
    BY <1>2
  <2>3. \A p \in 1..Len(nodes) : 1..Len(nodes[p].children) = {}
    BY <1>4
  <2>4. QED
    BY <2>1, <2>2, <2>3 DEF TreeWellFormed
<1>6. QED
  BY <1>3, <1>5 DEF ShapeInv

LEMMA ShapeGrows ==
  ASSUME ShapeInv, nodes' = Grown(Len(nodes) + 1), current' = Len(nodes) + 1
  PROVE  TreeWellFormed'
<1> DEFINE n == Len(nodes) + 1
<1>1. TypeOK /\ TreeWellFormed
  BY DEF ShapeInv
<1>2. /\ n \in Nat /\ Len(nodes) \in Nat /\ Len(nodes') = n /\ nodes' \in Seq(Node)
      /\ nodes'[n] = Leaf(before, text, current)
      /\ \A i \in 1..Len(nodes) :
           /\ nodes'[i].parent = nodes[i].parent
           /\ nodes'[i].children = IF i = current THEN Append(nodes[i].children, n)
                                                  ELSE nodes[i].children
  <2>1. Len(nodes) \in Nat
    BY <1>1 DEF TypeOK
  <2>2. QED
    BY <1>1, <2>1, GrownTree
<1>3. nodes'[n].parent = current /\ nodes'[n].children = <<>> /\ current \in 1..Len(nodes)
  BY <1>1, <1>2 DEF Leaf, TypeOK
<1>4. \A i \in 1..Len(nodes) : nodes[i].children \in Seq(Nat)
  BY <1>1, NodeFields
<1>5. \A i \in 1..Len(nodes) : \A k \in 1..Len(nodes[i].children) :
        k \in 1..Len(nodes'[i].children) /\ nodes'[i].children[k] = nodes[i].children[k]
  <2> TAKE i \in 1..Len(nodes)
  <2>1. CASE i = current
    <3>1. nodes'[i].children = Append(nodes[i].children, n)
      BY <1>2, <2>1
    <3>2. /\ Len(Append(nodes[i].children, n)) = Len(nodes[i].children) + 1
          /\ \A k \in 1..Len(nodes[i].children) :
               Append(nodes[i].children, n)[k] = nodes[i].children[k]
      BY <1>2, <1>4, AppendProperties
    <3>3. Len(nodes[i].children) \in Nat
      BY <1>4
    <3>4. /\ Len(nodes'[i].children) = Len(nodes[i].children) + 1
          /\ \A k \in 1..Len(nodes[i].children) : nodes'[i].children[k] = nodes[i].children[k]
      BY <3>1, <3>2
    <3>5. QED
      BY <3>3, <3>4
  <2>2. CASE i # current
    BY <1>2, <2>2
  <2>3. QED
    BY <2>1, <2>2
<1>6. /\ Len(nodes'[current].children) = Len(nodes[current].children) + 1
      /\ nodes'[current].children[Len(nodes[current].children) + 1] = n
  <2>1. nodes'[current].children = Append(nodes[current].children, n)
    BY <1>2, <1>3
  <2>2. nodes[current].children \in Seq(Nat)
    BY <1>3, <1>4
  <2>3. QED
    BY <1>2, <2>1, <2>2, AppendProperties
<1>7. ASSUME NEW m \in 2..n
      PROVE  /\ nodes'[m].parent \in 1..m - 1
             /\ \E k \in 1..Len(nodes'[nodes'[m].parent].children) :
                  nodes'[nodes'[m].parent].children[k] = m
  <2>1. CASE m = n
    <3>1. Len(nodes[current].children) + 1 \in 1..Len(nodes'[current].children)
      BY <1>3, <1>4, <1>6
    <3>2. QED
      BY <1>2, <1>3, <1>6, <2>1, <3>1
  <2>2. CASE m # n
    <3>1. m \in 2..Len(nodes) /\ m \in 1..Len(nodes)
      BY <1>2, <2>2
    <3>2. nodes[m].parent \in 1..m - 1 /\ nodes[m].parent \in 1..Len(nodes)
      BY <1>1, <1>2, <3>1 DEF TreeWellFormed
    <3>3. PICK k \in 1..Len(nodes[nodes[m].parent].children) :
            nodes[nodes[m].parent].children[k] = m
      BY <1>1, <3>1 DEF TreeWellFormed
    <3>4. /\ k \in 1..Len(nodes'[nodes[m].parent].children)
          /\ nodes'[nodes[m].parent].children[k] = m
      BY <1>5, <3>2, <3>3
    <3>5. QED
      BY <1>2, <3>1, <3>2, <3>4
  <2>3. QED
    BY <2>1, <2>2
<1>8. ASSUME NEW p \in 1..n, NEW k \in 1..Len(nodes'[p].children)
      PROVE  nodes'[p].children[k] \in 2..n /\ nodes'[nodes'[p].children[k]].parent = p
  <2>1. CASE p = n
    BY <1>3, <2>1
  <2>2. CASE p # n /\ k \in 1..Len(nodes[p].children)
    <3>1. p \in 1..Len(nodes)
      BY <1>2, <2>2
    <3>2. nodes[p].children[k] \in 2..Len(nodes) /\ nodes[nodes[p].children[k]].parent = p
      BY <1>1, <2>2, <3>1 DEF TreeWellFormed
    <3>3. nodes'[p].children[k] = nodes[p].children[k]
      BY <1>5, <2>2, <3>1
    <3>4. nodes[p].children[k] \in 2..n /\ nodes[p].children[k] \in 1..Len(nodes)
      BY <1>2, <3>2
    <3>5. QED
      BY <1>2, <3>2, <3>3, <3>4
  <2>3. CASE p # n /\ k \notin 1..Len(nodes[p].children)
    <3>1. p \in 1..Len(nodes)
      BY <1>2, <2>3
    <3>2. p = current
      BY <1>2, <2>3, <3>1
    <3>3. k = Len(nodes[current].children) + 1
      BY <1>3, <1>4, <1>6, <2>3, <3>2
    <3>4. QED
      BY <1>2, <1>3, <1>6, <3>2, <3>3
  <2>4. QED
    BY <2>1, <2>2, <2>3
<1>9. nodes' # <<>>
  BY <1>2
<1>10. QED
  <2> HIDE DEF n
  <2>1. Len(nodes') = n
    BY <1>2
  <2>2. QED
    BY <1>7, <1>8, <1>9, <2>1 DEF TreeWellFormed

LEMMA TypeStep == ShapeInv /\ [Next]_vars => TypeOK'
<1> SUFFICES ASSUME ShapeInv, [Next]_vars PROVE TypeOK'
  OBVIOUS
<1>1. TypeOK /\ TreeWellFormed /\ Len(nodes) \in Nat
  BY DEF ShapeInv, TypeOK
<1>2. CASE Edit
  BY <1>1, <1>2 DEF Edit, TypeOK
<1>3. CASE Begin
  BY <1>1, <1>3 DEF Begin, TypeOK
<1>4. CASE Commit
  <2>1. CASE nodes' = Grown(Len(nodes) + 1) /\ current' = Len(nodes) + 1
    <3>1. /\ nodes' \in Seq(Node) /\ Len(nodes') = Len(nodes) + 1
          /\ current' \in 1..Len(nodes')
      BY <1>1, <2>1, GrownTree
    <3>2. checkpoints \in Seq(1..Len(nodes'))
      BY <1>1, <3>1, MarksKept DEF TypeOK
    <3>3. QED
      BY <1>1, <1>4, <3>1, <3>2 DEF Commit, TypeOK
  <2>2. CASE nodes' = nodes /\ current' = current
    BY <1>1, <1>4, <2>2 DEF Commit, TypeOK
  <2>3. QED
    BY <1>4, <2>1, <2>2, CommitCases
<1>5. CASE Undo
  <2>1. current \in 2..Len(nodes) /\ nodes[current].parent \in 1..Len(nodes)
    BY <1>1, <1>5, ParentIsNode DEF Undo
  <2>2. nodes[current].before \in Texts
    BY <1>1, <2>1, NodeFields
  <2>3. QED
    BY <1>1, <1>5, <2>1, <2>2 DEF Undo, TypeOK
<1>6. CASE RedoBranch
  <2>1. current' \in 1..Len(nodes)
    BY <1>1, <1>6, BranchIsNode
  <2>2. nodes[current'].after \in Texts
    BY <1>1, <2>1, NodeFields
  <2>3. QED
    BY <1>1, <1>6, <2>1, <2>2 DEF RedoBranch, TypeOK
<1>7. CASE Checkpoint
  <2>1. Append(checkpoints, current) \in Seq(1..Len(nodes))
    BY <1>1, AppendProperties DEF TypeOK
  <2>2. QED
    BY <1>1, <1>7, <2>1 DEF Checkpoint, TypeOK
<1>8. CASE UNCHANGED vars
  BY <1>1, <1>8 DEF vars, TypeOK
<1>9. QED
  BY <1>2, <1>3, <1>4, <1>5, <1>6, <1>7, <1>8 DEF Next

LEMMA ShapeStep == ShapeInv /\ [Next]_vars => ShapeInv'
<1> SUFFICES ASSUME ShapeInv, [Next]_vars PROVE ShapeInv'
  OBVIOUS
<1>1. CASE Commit /\ nodes' = Grown(Len(nodes) + 1) /\ current' = Len(nodes) + 1
  BY <1>1, ShapeGrows, TypeStep DEF ShapeInv
<1>2. CASE nodes' = nodes
  BY <1>2, TypeStep DEF ShapeInv, TreeWellFormed
<1>3. QED
  BY <1>1, <1>2, CommitCases DEF Next, vars, Edit, Begin, Undo, RedoBranch, Checkpoint

LEMMA ShapeAlways == Spec => []ShapeInv
BY ShapeInit, ShapeStep, PTL DEF Spec

\* The type invariant of the history, whatever the texts and the bounds.
THEOREM TypeCorrect == Spec => []TypeOK
<1>1. ShapeInv => TypeOK
  BY DEF ShapeInv
<1>2. QED
  BY <1>1, ShapeAlways, PTL

\* The tree of commit() stays a tree: parent and children are each other's inverse.
THEOREM TreeStaysWellFormed == Spec => []TreeWellFormed
<1>1. ShapeInv => TreeWellFormed
  BY DEF ShapeInv
<1>2. QED
  BY <1>1, ShapeAlways, PTL

-----------------------------------------------------------------------------

\* Inside a transaction before_ is what the current node left.
BeforeInv == ~ strayed /\ depth > 0 => before = nodes[current].after

TextInv == EdgesMatch /\ ShowsCurrent /\ BeforeInv

LEMMA TextInit == Init => TextInv
<1> SUFFICES ASSUME Init PROVE TextInv
  OBVIOUS
<1>1. Len(nodes) = 1 /\ nodes[current].after = text /\ depth = 0
  BY DEF Init, Leaf
<1>2. QED
  BY <1>1 DEF TextInv, EdgesMatch, ShowsCurrent, BeforeInv

\* The new edge matches because before_ is what the current node left.
LEMMA EdgesGrow ==
  ASSUME ShapeInv, TextInv, ~ strayed, depth = 1, nodes' = Grown(Len(nodes) + 1)
  PROVE  \A n \in 2..Len(nodes') : nodes'[n].before = nodes'[nodes'[n].parent].after
<1>1. TypeOK /\ TreeWellFormed /\ Len(nodes) \in Nat /\ current \in 1..Len(nodes)
  BY DEF ShapeInv, TypeOK
<1>2. /\ Len(nodes') = Len(nodes) + 1
      /\ nodes'[Len(nodes) + 1] = Leaf(before, text, current)
      /\ \A i \in 1..Len(nodes) :
           /\ nodes'[i].before = nodes[i].before /\ nodes'[i].after = nodes[i].after
           /\ nodes'[i].parent = nodes[i].parent
  BY <1>1, GrownTree
<1> TAKE n \in 2..Len(nodes')
<1>3. CASE n = Len(nodes) + 1
  <2>1. nodes'[n].before = before /\ nodes'[n].parent = current
    BY <1>2, <1>3 DEF Leaf
  <2>2. before = nodes[current].after
    BY DEF TextInv, BeforeInv
  <2>3. QED
    BY <1>1, <1>2, <2>1, <2>2
<1>4. CASE n # Len(nodes) + 1
  <2>1. n \in 2..Len(nodes)
    BY <1>1, <1>2, <1>4
  <2>2. nodes[n].parent \in 1..Len(nodes)
    BY <1>1, <2>1 DEF TreeWellFormed
  <2>3. nodes[n].before = nodes[nodes[n].parent].after
    BY <2>1 DEF TextInv, EdgesMatch
  <2>4. QED
    BY <1>1, <1>2, <2>1, <2>2, <2>3
<1>5. QED
  BY <1>3, <1>4

LEMMA TextStep == ShapeInv /\ TextInv /\ [Next]_vars => TextInv'
<1> SUFFICES ASSUME ShapeInv, TextInv, [Next]_vars PROVE TextInv'
  OBVIOUS
<1>1. TypeOK /\ TreeWellFormed /\ depth \in Nat /\ Len(nodes) \in Nat
  BY DEF ShapeInv, TypeOK
<1> USE DEF TextInv, EdgesMatch, ShowsCurrent, BeforeInv
<1>2. CASE Edit
  BY <1>1, <1>2 DEF Edit
<1>3. CASE Begin
  BY <1>1, <1>3 DEF Begin
<1>4. CASE Commit
  <2>1. CASE depth = 1 /\ depth' = 0 /\ nodes' = Grown(Len(nodes) + 1) /\ current' = Len(nodes) + 1
    <3>1. nodes'[current'].after = text
      <4>1. nodes'[current'] = Leaf(before, text, current)
        BY <1>1, <2>1, GrownTree
      <4>2. QED
        BY <4>1 DEF Leaf
    <3>2. text' = text /\ strayed' = strayed
      BY <1>4 DEF Commit
    <3>3. ~ strayed => EdgesMatch'
      BY <2>1, EdgesGrow
    <3>4. QED
      BY <2>1, <3>1, <3>2, <3>3
  <2>2. CASE nodes' = nodes /\ current' = current /\ (depth > 1 \/ text = before)
    BY <1>1, <1>4, <2>2 DEF Commit
  <2>3. QED
    BY <1>4, <2>1, <2>2, CommitCases
<1>5. CASE Undo
  <2>1. current \in 2..Len(nodes)
    BY <1>1, <1>5, ParentIsNode DEF Undo
  <2>2. QED
    BY <1>1, <1>5, <2>1 DEF Undo
<1>6. CASE RedoBranch
  BY <1>1, <1>6 DEF RedoBranch
<1>7. CASE Checkpoint
  BY <1>7 DEF Checkpoint
<1>8. CASE UNCHANGED vars
  BY <1>8 DEF vars
<1>9. QED
  BY <1>2, <1>3, <1>4, <1>5, <1>6, <1>7, <1>8 DEF Next

LEMMA TextAlways == Spec => []TextInv
BY ShapeInit, ShapeStep, TextInit, TextStep, PTL DEF Spec

\* undo() restores what the parent of the node left.
THEOREM EdgesStayMatched == Spec => []EdgesMatch
<1>1. TextInv => EdgesMatch
  BY DEF TextInv
<1>2. QED
  BY <1>1, TextAlways, PTL

\* Between transactions the buffer shows the current node of the tree.
THEOREM BufferShowsCurrent == Spec => []ShowsCurrent
<1>1. TextInv => ShowsCurrent
  BY DEF TextInv
<1>2. QED
  BY <1>1, TextAlways, PTL

-----------------------------------------------------------------------------

\* commit() adds a branch and no call takes one away: nothing that was ever undone
\* becomes unreachable.
THEOREM BranchesAreKept == Spec => KeepsBranches
<1> DEFINE Kept ==
      \A n \in 1..Len(nodes) :
        /\ n <= Len(nodes')
        /\ nodes'[n].before = nodes[n].before /\ nodes'[n].after = nodes[n].after
        /\ nodes'[n].parent = nodes[n].parent
        /\ \A k \in 1..Len(nodes[n].children) :
             /\ k <= Len(nodes'[n].children)
             /\ nodes'[n].children[k] = nodes[n].children[k]
<1>1. ShapeInv /\ [Next]_vars => [Kept]_vars
  <2> SUFFICES ASSUME ShapeInv, Next PROVE Kept
    BY DEF ShapeInv
  <2>1. TypeOK /\ Len(nodes) \in Nat
    BY DEF ShapeInv, TypeOK
  <2>2. \A n \in 1..Len(nodes) : nodes[n].children \in Seq(Nat)
    BY <2>1, NodeFields
  <2>3. CASE nodes' = nodes
    BY <2>1, <2>2, <2>3
  <2>4. CASE nodes' = Grown(Len(nodes) + 1)
    <3> SUFFICES ASSUME NEW n \in 1..Len(nodes)
                 PROVE  /\ n <= Len(nodes')
                        /\ nodes'[n].before = nodes[n].before /\ nodes'[n].after = nodes[n].after
                        /\ nodes'[n].parent = nodes[n].parent
                        /\ \A k \in 1..Len(nodes[n].children) :
                             /\ k <= Len(nodes'[n].children)
                             /\ nodes'[n].children[k] = nodes[n].children[k]
      OBVIOUS
    <3>1. /\ Len(nodes') = Len(nodes) + 1
          /\ nodes'[n].before = nodes[n].before /\ nodes'[n].after = nodes[n].after
          /\ nodes'[n].parent = nodes[n].parent
          /\ nodes'[n].children = IF n = current THEN Append(nodes[n].children, Len(nodes) + 1)
                                                 ELSE nodes[n].children
      BY <2>1, <2>4, GrownTree
    <3>2. \A k \in 1..Len(nodes[n].children) :
            k <= Len(nodes'[n].children) /\ nodes'[n].children[k] = nodes[n].children[k]
      BY <2>1, <2>2, <3>1, AppendProperties
    <3>3. QED
      BY <2>1, <3>1, <3>2
  <2>5. QED
    BY <2>3, <2>4, CommitCases DEF Next, Edit, Begin, Undo, RedoBranch, Checkpoint
<1>2. QED
  BY <1>1, ShapeAlways, PTL DEF Spec, KeepsBranches
=============================================================================
