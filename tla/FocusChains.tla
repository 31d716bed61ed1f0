------------------------------- MODULE FocusChains -------------------------------
(***************************************************************************)
(* ttyutils::ui focus over widget trees that grow: FocusChain objects, the    *)
(* static chains behind focus_next() and focus_prev(), and FocusScope.         *)
(***************************************************************************)
EXTENDS Naturals, SequencesExt

CONSTANTS
  Widgets, Roots,   \* numbers of widgets; the roots of trees among them
  Skipped,          \* widgets whose hint has a stretch below 0
  MaxChains         \* bound: static chains of focus_next()

VARIABLES
  children,   \* per widget: its children, in order
  chain,      \* a FocusChain: [root, widgets, current], current counted from 0
  forward,    \* the static chains of focus_next()
  backward,   \* the one static chain of focus_prev(), in a sequence once it is made
  focused,    \* the widgets whose focused() is true
  scopes,     \* the roots FocusScope objects were made for, the last one active
  calm,       \* history: chain alone has moved the focus, and kept its place in the tree
  last        \* history: [root, widget] of the last focus_next(), widget 0 for none

vars == <<children, chain, forward, backward, focused, scopes, calm, last>>

\* collect(): a widget and what is below it, each before what is below it.
Collected(root, below) ==
  LET from[n \in 0..Cardinality(Widgets)] ==
        [w \in Widgets |->
           IF n = 0 THEN <<>>
           ELSE (IF w \in Skipped THEN <<>> ELSE <<w>>)
                  \o FlattenSeq([i \in DOMAIN below[w] |-> from[n - 1][below[w][i]]])]
  IN  from[Cardinality(Widgets)][root]

\* Mutant of Clamped: a place behind the end is the last one, counted from 1.
ClampedToLength(current, widgets) == IF current >= Len(widgets) THEN Len(widgets) ELSE current

Clamped(current, widgets) == IF current >= Len(widgets) THEN 0 ELSE current

\* rebuild() of a chain
Rebuilt(c, below) ==
  LET widgets == Collected(c.root, below)
  IN  [root |-> c.root, widgets |-> widgets, current |-> Clamped(c.current, widgets)]

NewChain(root) == Rebuilt([root |-> root, widgets |-> <<>>, current |-> 0], children)

Current(c) == IF c.widgets = <<>> THEN 0 ELSE c.widgets[c.current + 1]

Init ==
  /\ children = [w \in Widgets |-> <<>>]
  /\ \E r \in Roots : chain = NewChain(r)
  /\ forward = <<>> /\ backward = <<>> /\ focused = {} /\ scopes = <<>>
  /\ calm = TRUE /\ last = [root |-> 0, widget |-> 0]

-----------------------------------------------------------------------------

\* add_child(): the chains do not hear of it.
AddChild ==
  /\ \E parent \in Widgets, child \in Widgets \ Roots :
       /\ \A w \in Widgets : ~ Contains(children[w], child)
       /\ child > parent
       /\ children' = [children EXCEPT ![parent] = Append(@, child)]
  /\ UNCHANGED <<chain, forward, backward, focused, scopes, calm, last>>

Rebuild ==
  /\ chain' = Rebuilt(chain, children)
  /\ calm' = (calm /\ Current(chain') = Current(chain))
  /\ UNCHANGED <<children, forward, backward, focused, scopes, last>>

SetRoot ==
  /\ \E r \in Roots : chain' = Rebuilt([chain EXCEPT !.root = r], children)
  /\ calm' = (calm /\ Current(chain') = Current(chain))
  /\ UNCHANGED <<children, forward, backward, focused, scopes, last>>

After(c) == [c EXCEPT !.current = IF c.widgets = <<>> THEN @ ELSE (@ + 1) % Len(c.widgets)]

Before(c) == [c EXCEPT !.current = IF c.widgets = <<>> THEN @ ELSE IF @ = 0 THEN Len(c.widgets) - 1 ELSE @ - 1]

\* Mutant of FocusAfter: the widget that is left is not told.
FocusAfterKept(from, to) == focused \cup ({Current(to)} \ {0})

\* set_focused(false) of the widget that is left, set_focused(true) of the one reached.
FocusAfter(from, to) == (focused \ {Current(from)}) \cup ({Current(to)} \ {0})

\* next() and prev() of the chain
Move ==
  /\ chain' \in {After(chain), Before(chain)}
  /\ focused' = FocusAfter(chain, chain')
  /\ UNCHANGED <<children, forward, backward, scopes, calm, last>>

\* focus_next(): the first chain that is empty or begins with the root, or a new one.
FocusNext ==
  /\ \E root \in Roots :
       LET at == SelectInSeq(forward, LAMBDA c : c.widgets = <<>> \/ c.widgets[1] = root)
           from == IF at = 0 THEN NewChain(root) ELSE forward[at]
       IN  /\ at = 0 => Len(forward) < MaxChains
           /\ forward' = IF at = 0 THEN Append(forward, After(from)) ELSE [forward EXCEPT ![at] = After(from)]
           /\ focused' = FocusAfter(from, After(from))
           /\ last' = [root |-> root, widget |-> Current(After(from))]
  /\ calm' = FALSE
  /\ UNCHANGED <<children, chain, backward, scopes>>

\* focus_prev(): one chain, of the root of the first call.
FocusPrev ==
  /\ \E root \in Roots :
       LET from == IF backward = <<>> THEN NewChain(root) ELSE backward[1]
       IN  /\ backward' = <<Before(from)>>
           /\ focused' = FocusAfter(from, Before(from))
  /\ calm' = FALSE
  /\ UNCHANGED <<children, chain, forward, scopes, last>>

\* A FocusScope made, and the last one destroyed: no chain asks active().
EnterScope ==
  /\ Len(scopes) < 2 /\ \E r \in Roots : scopes' = Append(scopes, r)
  /\ UNCHANGED <<children, chain, forward, backward, focused, calm, last>>

LeaveScope ==
  /\ scopes # <<>> /\ scopes' = Front(scopes)
  /\ UNCHANGED <<children, chain, forward, backward, focused, calm, last>>

Next ==
  \/ AddChild \/ Rebuild \/ SetRoot \/ Move
  \/ FocusNext \/ FocusPrev \/ EnterScope \/ LeaveScope

Spec == Init /\ [][Next]_vars

-----------------------------------------------------------------------------

InTree(root) == Range(Collected(root, children))

\* No chain points behind its widgets or has one twice; back from a step forward is where
\* it began; while one chain alone moves the focus and keeps its place when the tree is
\* collected again, at most its current widget is focused; and focus_next() finds a
\* widget of the tree it was asked about, unless a chain of an empty tree is in the way.
FocusExact ==
  /\ \A c \in {chain} \cup Range(forward) \cup Range(backward) :
       /\ c.widgets # <<>> => c.current < Len(c.widgets) /\ Before(After(c)) = c
       /\ IsInjective(c.widgets) /\ Range(c.widgets) \subseteq InTree(c.root)
  /\ calm => focused \subseteq {Current(chain)}
  /\ last.widget # 0 => last.widget \in InTree(last.root)
  /\ last.root # 0 /\ last.widget = 0 => \E i \in DOMAIN forward : forward[i].widgets = <<>>

==================================================================================
