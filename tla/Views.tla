---------------------------------- MODULE Views ----------------------------------
(***************************************************************************)
(* Widgets that keep a place or a selection beside a model that changes:      *)
(* TabBar, Pager with a ScrollBar, ListView, TreeView, ProgressBar, TextInput  *)
(* and MultiProgress.                                                         *)
(***************************************************************************)
EXTENDS Integers, Sequences, FiniteSets, Functions

CONSTANTS
  Tabs, Rows, Paths,   \* names of tabs; most rows of a text or model; paths of a tree
  Height, Width,       \* cells of the pager and of the progress bar
  Amounts, Totals,     \* amounts of progress
  Inputs, Masks,       \* texts for a TextInput, and masks
  Accepts(_, _),       \* InputMask::accepts()
  MaxTasks             \* bound: tasks of a MultiProgress

VARIABLES
  tabs, selectedTab, chosenTab,            \* TabBar; history: the tab selected last, or none
  lines, offset,                           \* Pager
  rows, row, picked, rowKnown,             \* ListView and MultiSelect; history: the row was
                                           \* chosen in the model as it is
  policy, expanded, single,                \* TreeView; history: the policy has been Single
                                           \* for all that is expanded
  total, value, raised,                    \* ProgressBar; history: set_total() came after
  input, mask, masked,                     \* TextInput; history: the mask came after
  progress, tasks, reserved                 \* MultiProgress: values; what each Task points at

tabVars == <<tabs, selectedTab, chosenTab>>
pagerVars == <<lines, offset>>
listVars == <<rows, row, picked, rowKnown>>
treeVars == <<policy, expanded, single>>
barVars == <<total, value, raised>>
inputVars == <<input, mask, masked>>
taskVars == <<progress, tasks, reserved>>
vars == <<tabVars, pagerVars, listVars, treeVars, barVars, inputVars, taskVars>>

Init ==
  /\ tabs = <<>> /\ selectedTab = 0 /\ chosenTab = "none"
  /\ lines = 1 /\ offset = 0
  /\ rows = 0 /\ row = 0 /\ picked = {} /\ rowKnown = TRUE
  /\ policy = "multiple" /\ expanded = {} /\ single = FALSE
  /\ total = 0 /\ value = 0 /\ raised = FALSE
  /\ input = <<>> /\ mask = <<>> /\ masked = FALSE
  /\ progress = <<>> /\ tasks = {} /\ reserved = 0

-----------------------------------------------------------------------------
\* TabBar: close() leaves the selected index.

AddTab ==
  /\ \E t \in Tabs : t \notin Range(tabs) /\ tabs' = Append(tabs, t)
  /\ UNCHANGED <<selectedTab, chosenTab, pagerVars, listVars, treeVars, barVars, inputVars, taskVars>>

CloseTab ==
  /\ \E i \in DOMAIN tabs :
       /\ tabs' = SubSeq(tabs, 1, i - 1) \o SubSeq(tabs, i + 1, Len(tabs))
       /\ chosenTab' = IF i <= selectedTab + 1 THEN "none" ELSE chosenTab
  /\ UNCHANGED <<selectedTab, pagerVars, listVars, treeVars, barVars, inputVars, taskVars>>

SelectedAt(i) == i - 1

SelectTab ==
  /\ \E i \in DOMAIN tabs : selectedTab' = SelectedAt(i) /\ chosenTab' = tabs[i]
  /\ UNCHANGED <<tabs, pagerVars, listVars, treeVars, barVars, inputVars, taskVars>>

-----------------------------------------------------------------------------
\* Pager and ScrollBar.

\* Mutant of OffsetAfter: a new source is shown where the old one was.
OffsetAfterKept == offset

\* The offset set_source() leaves.
OffsetAfter == 0

\* set_source(): a text of n line breaks has n + 1 lines.
SetSource ==
  /\ \E breaks \in 0..Rows - 1 : lines' = breaks + 1
  /\ offset' = OffsetAfter
  /\ UNCHANGED <<tabVars, listVars, treeVars, barVars, inputVars, taskVars>>

ScrollTo(to) == offset' = IF to < lines THEN to ELSE lines

\* scroll_to(), and scroll_by() of the scroll bar
Scroll ==
  /\ \/ \E to \in 0..Rows + 1 : ScrollTo(to)
     \/ \E amount \in -2..2 : ScrollTo(IF offset + amount < 0 THEN 0 ELSE offset + amount)
  /\ UNCHANGED <<lines, tabVars, listVars, treeVars, barVars, inputVars, taskVars>>

\* Rows that Pager::paint() draws, and ScrollBar::fraction() in whole parts of Rows.
Painted == {r \in offset..lines - 1 : r - offset < Height}
Fraction == (offset * Rows) \div lines

-----------------------------------------------------------------------------
\* ListView: set_model() starts at the first row, select() checks nothing, the model may
\* shrink under it; toggle() of a MultiSelect.

SetModel ==
  /\ rows' \in 0..Rows /\ row' = 0 /\ rowKnown' = TRUE
  /\ UNCHANGED <<picked, tabVars, pagerVars, treeVars, barVars, inputVars, taskVars>>

ModelChanges ==
  /\ rows' \in 0..Rows /\ rowKnown' = FALSE
  /\ UNCHANGED <<row, picked, tabVars, pagerVars, treeVars, barVars, inputVars, taskVars>>

SelectRow ==
  /\ row' \in 0..Rows /\ rowKnown' = (row' = 0 \/ row' < rows)
  /\ UNCHANGED <<rows, picked, tabVars, pagerVars, treeVars, barVars, inputVars, taskVars>>

Toggle ==
  /\ \E r \in 0..Rows - 1 : picked' = IF r \in picked THEN picked \ {r} ELSE picked \cup {r}
  /\ UNCHANGED <<rows, row, rowKnown, tabVars, pagerVars, treeVars, barVars, inputVars, taskVars>>

-----------------------------------------------------------------------------
\* TreeView: set_policy() closes nothing.

SetPolicy ==
  /\ policy' \in {"single", "multiple", "all"}
  /\ single' = (policy' = "single" /\ (single \/ expanded = {}))
  /\ UNCHANGED <<expanded, tabVars, pagerVars, listVars, barVars, inputVars, taskVars>>

\* Mutant of Others: a path that is expanded already closes nothing else.
OthersKept(path) == IF policy = "single" /\ path \notin expanded /\ expanded = {} THEN {} ELSE expanded

\* What stays expanded beside a path.
Others(path) == IF policy = "single" THEN {} ELSE expanded

Expand ==
  /\ \E path \in Paths : expanded' = Others(path) \cup {path}
  /\ single' = (policy = "single")
  /\ UNCHANGED <<policy, tabVars, pagerVars, listVars, barVars, inputVars, taskVars>>

Collapse ==
  /\ \E path \in Paths : expanded' = expanded \ {path}
  /\ UNCHANGED <<policy, single, tabVars, pagerVars, listVars, barVars, inputVars, taskVars>>

-----------------------------------------------------------------------------
\* ProgressBar: the value is clamped to the total there is, not when the total changes.

SetTotal ==
  /\ \E amount \in Totals : total' = IF amount < 0 THEN 0 ELSE amount
  /\ raised' = TRUE
  /\ UNCHANGED <<value, tabVars, pagerVars, listVars, treeVars, inputVars, taskVars>>

\* Mutant of Clamp: only what is below zero is cut.
ClampBelow(amount) == IF amount < 0 THEN 0 ELSE amount

Clamp(amount) == IF amount < 0 THEN 0 ELSE IF amount > total THEN total ELSE amount

\* set_value() and advance()
SetValue ==
  /\ \E amount \in Amounts : value' \in {Clamp(amount), Clamp(value + amount)}
  /\ raised' = FALSE
  /\ UNCHANGED <<total, tabVars, pagerVars, listVars, treeVars, inputVars, taskVars>>

\* The cells paint() fills; what is left, below 0, is no length of a string.
Filled == IF total = 0 THEN 0 ELSE (value * Width) \div total

-----------------------------------------------------------------------------
\* TextInput: set_mask() does not look at the text.

SetText ==
  /\ \E t \in Inputs : Accepts(mask, t) /\ input' = t
  /\ masked' = FALSE
  /\ UNCHANGED <<mask, tabVars, pagerVars, listVars, treeVars, barVars, taskVars>>

SetMask ==
  /\ mask' \in Masks /\ masked' = TRUE
  /\ UNCHANGED <<input, tabVars, pagerVars, listVars, treeVars, barVars, taskVars>>

-----------------------------------------------------------------------------
\* MultiProgress: a Task points into the vector, which moves when it is full.

AddTask ==
  /\ Len(progress) < MaxTasks
  /\ progress' = Append(progress, 0)
  /\ reserved' = IF Len(progress) < reserved THEN reserved ELSE IF reserved = 0 THEN 1 ELSE 2 * reserved
  /\ tasks' = tasks \cup {[entry |-> Len(progress'), within |-> reserved', done |-> 0]}
  /\ UNCHANGED <<tabVars, pagerVars, listVars, treeVars, barVars, inputVars>>

\* advance() through a pointer that is still good; through another it writes freed memory.
Advance ==
  /\ \E t \in tasks :
       /\ t.within = reserved /\ t.done < 2
       /\ progress' = [progress EXCEPT ![t.entry] = @ + 1]
       /\ tasks' = (tasks \ {t}) \cup {[t EXCEPT !.done = @ + 1]}
  /\ UNCHANGED <<reserved, tabVars, pagerVars, listVars, treeVars, barVars, inputVars>>

-----------------------------------------------------------------------------

TabNext == AddTab \/ CloseTab \/ SelectTab
PagerNext == SetSource \/ Scroll
ListNext == SetModel \/ ModelChanges \/ SelectRow \/ Toggle
TreeNext == SetPolicy \/ Expand \/ Collapse
BarNext == SetTotal \/ SetValue
InputNext == SetText \/ SetMask
TaskNext == AddTask \/ Advance

Next ==
  TabNext \/ PagerNext \/ ListNext \/ TreeNext \/ BarNext \/ InputNext \/ TaskNext

Spec == Init /\ [][Next]_vars

-----------------------------------------------------------------------------

\* The tab selected stays selected until one at or before it is closed (the index is not
\* moved); the pager never starts behind its text, which it may leave entirely; a row
\* chosen in a model that has not changed is one of its rows; under the policy Single one
\* path is open, if it was set while none was; a bar is never filled beyond its width,
\* unless the total was set below the value (paint() then asks for a string of negative
\* length); a text satisfies the mask it was set under; and what tasks advanced is what
\* their entries hold.
ViewsExact ==
  /\ chosenTab # "none" => tabs[selectedTab + 1] = chosenTab
  /\ offset <= lines /\ Fraction <= Rows /\ (Painted = {} => offset = lines)
  /\ rowKnown => row = 0 \/ row < rows
  /\ single => Cardinality(expanded) <= 1
  /\ ~ raised => Filled \in 0..Width
  /\ ~ masked => Accepts(mask, input)
  /\ \A t \in tasks : progress[t.entry] = t.done

==================================================================================
