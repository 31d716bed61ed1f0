# TTyPack in TLA+

TLA+ models of TTyPack, a header-only C++20 library for terminal programs: TLC
checks them on small instances, TLAPS proves the theorems for all of them.
Line numbers are those of the headers under `src/include/`.

## The system

`TTyTk` (50 headers) is the terminal layer: parsing terminal output, cells and
screens, Unicode, signals, pseudo-terminals, channels. `TTyUtils` (50 headers)
is the application layer on top of it: an event loop, text buffers with undo and
cursors, widgets, viewers, transports. Everything is a class in a header; there
are no threads of its own, so concurrency comes from callbacks that re-enter the
object that called them, from threads of the application, from signal handlers,
and from other processes at the end of a file or a socket.

| Part | State it keeps | Operations | What is hard, and what makes it correct |
|---|---|---|---|
| `EventLoop` | task queue, self-pipe, timers, watches, idle callbacks, `running_` | `post`, `after`, `every`, `idle`, `watch`, `run`, `run_once`, `stop` | callbacks that call back into the loop, other threads that post, a pipe that fills; no task is lost, reordered or slept on, timers fire as often as they should, `stop()` ends `run()` |
| `Automaton` | parser state, the sequence being collected, text not yet handed over | `feed`, `reset` | chunks cut anywhere, abandoned sequences; the callbacks depend on the bytes alone |
| `TextBuffer` | a shared copy-on-write string, its generation, its end-of-line kind | `insert`, `erase`, `replace`, `snapshot`, copies | snapshots that must not change, positions in grapheme columns over a byte string |
| `UndoHistory` | a tree of texts, the current node, the depth of open transactions, checkpoints | `begin`, `commit`, `undo`, `redo_branch`, `checkpoint` | nested transactions, undo inside one; no branch is lost, the buffer shows the current node |
| `TextCursor` | cursors with anchors and sticky columns | `move`, `insert_each`, `add`, `merge` | several cursors over an edit made by one of them |
| `Search`, `WordWrap`, `Diff`, `SyntaxHighlight`, `TextArea` | rows, hunks and spans computed from a snapshot | `find_all`, `confirm_each`, `soft_wrap`, `apply`, `merge3` | edits that move what was computed before them |
| `CellBuffer` | rows of cells, wide graphemes in a lead and a continuation cell | `put`, `resize`, `scroll`, `clear` | a copy within one buffer; leads and continuations stay together |
| `Terminal`, `VirtTools` | a screen and a cursor fed by a stream, a scrollback | `feed`, `resize` | a cursor beside a screen that is resized, a chunk that cuts a sequence |
| `Damage`, `Scrollback`, `TermMode`, `Tabstops` | regions, lines, modes, columns | `mark`, `push_line`, `save`, `restore`, `next` | what is merged or dropped at a limit |
| `IPCTools` | two ends of a socket | `send`, `receive` | short reads and writes, failing calls; messages arrive whole and in order |
| `PsuedoTerm`, `SerialPort`, `Serial`, `NetLink`, `ServerNetUtils` | one descriptor each | `open`, `connect`, moves, `close` | a step of an opening that fails, a move onto an owner |
| `Shell`, `JobControl` | process ids in handles, a job table | `run`, `wait`, `running`, `terminate`, `suspend` | a child that ends between two calls, an id that comes back |
| `Winsize`, `SignalTools` | a signal pipe, a callback | handlers, `on_change`, `get`, `set` | a signal between any two steps |
| `EventListener`, `FlowControl`, `App`, `Multiplex`, `MuxTools` | a queue, counters, flags, sessions | `post`, `poll`, `quit`, `suspend`, `attach_or_create` | callbacks that call back, counters at their limits |
| `Encoding`, `CharWidth`, `InputProto`, `PuppetTools`, `KeyMap` | none | decoders and encoders | truncated and overlong input; what is sent is read back |
| `HistoryFile` | entries in memory, a file of several shells | `append`, `load` | shells that append at once, or end while they do |
| `LineEdit`, `Readline`, `Clipboard`, `RecordTools` | the line, the cursor, the place in the history, rings, a recording | keys, `submit`, `yank`, `push`, `start`, `stop` | an index beside a list that grows or is cut |
| `Focus`, `Widget`, `Layout` | a widget tree, a focus chain collected from it | `next`, `prev`, `rebuild`, `layout` | a place in a list collected from a tree that changes |
| `TabBar`, `Pager`, `ListView`, `TreeView`, `Progress`, `TextInput` | an index, an offset, a selection, a value | setters in any order | what is kept beside a model that changes |
| `Completion`, `Config`, `SyntaxGrammar` | candidates, values, grammars | `query`, `parse`, `load_tm`, `detect` | small formats and their edges |

How they interact: the application owns a `Loop` and registers callbacks with
it; `Terminal::attach` watches a pseudo-terminal and hands what it reads to its
`Emulator`, which parses the bytes itself and writes the screen; an `Automaton` is fed by
the application and calls it back (`VirtualTerm` is such a set of callbacks); an editor keeps a `Buffer` with a
`History` and a `CursorSet` that hold pointers to it; snapshots of the buffer
are handed to highlighters, searches and diffs, which may outlive later edits.

## Plan

Done, in this order: the event loop alone and with posting threads; the parser and
what it implements; the text engine (clusters, lines, buffers, undo); cells; then
the cursors, searches, rows and patches over texts, the two emulators, channels,
descriptors, jobs, signals and services, and what stands between a program and its
user (decoders, history file, line editors, focus, views, boxes, small readers).

Left: several `TextArea` caches over one buffer composed with `TextBuffer`; the child
behind `Terminal::attach()` composed with `EventLoop`; several static focus chains
with widgets that are destroyed; `RegexAt` and `Walk` as recursive functions, so that
searches and patches can be proved about; proofs of completion, configuration and
grammars, which fold over sequences.

## Modules

### EventLoop

One thread. `pc` is where it is: `app` between two calls of `run()` or
`run_once()`, then the phases of `run_once()` in their order: `first`
(`run_tasks()`), `timers`, `poll`, `dispatch`, `idles`, `last` (`run_tasks()`).
Application code runs in `AppCall` and in every callback (`RunTask`,
`FireTimer`, `Dispatch`, `RunIdle`) and makes at most one call of the loop's
interface each time (`Call`): the order of two calls in one callback is covered
by two callbacks. Tasks are numbered in posting order. `drain_wakeup()` is the
callback of watch 0 and competes with the other ready watches in any order,
because `watches_` is an `unordered_map`.

`timers_` and `idles_` are vectors walked by a range-for whose body runs
callbacks that may append to them. An append within the capacity is harmless;
one that moves the elements leaves the loop reading and writing freed memory.
`Full` says when that happens, and `FireTimerTorn`, `RunIdleTorn` are what the
build can do then: the write to the element is lost and the rest of the pass
sees nothing, or it calls a function object that is gone and the program ends
(`crashed`). `torn` remembers that it happened.

`enqueue()` writes one byte to a pipe whose write end blocks and whose read end
only this thread reads: a callback that finds the pipe full never returns
(`stuck`).

### EventLoopPosters

The same queue with other threads that call `post()`. `tasks_` is a `std::deque`, which
nothing protects; what two threads do to it depends on how it is made, so it is modelled
as GCC's library makes it (the build names no compiler, and another library has accesses of
its own). Elements lie in blocks of `NodeSize`; a map (`nodes`) holds the blocks, and each
end is a place in the map, the block found there and an element (`start`, `finish`).
`push_back()` reads the finish, constructs the element and advances; at the end of a block
it first adds one (`AddNode`), and when the map has no place left it moves the map's
content within it or into a larger one (`ReadMap`, `CopyMap`, `MoveNode`, `MoveBlock`,
`MoveFinish`), which writes the start too, the loop's own end. `pop_front()` moves the
start, in three writes when it leaves a block (`LeaveNode`, `ReadBlock`, `EnterAndCall`).
Each of these is a step, and the other thread comes between any two.

So a single poster already races with the loop: when `pop_front()` changes its block
while `push_back()` moves the map, start points into the old map or is overwritten, and the
loop calls what is no task (`posters_map`). `raced` remembers that the two overlapped;
`PostersServed` and `PostCompletes` are stated until then. The model is kind to the code:
memory keeps program order, freed memory keeps its content, and the writes to
`finish.node` and `finish.block` are one step, because the loop's thread reads neither. The
pipe takes at least one byte, and a map has room for a block and one at each side
(`PostersAssumption`).

### EscapeStream and Automaton

`Automaton` consumes one byte per step with the tests of `feed_byte()` in their
order: those before the switch (`EscInString`, `EscElsewhere`, `CancelByte`,
`C1Byte`), then one action per case of the switch. `BeginFeed` and `EndFeed` cut
the stream anywhere. `out` records the callbacks; a run of text is recorded byte
by byte, because its grouping depends on the chunks by design. What a CSI should carry
(`CsiPayload`) is said of the bytes from its introducer to its final byte: the
parameters are those below 0x40, each at the place given by how many come before it.

`EscapeStream` is the same language without chunks and without the text buffer:
one state, and each event is emitted when its last byte is seen. `Automaton`
implements it with the text still in `printable_` counted as emitted.
The owner may call `reset()` between bytes; `resets` counts these calls, so that
both machines are reset at the same time.

### Grapheme, LineIndex and Texts

A text is a sequence of code points, each of them its Unicode break property: the
only thing clusters and lines depend on. `Grapheme` is `grapheme::next_break()`
with what it counts along the way (`Regionals`, `ZwjAfterPictographic`) said of
the text instead of kept in locals. `LineIndex` is the translation between byte
offsets and positions, and the texts that `insert()`, `erase()` and `replace()`
make of it. Offsets count code points where the code counts bytes: the code never
cuts inside one. `Texts` grows every text one code point at a time (`typed`,
`TextSpec`), as a state machine whose invariants are the claims about these functions
and about the motions of `TextCursor`, which it extends: clusters, positions, carets.
`PictographJoiner` is rule GB11 as the standard has it; `segment()` takes any row of
joiners for one and differs from it where a pictograph follows two (`AfterTwoJoiners`).

### TextBuffer and BufferValues

Buffers and snapshots hold shared strings, so `TextBuffer` has a heap of cells
and each handle points at one. `Write` is `detach()` followed by the edit: in
place when nobody else holds the cell, otherwise in a fresh one. Destroying the
last holder frees the cell (`Released`). `Load` constructs a buffer from a text
and moves it in, which sets the generation back to zero; `Copy` is the implicit
copy assignment. `source` remembers which buffer a snapshot was taken of for as
long as that buffer is only edited.

`BufferValues` is the promise: a buffer and a snapshot are values, and an edit
changes one of them. What an edit makes of a text is a parameter of it, so that
the refinement holds for any edits at all.

### UndoHistory

The tree of `undo::History` over its buffer, with the texts as values. `Edit` is
the application changing the buffer, inside a transaction or not; `Undo` and
`RedoBranch` may be called in the middle of one, because nothing stops them.
`strayed` remembers that one of these happened, since the history then no longer
knows what the buffer held. `PatchApplies` checks on the
real edits that replacing the whole text, as `set_text()` does, leaves nothing of the
old one.

### CellBuffer

Cells hold a grapheme or the continuation of the wide one before them. `put()`, `resize()` and `clear()` are one
step each; `scroll()` is taken row by row, because the order in which it copies rows
within one buffer is what can go wrong: `BeginScroll`, `CopyUp` or `CopyDown`,
`BlankRow`, `ScrollReturns`. `saved` keeps the cells it began with.

### VirtualTerm, Emulator and TerminalParts

`VirtualTerm` is the callbacks of `ttytk::VirtualTerm` over a `CellBuffer` its owner
may change at any time (`Owner`); `resized` remembers that the size was changed under
the cursor. `Emulator` is `ttyutils::term::Emulator`: an action for each item of
`feed()`, a byte or a whole control sequence; `sheet` is a history variable with all
that was printed, for `ScreenKept` to compare the scrollback and the screen with.
`torn` says that something was erased or resized, which a sheet cannot show.
`TerminalParts` are four small states: the
damage, which `mark()` sorts (`Orders`: regions with one beginning come in any order)
and merges (`Merged`, the loop), the scrollback, the modes and the tab stops.

### TextCursor, TextSearch, TextLayouts and TextTools

Operators on texts, with the structure of the code: motions (`Target`, `Moved`),
`EachInserted` and `AfterInsert` of a cursor set, the matchers of a search
(`LiteralAt`, `RegexAt`, `FuzzyAt`), `FindAll` and `ReplacedEach`, `SoftWrap` and its
two maps, `Hunks`, `Applied`, `Merged`. `TextTools` states what each means without
the algorithm: regular expressions as the set of places a match may end (`Ends`), a
fuzzy match as the shortest text the letters come in (`Embeds`), a replacement as the
text between the matches with each confirmed one exchanged. It holds the values the
runs on texts use. Statements about
positions after an edit are made for texts in which nothing joins (`Unjoined`).

### IPCChannel, Descriptors, Jobs, Signals, EventBus, Services and Processes

`IPCChannel`: one `::send()` or `::recv()` is a step that moves any part of what is
asked, or fails; payloads are sequences of bytes behind the four bytes of their length
(`Header`). `Descriptors`: an opening is a row of system calls (`Calls`), any of
which may fail; objects are moved and destroyed in between. `Jobs`: a kernel with
process states that gives ids again, and the handles beside it; `loose` marks
handles that were copied or asked `running()`, for which the id may be another
child's. `Signals`: `SignalWinch` may come between any two steps of
`dispatch_pending()` (`Dispatch`, `Drain`, `Call`); `owed` is a change whose callback
has not begun. `EventBus`: `stack` holds the calls of `post()` that subscribers make
within one another. `Services`: four small states; `Largest` is the width of
`std::size_t`; the application is in `run()` or out of it (`turn`), and may call `quit()`
and `suspend()` wherever it has the word; `Server::create()` asks for no new name, so
`attach_or_create()` has to choose (`Chosen`); a serial line is the flags of a tty, with
what both ports make of settings they do not know, and `due` is what they have to be once a
call says that it did it. `Processes` puts these and `Emulator` side by side: one of them steps
at a time and no variable is shared, so that `Processes` implements each of them.

### Utf8, InputKeys, Lookups, WidgetLayout

Pure readers, each with a reference beside it: UTF-8 by the table of the standard and
not by decoding, keys by sending and reading again, ranks by subsequences, classes by
the set they list. Boxes tile what they divide (`Tiles`), lie apart (`CellsApart`), are
found by their cells (`TopFound`) and fit in their frame (`FrameFits`) at the `Places`
and with the `Ratios` given.

### HistoryFile, LineEditing, FocusChains, Views

`HistoryFile`: shells append pieces to one file; one that fits the stream's buffer is
one write, a long one is two, and a shell may end before either (`Restart`). `merge` is
the policy of every shell; `Read` collects pieces into lines (`Taken`), and `odd`
remembers a failed write or an entry that was not one piece and one line.
`LineEditing`: both editors, the kill ring, the clipboard and the recorder.
`FocusChains`: a chain collected from a tree that grows, and the static chains.
`Views`: what each widget keeps, with a history variable for the cases in which it is
known to be stale (`raised`, `masked`, `rowKnown`, `chosenTab`).

### Interaction

The eight modules above side by side: it extends the readers, grows an input of one of
them character by character (`Grow`), and instantiates the other four (`H`, `L`, `F`,
`V`), of which one moves in each behaviour.

## Runs

| Run | Shows | Bounds, and why they are enough | States |
|---|---|---|---|
| `loop_all` | tasks posted from every callback run in order, before the iteration ends, and are never slept on; the thread blocks only on a flooded pipe; one-shot timers fire once and passes are complete while no vector moves; tasks run and `stop()` returns; with one posting thread beside the loop nothing is lost or slept on and every post completes, until a change of block meets a move of the map | a pipe of 2 bytes and 4 posts: it fills, drains and fills again; 4 timers and 2 idles: both vectors grow within their capacity and beyond it. `Small` lets a behaviour have many tasks or many timers, not both. The poster: 8 posts through blocks of 2 and a map of 5, which is moved within itself and then into a larger one | 349,259 |
| `posters_map` | violation: one posting thread, and the loop calls what is no task | 8 posts, blocks of 2, a map of 5 | |
| `posters_two` | violation: two posting threads lose a task | 1 post each | |
| `automaton_st8` | violation: 0x9C does not end a string | 4 bytes | |
| `text_all` | clusters against rules stated for the whole text; positions and offsets agree; motions and insertions; searches, replacements, rows and patches against what they mean; sharing strings is invisible; a generation names a text | 4 code points of 8 properties, and 4 of letters, spaces, line breaks and a mark: the rules look at two neighbours and a run before them, a patch needs two lines. 2 buffers, a snapshot, 4 strings: one more than there are handles, so that a copy always finds a cell | 17,580 |
| `segments_gb11` | violation: two joiners hold two pictographs in one cluster | 4 code points | |
| `text_eol` | violation: CRLF is reported as mixed | 4 code points | |
| `cursors_remap` | violation: a cursor behind another on its line is left where it was by `insert_each()` | 2 cursors | |
| `buffers` | the undo tree keeps its shape and branches and the buffer shows the current node; `scroll()` in place is the shift of its region and keeps wide graphemes whole; the cursor of a virtual terminal stays on its screen; damage is what was marked, the scrollback is the newest lines; the parser lets nothing leak between sequences, holds no text back, gives a CSI its own bytes and does not depend on the chunks | 3 texts, 4 nodes, transactions nested twice; cells of 3 rows and 2 columns; a virtual terminal of 2 by 2; damage of 2 rows of 4 cells: two regions of a row with a gap, and one that closes it; 4 bytes of 16 classes and a reset: every pair of states a sequence goes through, cut at every place | 1,901,231 |
| `processes` | frames survive short calls; a descriptor has one owner; a handle names its own child; a size change is never forgotten; the services keep what they promise; scrollback and screen of the emulator are what was printed | 3 messages of 0 to 2 bytes through a socket of 5, which a header alone nearly fills; 3 objects and 3 descriptors; 3 children and 2 ids, so that one comes back; 5 changes through a pipe of 3; 4 events; a throttle whose sums wrap; 3 sessions of 2 names, so that a name is there twice; four sizes, four parities and three numbers of stop bits, of which each port knows some; a screen of 2 by 2, resized down to nothing | 1,400,178 |
| `interaction` | every reader agrees with its reference; the history file, the editors, focus, views and boxes | inputs of up to 4 bytes and 8 tokens; 2 shells and 4 entries; lines of 3 bytes; 4 widgets, 2 roots; views of 4 rows | 729,996 |
| `recorder_json` | violation: a recording of output with an ESC is no JSON | 3 characters, ESC among them | |

In `loop_all`, `text_all`, `buffers`, `processes` and `interaction` one part moves in each
behaviour (the variable `part` or `moves`), because the parts share nothing; `Next` of each
is fired in full (`MCEventLoop`, `MCTexts` and `MCBuffers` put the modules side by side).

A run with `CHECK_DEADLOCK FALSE` is one of a system that may really stop: an
application that makes no further call, a stream that ends, a program that died.

Fairness: `WF(LoopStep)` says that a thread inside `run_once()` keeps executing (in
`MCSpec` within `Small`, which leaves out calls of the application only, so that a
step of the thread always remains); nothing is assumed of the application between two runs, of the clock or of the
descriptors. A poster's thread keeps executing once it is inside `post()`, and
its blocked `write()` returns when the pipe has room. The other modules state no
liveness: they move only when called.

## Proofs

One module of theorems for each component or group of components, named after it:
`EventLoopProofs`, `EventLoopPostersProofs`, `AutomatonProofs`, `TextBufferProofs`,
`UndoHistoryProofs`, `ScreenProofs` (cells, virtual terminal, terminal's parts),
`ProcessesProofs` and `InteractionProofs`. Each proves its modules' invariants for every value of the constants,
under the named assumptions beside their declarations and nothing else (one theorem,
`OnePosterServed`, adds that there is one poster): sizes and bounds are natural numbers
(`SizesAssumption`, `PartsAssumption`, `LimitsAssumption`, `BoundsAssumption`), a
capacity fits its counter (`WidthAssumption`), a pipe takes a byte (`PipeAssumption`,
`PostersAssumption`), values that stand for nothing are none of the real ones
(`FilesAssumption`, `FdsAssumption`, `GraphemesAssumption`, `TextAssumption`), ids and
bytes are numbers (`PidsAssumption`, `BytesAssumption`), the kinds of descriptors are
those of the code (`KindsAssumption`), handles of two sorts differ
(`HandlesAssumption`), the empty text is a text (`TextsAssumption`), a payload's length
fits its four bytes (`PayloadsAssumption`), the event bus has room for a subscriber
(`SubscribersAssumption`), and the like beside `Interaction`'s constants: no text is the
mark of a torn line, what is typed is a character, a ring keeps an entry, widgets are
numbers, a pager shows a row, coordinates are numbers. The proofs follow one pattern: an inductive invariant, one
lemma for each action that disturbs it, and a theorem that combines them.

* The loop. `NoLostWakeup` needs a strengthening: in every phase up to and
  including `dispatch` a queued task has a byte in the pipe unless the pipe has
  been drained in this very dispatch. `BlockedOnlyWhenFlooded` rests on the pipe
  never holding more bytes than were posted since the last drain. `OneShotOnce`
  and `PassComplete` rest on what the pass has done so far: the timers before
  `pos` are settled, those after it untouched.
* The posters. `OnePosterServed`: with one poster, for blocks and maps of any size and any
  number of posts, nothing is lost, repeated, reordered or slept on until a change of block
  meets a move of the map. `Ordered` says which blocks the map names, at every step of the
  move too, and that the tasks lie in them in the order of their posts; it holds as long as
  not `raced`. Without that condition the statement is false (`posters_map`), and so it
  is with two posters (`posters_two`).
* The parser. `FreshSequence` and `NothingHeldBack` are one inductive invariant
  (`PendingInv`); the refinement of `EscapeStream` goes action by action under it.
  `CsiKeepsItsBytes` needs that while a CSI is collected every byte since its
  introducer is in the sequence or was dropped by its class (`CollectedInv`).
* The buffer. `HandlesOK` says that every handle points at a string. Under it each
  step is one lemma about what the handles show afterwards (`SharingIsInvisible`);
  `GenerationNamesText` needs that a snapshot of a buffer is never ahead of it
  (`DatedInv`). Nothing is assumed of the edits for these two; that an edit at any
  position makes a text of a text (`TypesKept`) follows from where positions lie.
* Texts (`SegmentsExact`, `PositionsExact`, `CaretsMove`). For any alphabet and text:
  within a cluster `segment()`'s flags and counter say exactly what GB11 to GB13 ask of
  the text before it, but for rows of joiners, which GB11 does not pass; so outside
  `AfterTwoJoiners` its breaks are the boundaries, and none is missing but there; lines begin where as many line
  breaks as their number came before, clusters counted from a line's start determine the
  offset, and so a boundary survives the way to a position and back. A column of a line
  holds at least the clusters counted up to any place in it (`CountInStretch`), which
  keeps every motion on the text; a run of letters ends at a break, which makes the
  word motions end between letters of two kinds.
* The history. `ShapeInv` is the tree; `TextInv` adds that, unless strayed, the
  outermost `begin()` recorded the text of the current node (`before`), which is
  what makes the new edge match when the transaction commits.
* The cells. While `scroll()` runs, the rows it is done with hold what the region
  shifted says and the others what they held (`CellsInv`); the direction of the
  loop keeps every row still to be read among the latter.
* The virtual terminal. The cursor stays on the screen because every callback that
  moves it wraps at the size it reads, as long as the owner leaves the size alone.
* Damage (`PartsStayExact`). `merge()` keeps its regions in the order of their cells and
  apart (`Apart`), and covers after n regions exactly what those covered (`MergedWell`);
  which order `std::sort()` leaves does not matter.
* The channel (`MessagesArriveWhole`). What was sent and not yet received, framed, is
  what the receiver has read of a frame, followed by the wire, followed by what the
  sender has left (`ChannelInv`). A frame is then recognised by its first four bytes,
  whatever the calls cut.
* The descriptors. `DescriptorsOwned` is inductive with the types: it already counts the
  one descriptor of an opening under way among those that are owned, and by nobody else.
* The services. After `quit()` the loop is over and a turn that had begun goes on to its end
  (`AppInv`); a search for a name ends at its first session, which stays the first whatever
  is appended (`ChosenFirst`, `MuxInv`); and the flags of the line are the ones due
  (`LineInv`), `configure()`'s where none that it never clears is on (`Configurable`).
* Jobs, signals, the event bus. A handle that was neither copied nor asked
  `running()` shares its id with no other (`JobFacts`), which is why an id that comes
  back is not its child's; a change that is owed has a byte in the pipe or a drain that
  is about to call; the calls of `post()` on the stack are of different events, in the
  order they were queued (`StackInv`, `QueueInv`, `HeardInv`).
* The emulator. Every line of the scrollback and of the screen is a line of the sheet,
  counted from its end (`SheetLines`), until something is erased or resized (`torn`); the
  cursor is inside the screen whatever happens.
* Decoding (`Utf8IsTheStandard`). A valid text is one with a set of places to cut it at
  such that between two there is one character; each character decodes to the code point
  it encodes, and the inequalities of the decoder (`Minimum`, `Surrogate`) are those
  of the standard's table on the second byte. `EventsArriveAsSent` and
  `ValidatorsAreExact` go over the tokens and over the class.
* The history file (`HistoryIsKept`). While nothing odd happened the file is a row of
  whole lines, so what is read of it is the row of texts; to merge as one goes on or
  all at once is the same (`Merged`), whatever the policy, and doing it twice
  changes nothing.
* The editors (`EditorsAreExact`). Both editors keep their cursor behind the text, which
  stays UTF-8 until a backspace halves a character (`EditInv`, `ReadInv`). After a kill
  its text is the first of the ring, unturned, until something else touches the ring; the
  first of the clipboard is the last copy, cut at its limit (`RingInv`). The recorded
  events joined are what was shown (`RecordInv`), and an event without a control byte reads
  back as it was shown.
* Focus, views and boxes (`WidgetsAreExact`, `BoxesTile`). Widgets are a forest, since
  each has one parent, made before it (`Forest`). What is below a widget is the least set
  closed under children (`Tree`); two of them apart are disjoint (`TreesApart`), so the
  collected chain has each widget once. A tab that was chosen is at its index, a pager's
  offset is among its lines, a single policy leaves at most one path expanded (`TabInv`,
  `PagerInv`, `TreeInv`); the parts of a division add up to the whole.
* `ProgramsKeepTheirPromises` composes them: `Processes` implements each part's
  specification (`PartsAsSpecified`), so each theorem about a part holds of the whole.

Where a function of the model is recursive (`FlattenSeq` of frames, the loop of
`merge()`, the clusters of a text, a chain collected from a tree) the induction is done by hand: the set of numbers for which the claim fails
has no least one (`LeastNat`; `UpTo` is its form for an interval), since the library's induction theorems take an operator,
which the provers cannot instantiate. That a function defined by recursion on numbers
exists at all is shown the same way (`ClimbExists`).

Only model-checked: liveness (`PostedRuns`, `StopReturns`, `PostCompletes`), which the
prover cannot do; several posters; insertions by several cursors, searches, rows and
patches (`InsertsInPlace`, `SearchExact`, `WrapKeepsText`, `PatchApplies`), which are
stated over `RegexAt` and `Walk`, recursive operators, or fold over sorted sequences;
and of `ReadersExact` the bindings of keys, completion, configuration and grammars, and
the decoders of the other modules than `utf8`, for the same reason.

## Findings

* `posters_two`: `tasks_` (`EventLoop.hpp:154`) is not synchronised, and the
  manifest (`src/manifests/TTyUtils-Manifest.yaml:186-188`) offers cross-thread
  posted tasks.
* `posters_map`: one posting thread is enough: a `push_back()` that moves the deque's map
  overlaps a `pop_front()` that changes its block, and the loop calls what is no task
  (the same lines).
* `segments_gb11`: `segment()` (`Grampheme.hpp:139`) joins two pictographs across several
  joiners, where rule GB11 of UAX #29, which it says it follows (lines 95 and 111, and
  `src/manifests/TTyTk-Manifest.yaml:54`), asks for one.
* `recorder_json`: `write_json()` (`RecordTools.hpp:50`) leaves control characters as
  they are, so a recording with an ESC in it is saved as something that is no JSON, and not
  the asciicast v2 of `src/manifests/TTyTk-Manifest.yaml:416-417`.
* `automaton_st8`: the test for C1 bytes (`Automaton.hpp:86-99`) hides 0x9C from
  the code that ends strings at it (line 153, comment at 152).
* `text_eol`: `inspect_encoding()` (`TextBuffer.hpp:150`) finds a bare LF in every
  text with a line break, so CRLF is reported as mixed
  (`src/manifests/TTyUtils-Manifest.yaml:14`).
* `cursors_remap`: `insert_each()` (`TextCursor.hpp:159`) moves each cursor by its own
  insertion only, so of two cursors on a line the second is behind by what the first
  inserted (`src/manifests/TTyUtils-Manifest.yaml:31-33`).

More that the models show and no run states, because nothing in the repository says
otherwise or the case is left out of a property by its condition. CR LF is one cluster, so the last column of a line that ends in it
lies behind the break. An escaped `.` in a pattern matches any letter.
`CellBuffer::resize()` can cut a wide grapheme in half, which the manual rules out
(`src/docs/manual/03-terminal-foundation.md:48-49`). A call that fails in the middle of
a message leaves the channel out of step. `Shell::Job::running()` takes the status
`wait()` would return. A history entry longer than the stream's buffer may be torn by
another shell (`src/manifests/TTyUtils-Manifest.yaml:170-171`). `serial::Port::configure()` makes eight bits of five and six,
ignores a parity and a number of stop bits it does not know, applies neither the rate nor
software flow control, never clears odd parity, two stop bits or hardware flow control, and
returns true. `Server::create()` makes a second session of a name, which no client can
attach to, and the pointers that clients hold to sessions dangle once its vector grows.
`HistoryFile::append()` tests its stream before it is flushed, so a failed write goes
unnoticed. The owner of a `VirtualTerm` may resize its screen under the cursor, which
then never wraps; `Emulator` drops a control sequence that a chunk cuts. `Focus` keeps
static chains for the first root it was asked for. A total set below the value makes
a progress bar longer than its width. A wheel of the mouse is read as a button, and a
puppet sends a drag as a click. `Readline` erases one byte of a letter.

## Not modelled

`PROJECT.json` lists every part with the reason. Not modelled at all: painting and
printing of cells, functions that only build strings for a terminal (escape codes,
colours, images, notifications, themes), tables (character properties, terminal
descriptions), widgets that only set and paint, and headers that are stubs or hand a
call on. Left out of modelled parts: colours and attributes, options, file contents
beyond lines, the data race between a snapshot's release and `unique()`, objects moved
under pointers to them, several loops in one process (`post()` goes to the one made
last), `App::run()` called again from a callback of its own loop, the pointers to
sessions, handlers that call the parser again, subscribers that subscribe from their
callback, `NetLink`'s `Listener` (which closes a descriptor its copy still names), and
real time. `PROJECT.json` lists the hazards that matter most; those of this paragraph
and of the one above have no property.
