--------------------------------- MODULE Lookups ---------------------------------
(***************************************************************************)
(* The small readers and matchers of ttyutils: completion, config, validators *)
(* and input masks, and the grammars a file name or first line is looked up    *)
(* in.  Characters are numbers.                                               *)
(***************************************************************************)
EXTENDS Integers, SequencesExt

Space == 32
Quote == 34
Dash == 45
Equal == 61
Bracket == 91
Close == 93
Digit(c) == c \in 48..57

-----------------------------------------------------------------------------
\* Completion.

\* Mutant of Rank: every character is looked for from the start of the candidate.
RankAnywhere(query, candidate) == IF Range(query) \subseteq Range(candidate) THEN Len(query) ELSE -1

\* rank(): a prefix is worth more than any other match; the rest of the characters are
\* found in order, each at the first place there is; 10 for one that follows at once.
Rank(query, candidate) ==
  LET next(from, c) ==
        LET at == {i \in from..Len(candidate) : candidate[i] = c} IN IF at = {} THEN 0 ELSE Min(at)
      step(state, c) ==
        LET found == next(state.at, c)
        IN  IF state.score < 0 \/ found = 0 THEN [state EXCEPT !.score = -1]
            ELSE [at |-> found + 1, score |-> state.score + (IF found = state.at THEN 10 ELSE 1)]
  IN  IF IsPrefix(query, candidate) THEN 1000 - Len(candidate)
      ELSE FoldLeft(step, [at |-> 1, score |-> 0], query).score

\* WordSource::complete() and FilenameSource::complete(), of the names in one directory
WordSource(words, query) == SelectSeq(words, LAMBDA w : Rank(query, w) >= 0)
\* query(): what the sources gave, the best first, and one page of it.
Ranked(found, query) ==
  SortSeq([i \in DOMAIN found |-> [text |-> found[i], place |-> i,
             score |-> IF Rank(query, found[i]) > 0 THEN Rank(query, found[i]) ELSE 0]],
          LAMBDA a, b : a.score > b.score \/ (a.score = b.score /\ a.place < b.place))

Page(found, query, page, size) ==
  LET begin == Min({page * size, Len(found)})
  IN  SubSeq(Ranked(found, query), begin + 1, Min({begin + size, Len(found)}))

-----------------------------------------------------------------------------
\* Configuration: parse() of a line.

TrimEnd(text) == LET kept == {i \in DOMAIN text : text[i] # Space} IN SubSeq(text, 1, IF kept = {} THEN 0 ELSE Max(kept))
TrimStart(text) == LET kept == {i \in DOMAIN text : text[i] # Space} IN SubSeq(text, IF kept = {} THEN Len(text) + 1 ELSE Min(kept), Len(text))

\* atoll(): the digits at the start, or 0.
Number(text) ==
  LET others == {i \in DOMAIN text : ~ Digit(text[i])}
  IN  FoldLeft(LAMBDA n, c : 10 * n + (c - 48), 0, SubSeq(text, 1, IF others = {} THEN Len(text) ELSE Min(others) - 1))

True == <<116>>    \* the words "true" and "false", a character each here
False == <<102>>

\* The key and the value of a line, or nothing; a quoted value loses its first and its last
\* character, whatever the last one is.
ParseLine(line) ==
  LET equal == SelectInSeq(line, LAMBDA c : c = Equal)
      value == TrimStart(SubSeq(line, equal + 1, Len(line)))
  IN  IF equal = 0 THEN <<>>
      ELSE <<TrimEnd(SubSeq(line, 1, equal - 1)),
             CASE value \in {True, False} -> <<"bool", value = True>>
               [] value # <<>> /\ value[1] = Quote -> <<"text", SubSeq(value, 2, Len(value) - 1)>>
               [] OTHER -> <<"number", Number(value)>>>>

\* load(): the last line for a key is the one that stays.
Parse(lines) ==
  FoldLeft(LAMBDA values, line :
             LET parsed == ParseLine(line)
             IN  IF parsed = <<>> THEN values
                 ELSE [k \in DOMAIN values \cup {parsed[1]} |-> IF k = parsed[1] THEN parsed[2] ELSE values[k]],
           <<>>, lines)

\* Value::as(): the value if it has the type asked for.  Schema::valid().
As(value, type, fallback) == IF value[1] = type THEN value[2] ELSE fallback
SchemaValid(required, values) == required \subseteq DOMAIN values

-----------------------------------------------------------------------------
\* Input: Validator::regex() and InputMask::accepts().

\* The characters between the first "[" and the first "]", if there are both.
Class(pattern) ==
  LET open == SelectInSeq(pattern, LAMBDA c : c = Bracket)
      close == SelectInSeq(pattern, LAMBDA c : c = Close)
  IN  IF open = 0 \/ close = 0 THEN <<>>
      ELSE SubSeq(pattern, open + 1, IF close < open THEN Len(pattern) ELSE close - 1)

RangeAt(class, i) == i + 2 <= Len(class) /\ class[i + 1] = Dash

InClass(class, c) ==
  \E i \in DOMAIN class : c = class[i] \/ (RangeAt(class, i) /\ c \in class[i]..class[i + 2])

Matches(pattern, text) ==
  LET class == Class(pattern)
  IN  IF class = <<>> THEN text = pattern ELSE \A i \in DOMAIN text : InClass(class, text[i])

\* A mask's 9 stands for a digit, every other character for any.
Accepts(mask, text) ==
  mask = <<>> \/ (Len(text) <= Len(mask) /\ \A i \in DOMAIN text : mask[i] = 57 => Digit(text[i]))

-----------------------------------------------------------------------------
\* Grammars: a file is a sequence of the tokens of JSON, numbers for its words.

Mark == -1     \* "
Ask == -2      \* :
Open == -3     \* [
Shut == -4     \* ]

\* The first place of a token from a place on; 0 for none, as after none.
NextOf(file, token, from) ==
  LET at == {i \in from..Len(file) : file[i] = token} IN IF from = 0 \/ at = {} THEN 0 ELSE Min(at)

\* What follows the first place where a quoted name is, as a key or as a value; 0 for none.
AfterMarker(file, name) ==
  LET at == {i \in 1..Len(file) - 2 : SubSeq(file, i, i + 2) = <<Mark, name, Mark>>}
  IN  IF at = {} THEN 0 ELSE Min(at) + 3

OneOn(place) == IF place = 0 THEN 0 ELSE place + 1

\* field(): the quoted text behind the next colon.
Field(file, name) ==
  LET quote == NextOf(file, Mark, OneOn(NextOf(file, Ask, AfterMarker(file, name))))
      end == NextOf(file, Mark, OneOn(quote))
  IN  IF end = 0 THEN <<>> ELSE SubSeq(file, quote + 1, end - 1)

\* quoted_after(): the quoted texts between the next "[" and the "]" after it.
QuotedAfter(file, name) ==
  LET open == NextOf(file, Open, AfterMarker(file, name))
      close == NextOf(file, Shut, OneOn(open))
      marks == SetToSortSeq({i \in open + 1..close - 1 : file[i] = Mark}, <)
  IN  IF close = 0 THEN <<>>
      ELSE [i \in 1..Len(marks) \div 2 |-> SubSeq(file, marks[2 * i - 1] + 1, marks[2 * i] - 1)]

\* load_tm(): the names of the keys, and a file type made a glob (a leading 42, 46 is "*.").
LoadTm(file, keys) ==
  LET id == Field(file, keys.scope)
      glob(type) == IF type # <<>> /\ type[1] = 42 THEN type ELSE <<42, 46>> \o type
      types == QuotedAfter(file, keys.types)
  IN  [id |-> id, name |-> Field(file, keys.name), globs |-> [i \in DOMAIN types |-> glob(types[i])],
       keywords |-> QuotedAfter(file, keys.words)]

\* load_dir(): up to the first entry that is no regular file; then the grammars with an id.
LoadDir(entries, keys) ==
  LET stop == {i \in DOMAIN entries : ~ entries[i].regular} \cup {Len(entries) + 1}
      read == SelectSeq(SubSeq(entries, 1, Min(stop) - 1), LAMBDA e : e.grammar)
  IN  SelectSeq([i \in DOMAIN read |-> LoadTm(read[i].file, keys)], LAMBDA g : g.id # <<>>)

\* matches_filename(), by_filename(), by_id() and detect(): the first there is.
MatchesFilename(grammar, filename) ==
  \E i \in DOMAIN grammar.globs :
    LET glob == grammar.globs[i]
    IN  \/ IsPrefix(<<42, 46>>, glob) /\ IsSuffix(Tail(glob), filename)
        \/ glob = filename

ByFilename(registry, filename) == SelectInSeq(registry, LAMBDA g : MatchesFilename(g, filename))
ById(registry, id) == SelectInSeq(registry, LAMBDA g : g.id = id)

Detect(registry, filename, interpreters) ==
  LET named == SelectInSeq(interpreters, LAMBDA id : ById(registry, id) # 0)
  IN  IF ByFilename(registry, filename) # 0 THEN ByFilename(registry, filename)
      ELSE IF named = 0 THEN 0 ELSE ById(registry, interpreters[named])

-----------------------------------------------------------------------------

Subsequence(a, b) ==
  \E places \in [DOMAIN a -> DOMAIN b] :
    /\ \A i \in DOMAIN a : a[i] = b[places[i]]
    /\ \A i, j \in DOMAIN a : i < j => places[i] < places[j]

\* A word is offered exactly if the query's characters are in it in order; those it begins
\* come first; and the pages, one behind the other, are everything once.
CompletionExact(words, query) ==
  LET found == WordSource(words, query)
      pages == FlattenSeq([n \in 1..Len(words) + 1 |-> Page(found, query, n - 1, 2)])
  IN  /\ \A w \in Range(words) : Contains(found, w) <=> Subsequence(query, w)
      /\ Len(pages) = Len(found) /\ Range([i \in DOMAIN pages |-> pages[i].place]) = DOMAIN found
      /\ \A i, j \in DOMAIN pages :
           IsPrefix(query, pages[i].text) /\ ~ IsPrefix(query, pages[j].text) => i < j

\* Spaces around the "=" do not count, and a line without one changes nothing; and a value
\* asked for under another type is the fallback.
ConfigExact(line) ==
  LET equal == SelectInSeq(line, LAMBDA c : c = Equal)
      compact == TrimEnd(SubSeq(line, 1, equal - 1)) \o <<Equal>> \o TrimStart(SubSeq(line, equal + 1, Len(line)))
      parsed == ParseLine(line)
  IN  IF equal = 0 THEN Parse(<<line>>) = <<>>
      ELSE /\ parsed = ParseLine(compact)
           /\ \A fallback \in {0, 1} :
                parsed[2][1] # "number" => As(parsed[2], "number", fallback) = fallback
           /\ SchemaValid({parsed[1]}, Parse(<<line, line>>))

\* A class takes the characters it lists and those of its ranges; the dash of a range is
\* taken too; and what may follow the class ("+", say) is not looked at.
ValidatorExact(class, text) ==
  LET pattern == <<Bracket>> \o class \o <<Close, 43>>
      dashes == {i \in DOMAIN class : i > 1 /\ i < Len(class) /\ class[i] = Dash}
      listed(c) ==
        \/ \E i \in DOMAIN class \ dashes : class[i] = c
        \/ \E i \in dashes : c \in class[i - 1]..class[i + 1] \cup {Dash}
  IN  /\ class # <<>> /\ Bracket \notin Range(class) /\ Close \notin Range(class) =>
           (Matches(pattern, text) <=> \A i \in DOMAIN text : listed(text[i]))
      /\ Matches(text, text) \/ Class(text) # <<>>

\* The text of a grammar's file, from its pairs of a key and a value.
FileOf(pairs) ==
  FlattenSeq([i \in DOMAIN pairs |->
    <<Mark, pairs[i][1], Mark, Ask, Mark, pairs[i][2], Mark>>])

\* A field is the value of the first pair with its key, if no value before is that name;
\* the list of file types is read whole, and a file of each type is found by its name
\* unless it was meant as a whole name.
GrammarExact(pairs, keys) ==
  LET file == FileOf(pairs)
      first(key) == SelectInSeq(pairs, LAMBDA p : p[1] = key)
      types == <<<<7>>, <<42, 46, 8>>>>
      all == file \o <<Mark, keys.types, Mark, Ask, Open, Mark>> \o types[1] \o <<Mark, Mark>> \o types[2] \o <<Mark, Shut>>
      registry == LoadDir(<<[regular |-> TRUE, grammar |-> TRUE, file |-> all]>>, keys)
  IN  /\ \A key \in {keys.scope, keys.name} :
           (\A i \in DOMAIN pairs : pairs[i][2] # key) =>
             Field(file, key) = (IF first(key) = 0 THEN <<>> ELSE <<pairs[first(key)][2]>>)
      /\ (\A i \in DOMAIN pairs : keys.types \notin {pairs[i][1], pairs[i][2]}) =>
           /\ QuotedAfter(all, keys.types) = types
           /\ registry # <<>> => /\ ByFilename(registry, <<9, 46, 7>>) = 1
                                 /\ ByFilename(registry, <<9, 46, 8>>) = 1
                                 /\ ByFilename(registry, <<7>>) = 0
                                 /\ Detect(registry, <<7>>, <<<<0>>, registry[1].id>>) = 1

=================================================================================
