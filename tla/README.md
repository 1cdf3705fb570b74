# PChorAnalyzer in TLA+

PChorAnalyzer is a clang plugin. It reads a choreography (a `.cor` file in a
small language of parametrized multiparty session types), projects its final
global type onto every participant, and looks in the C++ code under compilation
for methods that carry out each participant's local protocol. This directory
specifies that pipeline, model-checks it and proves part of what it promises.

Paths are relative to the root of the repository; the short names below are
used throughout.

| short | file |
|---|---|
| FW  | `src/src/pchor/parser/PchorFileWrapper.hpp` |
| TOK | `src/src/pchor/parser/PchorTokenizer.cpp` (and `.hpp`) |
| PAR | `src/src/pchor/parser/PchorParser.cpp` |
| AST | `src/src/pchor/ast/PchorAST.hpp` |
| PP  | `src/src/pchor/ast/PchorProjection.cpp` (and `.hpp`) |
| AV  | `src/src/analyzer/visitors/AstVisitor.cpp` (and `.hpp`) |
| CV  | `src/src/analyzer/visitors/CASTValidator.cpp` (and `.hpp`) |
| UT  | `src/src/analyzer/utils/CASTAnalyzerUtils.cpp` |
| CM  | `src/src/analyzer/utils/ContextManager.hpp` |
| PL  | `src/src/analyzer/Plugin.cpp` |

## 1. Inventory

The plugin is one thread of the compiler, started by clang twice: `ParseArgs`
before the compilation, `HandleTranslationUnit` after it. There are no messages
and no persistent state. What is hard is elsewhere: recursive procedures that
share iterators and result pointers, tables keyed by names that may repeat,
loops counted in `size_t`, exceptions that abandon a pass in the middle, and
null pointers that one pass lets through and another meets.

| component | state | operations | interacts by |
|---|---|---|---|
| File wrapper and lexer (FW, TOK) | buffer without comments; position and line in it; at most 200 tokens | constructor, `genTokens`, `nextToken` | token list to the parser |
| Parser and symbol table (PAR) | token iterator; an end iterator per call; `keys` and `table` | `parseIndexDecl`, `parseParticipantDecl`, `parseChannelDecl`, `parseLabelDecl`, `parseGlobalTypeDecl` and the expression parsers | symbol table to the driver |
| Syntax tree and index arithmetic (AST) | immutable after parsing | `eval` with checked `size_t` arithmetic | visitors |
| CAST mapping visitor (AV 7-110, CM) | `CASTMapping`: names to clang declarations | one `visit` per node, `addMapping` | map to the validator |
| Projection visitor (AV 113-250, CM) | identifier map, projection map, current channel | one `visit` per node, `addProjection` | projection map to the validator |
| Projection lists and matcher (PP) | the C++ call stack: statement iterators by reference, result pointers | `Psend::` and `Precieve::validateFunctionDecl` | verdict to the validator |
| Validator (CV) | books of successful and failed validations | `validateProjection`, `printValidations` | console |
| Clang matchers (UT) | none | `findDecl`, `findMatchingMember`, `validateSendExpression`, ... | called by mapping, matcher, validator |
| Driver (PL) | symbol table, arguments | `ParseArgs`, `HandleTranslationUnit` | runs the passes in order |

What makes each correct, and what is hard about it:

* **Lexer.** The tokens of a file, with the lines they stand on. Hard: comments
  and white space are dropped by one pass and lines counted by another; the end
  of the buffer is the answer "no token of this class" and also where a token
  may end; and the list stops at 200 tokens, whatever follows.
* **Parser, token by token.** What it accepts it has read, all of it, each item
  in the scope it is written in. Hard: all calls of the recursive descent share
  one iterator while each has an end of its own, found by counting braces
  ahead, and the loops stop only when the two are equal; searches are bounded
  by that end alone, and run past it once the iterator has.
* **Parser, declaration by declaration.** Every name in the tree refers to an
  earlier declaration of the right kind, so that the visitors' recursion is
  well-founded. Hard: a name may be declared twice (it is listed twice, its
  first node stays), the token list may be cut anywhere, and one check (PAR 736)
  tests the wrong variable.
* **CAST mapping.** When it is through, every name the validator will ask for
  is mapped, and a channel to the right field. Hard: first mapping wins in a
  map shared by participants, channels and data types; the visitor goes over a
  list once, the projection any number of times.
* **Projection.** The lists are the endpoint projection of the choreography
  written out. Hard: nested and shadowing loop identifiers, bounds at both ends
  of `size_t`, loops that end at equality only, exceptions half-way.
* **Matcher.** An accepted method performs the protocol, in order; the search
  neither loses nor repeats a projection, and ends. Hard: a tail call shares
  its caller's iterator and result pointer, helpers are searched for the rest
  of the list and may fail after finding a part of it, call graphs may be
  cyclic.
* **Validator.** The report accounts for every participant, in good faith,
  independently of the order of a hash map. Hard: results are filed by method
  name, overloads share one, exceptions lose everything.

`PROJECT.json` lists the hazards one by one, each at its line, with the
properties aimed at it, and maps every definition to the lines it models.

## 2. Modules

| module | models |
|---|---|
| `Lexer` | the file wrapper and the lexer, character by character |
| `Parser` | the parser at the level of declarations, the symbol table, the lexer's cut; abstract |
| `TokenParser` | the parser at the level of tokens; implements `Parser` |
| `CASTMapping` | the mapping visitor and its map |
| `Analyzer` | the driver; composes `Parser` and `CASTMapping` |
| `Projection` | the projection visitor, index arithmetic, loop bounds |
| `Matcher` | the search of one method for one projection list |
| `ValidationReport` | the validator's loops and books, the answer of a search left open |
| `CASTValidator` | the validator; composes `ValidationReport` and `Matcher`, run for each candidate |
| `MC*` | instances for TLC; `MCTokenParser` also the reference definition of `NothingIgnored` |
| `LexerProofs`, `TokenParserProofs`, `AnalyzerProofs`, `ProjectionProofs`, `MatcherProofs`, `ValidationReportProofs`, `CASTValidatorProofs` | theorems and proofs |
| `LeastElement` | a lemma they share: a bounded set of numbers has a least |

```
  Lexer     TokenParser
                 |  (refines)
              Parser ----+              Projection     Matcher   ValidationReport
                         +--- Analyzer                     \       /
              CASTMapping+                               CASTValidator
```

Operators keep the names of the code (`parseGlobalTypeDecl`, `addMapping`,
`ContinueWith` excepted, which is a tail call and has none). Operators whose
comment begins with *slip* are not part of any specification: each is a
plausible mistake in the operation that follows it, and `PROJECT.json` names
the property that catches it when it takes that operation's place.

### Lexer

The characters are eight that stand for their classes: the end of a line and
another white space, `-` and `>` for the symbols, a digit, `n` (which is a
literal where a symbol or space follows), `/`, and a letter. `phase` says
whether the wrapper or the lexer is at work. The wrapper takes one turn of its
loop per step (`SkipComment`, `EndComment`, `StartComment`, `KeepSpace`,
`KeepChar`, and `Pad` for the space it ends the buffer with); the lexer takes
one token per step. The functions `isSymbol`, `isLiteral`, `isKeyword`,
`isIdentifier` return positions, `End` where the code returns the end iterator,
and are tried in the order of `nextToken`. `origin` is a history variable: the
position in the file of every character kept, which is what ties a token and
its line to the text the user wrote. The reference is `Ends`: the positions of
the file where a token ends, said of the text alone, without buffer, iterators
or phases.

### TokenParser

`tokens` is the list the lexer hands over, `itr` the iterator all calls share,
and a frame of `stack` is one call: the end of its scope (`end`), what it reads
next (`expects`), and the name that belongs to it. `body` collects the items of
the global type being read. A step reads what the code checks in one go: a
declaration without a body, the head of a global type or a `foreach`, or one
token of a communication or an index expression. `GlobalEnds` and `Closings`
are `findEndofScope` and `findEndofIterScope`; `Stops` is a `find_if` that goes
on to the end of the list when it begins behind the end of its scope. Every
action has the condition of its reading as an operator of its own (`Reads...`),
and `Throw` is the step when none holds. Reading beyond the vector, which is
undefined, may throw or crash (`ReadsBeyond`); a null pointer printed or asked
for its index crashes (`NullPrinted`, `NullIndexed`).

`ImplementsParser` is the refinement: on the tokens of a file of declarations,
cut anywhere, `keys`, `table` and `outcome` change only as `Parser` says. On
other tokens there is no such file (`file = << >>`), and the other properties
are what remains: nothing that was accepted was ignored, indexes have the
grammar of PAR 970-1022, scopes nest.

### Parser

State: `file` (the declarations, chosen by `Init` and never changed), `pos`,
`keys` and `table` (the two members of `SymbolTable`), `outcome`. A step reads
one declaration, as the loop of PAR 92-117 does, or ends the parse. The checks
of single tokens are one kind of declaration (`Malformed`), since the parser
throws at all of them; what a declaration does to the table, and every check
that looks a name up, is explicit. The nesting of a `foreach` only matters to
the syntax, as names are looked up in one global table, so a body is the flat
sequence of its items. `Tokens` counts tokens because `genTokens` stops at 200,
`MaxTokens` here: a declaration cut short is refused, one missing is not
noticed, and a cut right after the name of a global type makes PAR 420 read
beyond the end of the vector (`CutShort`, two outcomes). A receiver that is no
participant becomes `NoName`, a null pointer (`Linked`), unless its index is
looked at first (`DereferenceNull`). Its simplifications (one kind of malformed
declaration, flat bodies, counted tokens) are what `TokenParser` justifies.

### CASTMapping

`keys` and `table` are read; `itr` is the driver's loop (PL 50-55), `walk` the
recursion over expression lists, `map` the `CASTMapping`. The C++ code is a
function from class names to the data types of their fields, in order; clang's
matchers decide which class has which name and which field holds which type,
and these are taken as data. `findDecl` finds classes with a constructor only;
the domain of `fields` are those. Class names are taken to be unique.

### Analyzer

`phase` follows the driver: `ParseArgs`, `HandleTranslationUnit` in its two
modes (`onlyproj`), the passes, and the ends: `off` (clang goes on without the
plugin), `error` (an exception caught, PL 73), `crash`, `printed`, `reported`.
The projection and the validation are one step each, with the ends their own
modules show. `--debug` prints the tree, and so is one more way to meet a null
pointer. Cutting the path out of `--cor=` is not modelled.

### Projection

`stack` is the visitor's recursion: the expression lists being visited with
position, and, for a list that is the body of a loop, the identifier, counter
and last value. `indexIdentifierMap` and `projectionMap` are the visitor's
members. `SizeMax` is the largest `size_t`, and also the upper bound a
declaration with `n` gets, as in the code. `min` and `max` are what
`parseIterExpr` computes, predecessors taken in `size_t`; `eval` yields
`Undefined` where the code throws. The choreography is a graph of shared lists,
as a global type named in another is that one's list. The reference is
`Written`: the choreography with its loops unrolled and its types put in their
places, a function that knows no stack and no map.

### Matcher

One frame of `stack` is one scope under search. A C++ call with a new scope
(a helper's body) pushes a frame; a tail call to another projection of the list
(PP 72-78) replaces `self` in the top frame, because it shares the scope, its
iterators and the caller's result pointer. `matched` and `child` are the local
variables of the same meaning. A statement is what the clang matchers can say
about it: class, assignments, channels waited for, callee. The code reads one
statement past the end of an empty body to print a message (PP 39): the step
`ReadPastEmptyBody` may end the process there, or not be taken. `trail` is a
history variable, the statements counted as evidence; the reference for it is
`Inlined`, a body with its calls replaced by the bodies called.

### ValidationReport and CASTValidator

`ValidationReport` has the loops over participants and methods and the books,
and leaves the verdict of a candidate open; `CASTValidator` gets it from
`Matcher`, interleaving nothing: between two verdicts only the search runs. It
is a composition and not a refinement to be checked: its actions are made of
those of `Report == INSTANCE ValidationReport`, so that what is proved of the
books there holds here.
The properties of the books are checked in the composition, where the verdicts
come from real searches, and proved of `ValidationReport`, where they do not
matter. When a run may be abandoned is a question for the composition only:
`Report!Abort` may be taken at any candidate, and `AbortsForCause` says which
ones the composition takes it at. Its causes are those of the classes and the
code, not of the run: no definition, or calls (`Reach`) that lead to an empty
body, or nest deeper than the stack is.
The visiting order is any order, since the projection map is a hash map.
`validateFuncDecl` (CV 23-54) and `findDataTypeInClass` (UT 151-213) have no
caller and are not modelled; the exception of CV 65 cannot occur, as
`NamesMapped` shows that a participant is always mapped to a class.

## 3. Runs

Bounds are in the `.cfg` files; inputs are in the `MC` modules, chosen by `Init`
out of sets that are closed under the combinations of interest, so that a run
checks all programs or choreographies of its size at once.

| run | checks | what it shows |
|---|---|---|
| `lexer` | `TypeOK` `LinesTrue` `TokensExact` `Terminates` | every text of up to five characters of the eight classes: the tokens, their places and their lines are those of a definition that knows neither buffer nor iterators, up to the limit |
| `tokens` | `TypeOK` `ScopesNested` `CrashOnlyForCause` `NothingIgnored` `IndexesWellFormed` `ImplementsParser` `Terminates` | the recursive descent, on the tokens of declarations and on damaged ones: it stays in its scopes, crashes for two causes only, ignores nothing and reads whole index expressions |
| `matcher_calls` | `TypeOK` `PointerExact` `NeverBehindCaller` `OverflowOnlyIfTooDeep` `EvidenceInOrder` `FlatComplete` `Terminates` | bodies up to 3 statements, helpers up to 2, a helper of the helper that may call back, lists up to 3: the result pointer is exact, no scope searches for what its caller has passed, the evidence is in execution order, only cyclic or too deep calls exhaust the stack, the search ends; longer bodies without calls: a rejection is right |
| `matcher_accepts` | `AcceptedConforms`, violated | README.md:26: an acceptance need not mean the whole list was performed (PP 93) |
| `matcher_stale` | `ContinuesFromNext`, violated | PP 85: after a match the search may go on from the projection just matched |
| `validator` | `TypeOK` `ReportAccountsForAll` `UndefinedBehindSuccess` `AbortsForCause` `FiledInGoodFaith` `SameProtocolSameVerdict` `Terminates` | the validator with the real search, in every order of participants: its books are complete and exact, overloads included; a method without a definition is passed over only behind a success, and a run abandoned only at a method that gives cause; equal participants get equal reports |
| `projection` | `TypeOK` `KeysDeclared` `ScopesExact` `ProjectsWritten` `FailsForCause` `Terminates` | the walk against the reference definition `Written` |
| `projection_excludes` | `ExcludesFirst`, violated | PAR 561: `i > min(I)` does not leave out the first index (PAR 632) |
| `projection_unbounded` | `EveryRoleProjected`, violated | test/multiCastTest/desc.txt:10: a loop up to `n` is passed over (AV 226) |
| `analyzer` | `TypeOK` `RefersBackwards` `NamesMapped` `ChannelFitsCom` `CrashOnlyForCause` `Terminates` | parser, mapping and driver together |
| `parser_receiver` | `ReceiversDeclared`, violated | PAR 737: the receiver is not checked (PAR 736) |
| `parser_final` | `ProjectsFinalType`, violated | AV 117: the final global type need not be the one projected (PAR 47-48, TOK 48) |

Why the bounds are enough for what they are meant to show:

* *Lexer.* Five characters are enough for a comment with something before, in
  and after it, for two lines, for `->`, `-` and `n` next to each other and to
  the end of the file, and `MaxTokens = 4` cuts the longer texts.
* *Tokens.* Files with every combination of sender, receiver, channel and their
  indexes, and loops of every kind, nested and with re-used names, the longer
  ones cut at 60 tokens; and texts that hold every construct, with one token
  dropped, put in or replaced by any of 28, or cut off anywhere behind the
  declarations they begin with; and two texts whose receiver is declared a
  participant too late or under a name already taken: 7939 inputs. One wrong
  token is what makes a scope end elsewhere than its caller thinks.
* *Matcher.* The interesting event is a helper that finds part of the list and
  then fails, or finds it and leaves a pointer; it takes one helper of two
  statements and a list of two. A helper of the helper and `MaxDepth = 3` add
  pointers handed up twice, and recursion both ways.
* *Validator.* Two participants of one class and one of another, in any order.
  In the first class `put` may call `put2` and be called back by it, and either
  may be empty, so that searches die in the method itself, in a helper, and in a
  recursion deeper than `MaxDepth = 3`. In the second, `get` is declared after
  the method without a definition, which is tried only if `get` is rejected.
* *Projection.* Lists of three levels give loops in loops in named types, with
  the same identifier or another; indices `[1..2]`, `[1..1]`, `[0..0]`,
  `[1..n]` and the crossed `[2..1]` with every kind of loop make ranges of two, one and none, and bounds
  that wrap at either end. `SizeMax = 4` is large enough for sums that do and
  do not overflow, and small enough that a loop that runs through all of
  `size_t` ends.
* *Analyzer.* Prologues of 15 to 31 tokens before one, two or three
  declarations of 3 to 25, with `MaxTokens = 50`: the cut falls inside a
  declaration, right after a name, between two declarations and nowhere. Names
  are repeated with the same kind and with another, the name of the default
  index among them, references go forwards, backwards and in circles. Three C++
  programs make the receiver, the sender or nobody own the channel, with the
  first of several fields to be chosen, and leave a class out.

Preconditions that narrow a property: `ProjectsWritten` and `FailsForCause` are
about choreographies whose loops are bounded and have the bounds the comment of
`parseIterExpr` gives them (`Bounded`, `Plain`), which for a loop over all of an
index needs a declaration whose bounds are not crossed: the parser takes
`[2..1]`, and the walk then goes through all of `size_t`. The others are what
`projection_excludes` and `projection_unbounded` are about, and the other
properties of `projection` cover them too. `FlatComplete` is about bodies
without calls: with calls the search is not complete, by design (the first
helper that finds something commits it).

**Deadlock** is checked in every run; each specification stutters (`Done`) where
the program has ended and nowhere else.

**Fairness.** `FairSpec` is `Spec` with weak fairness of the whole next-state
relation, in `Lexer`, `TokenParser`, `Matcher`, `CASTValidator`, `Projection`
and `Analyzer`. It says that the one thread of the plugin goes on while it can;
nothing is assumed about which step it takes. Where a step stands for undefined
behaviour or an unknown order, either choice keeps the run fair. `Terminates`
says in each module that the run ends, by a crash or an exception if need be;
why it ended is for the safety properties (`AbortsForCause`, `FailsForCause`,
`CrashOnlyForCause`). Of a loop whose counter wraps it says that the loop ends,
and nothing of the 2^64 turns that may take (AV 244).

## 4. Theorems

| module | theorem | statement |
|---|---|---|
| `MatcherProofs` | `TypeCorrect` | `Spec => []TypeOK` |
| | `PointerIsExact` | `Spec => []PointerExact` |
| | `NeverBehind` | `Spec => []NeverBehindCaller` |
| | `NoOverflow` | `Spec => []OverflowOnlyIfTooDeep` |
| | `FlatIsComplete` | `Spec => []FlatComplete` |
| | `EvidenceIsInOrder` | `Spec => []EvidenceInOrder` |
| `ProjectionProofs` | `TypeCorrect` | `Spec => []TypeOK` |
| | `KeysAreDeclared` | `Spec => []KeysDeclared` |
| | `ScopesAreExact` | `Spec => []ScopesExact` |
| | `WrittenIsProjected` | `Spec => []ProjectsWritten` |
| | `FailuresHaveCauses` | `Spec => []FailsForCause` |
| `LexerProofs` | `NoTokenUnknown` | `Spec => []TypeOK` |
| | `LinesAreTrue` | `Spec => []LinesTrue` |
| | `TokensAreExact` | `Spec => []TokensExact` |
| `TokenParserProofs` | `TypesHold` | `Spec => []TypeOK` |
| | `ScopesAreNested` | `Spec => []ScopesNested` |
| | `CrashesHaveCause` | `Spec => []CrashOnlyForCause` |
| | `IndexesAreExpressions` | `Spec => []IndexesWellFormed` |
| `AnalyzerProofs` | `TypeCorrect` | `Spec => []TypeOK` |
| | `TreeIsAcyclic` | `Spec => []RefersBackwards` |
| | `NamesAreMapped` | `Spec => []NamesMapped` |
| | `ChannelsFit` | `Spec => []ChannelFitsCom` |
| | `CrashesHaveCause` | `Spec => []CrashOnlyForCause` |
| `ValidationReportProofs` | `BooksAreComplete` | `ReportAssumption /\ Spec => []ReportAccountsForAll` |
| `CASTValidatorProofs` | `TypesHold` | `Spec => []TypeOK` |
| | `ReportIsComplete` | `Spec => []ReportAccountsForAll` |
| | `GoodFaith` | `Spec => FiledInGoodFaith` |
| | `SameVerdicts` | `Spec => []SameProtocolSameVerdict` |
| | `UndefinedAreBehind` | `Spec => []UndefinedBehindSuccess` |
| | `AbortsHaveCause` | `Spec => []AbortsForCause` |

They hold for all values of the constants that satisfy the named assumptions
(`LexerAssumption`, `TokenParserAssumption`, `MatcherAssumption`,
`SizeAssumption`, `ChoreoAssumption`, `AnalyzerAssumption`,
`ValidatorAssumption`; `ReportAssumption` is a hypothesis of its theorem): every
text, every list of tokens, every program and list, every `size_t`, every file.
`ChoreoAssumption` says that a choreography has finitely many lists and that none
reaches itself by naming types. The parser sees to it: it completes a list
before another can name it, and `TreeIsAcyclic` is the theorem that it does.

The arguments:

* **Lexer.** `LinesTrue` is about tokens, and a step that adds one knows its
  line from the counter alone. `Counted` ties the counter to the text: up to any
  position of the buffer there are as many ends of line as in the file up to
  where that character comes from, because the wrapper keeps every end of line,
  those of comments included, and the counter has counted those that were
  passed (`NewlinesSplit`, `PushCounts`). For the types it takes that every word
  ends before the end of the buffer does, which is what the space added by the
  wrapper is for (`Padded`): without it, `End` as the answer "no" and `End` as
  the end of a word could not be told apart, and the last word would be
  `Unknown`.
* **Lexer: tokens.** `KeptInv` is about the wrapper. What it has kept comes from
  the text, in its order; every character before the turn it is at that is
  neither white space nor in a comment is among it (`AllMeant`); and two of
  these that touch in the buffer touched in the file (`Together`). Then
  the questions the lexer asks of the buffer (is here a symbol, a literal, a
  word, and where does it end) have the answer that `Ends` gives of the text
  (`Begins`, `TokenEnd`), one lemma for each class of token. `ReadInv` counts:
  as many tokens have been read as the text has ends up to the place reached
  (`BetweenTokens`), each one the next of `Ends`, which is how the token list
  and the set of ends stay in step without an enumeration of either.
* **Token parser: scopes.** The calls share an iterator, so that nothing about
  one call is inductive. `TokensInv` has what they hold together: their order
  (`CallsInOrder`), how far a communication has come (`UsesCounted`) and with
  which token (`ReadLast`), and that every `end` is the end of a scope of that
  kind (`ScopesEnd`). With those, a step of one token cannot pass an end of
  another call unless it reads a token without a look at its class. There are
  two such steps. The receiver (PAR 736) may be any token, the end of its own
  list too; `Passed` says so, and such a list never ends. The other is the token
  taken for the end of a parenthesis (PAR 986): it is the right one if the
  parentheses balance (`Balances`), and if not, one `)` too many is left, the
  expression never ends, and the excess can be read off the tokens still to come
  (`Doomed`). Outside of both, `Nesting` holds. `ScopesNested` says only what a
  call can rely on; neither exception could be left out of the invariant.
* **Token parser: crashes.** A crash needs a null pointer, or an iterator one
  behind the list. Null pointers have a cause, since what the text so far makes
  a participant is in the table (`TextDeclares`, needed only while the parse
  can still succeed, that is unless `Doomed`; `NullsHaveCause`); other uses are
  of names in the table (`Resolved`), and the table keeps the first
  declaration. The iterator leaves a scope behind only if the end was read as a
  receiver (`BehindCaused`), and an end is no participant: the same cause.
* **Token parser: indexes.** `IndexesWellFormed` compares an index that was read
  with a grammar without recursion: each token may follow the one before it
  (`Joins`), no `)` comes before its `(`, and as many are closed as were opened.
  `ExprInv` says while it is read that the text from the bracket on is the
  beginning of one (`Prefix`), and that as many parentheses are open as there
  are calls inside the communication (`Within`). The step that passes a token
  unseen (PAR 986) is where this could fail; then the expression is `Doomed`,
  which `TokensInv` keeps, and a doomed expression is never at its end. What is
  kept of the index follows the extremes read, which are of the index declared
  for what stands before the bracket (`OfIndex`).
* **Matcher.** `SearchInv` strengthens `PointerExact` and `NeverBehindCaller`
  to every open scope: for each frame, all projections before its `self` (and
  before its `child`, and `self` itself if `matched`) are placed in `trail`, in
  order, and `self` never falls behind the frame below. The lemmas `Embeds*` say
  that placing fewer projections, or placing them in a longer trail, is still
  placing them, and that a performing statement places one more. Neither
  property is inductive alone: what a returning callee promises is what its own
  frame knew. `NoOverflow` uses a second invariant: in a program whose functions can
  be ranked, each open scope's rank is below its caller's, so there are no more
  scopes than ranks. `FlatIsComplete` uses a third, `GreedyInv`: without calls
  the statements before the iterator do not place the projection searched for
  (`EmbedsShorter`), and when it has just been found, not the one after it
  (`EmbedsOneMore`).
* **Matcher: evidence.** That the evidence is a subsequence of an execution
  cannot be said of a scope alone: the rest of a callee that was left early is
  executed all the same. `EvidenceInv` holds, for the chain of open scopes, what
  the execution has done when it stands where each of them does (`Execution`),
  and the trail is spread over the last of these. A callee that returns adds
  the rest of its body without evidence in it. What `Inlined` computes is
  recursive in the depth of calls; the facts needed of it follow from a least
  depth at which they would fail (`LeastElement`).
* **Projection.** `WalkInv` adds to `TypeOK` that the frames of loops and the
  identifier map agree, and that counters are in `size_t` at every step,
  wrapping included; keys are in range because `VisitCom` is the only step that
  adds one and it checks them.
* **Projection: text.** `TextInv` relates a walk half-way to `Written`. The
  stack explains a text still to come: the rest of every open list and the
  remaining turns of every open loop, the innermost first, each under the
  identifiers that hold there (`Explains`). The text said before it, and this,
  are together the choreography written out (`Explained`), and the lists
  recorded are what each participant does in the text said (`Recorded`). A step
  moves one communication from one text to the other, or unfolds the next item,
  and changes nothing of their sum. The identifier map holds what the stack
  says, except where a loop re-used an outer loop's identifier and its end
  erased both (`Remembers`). `FailuresHaveCauses` rests on the same invariant:
  an exception means that the text has a key out of range or an evaluation
  without a value at this very place, or that an identifier was shadowed.
  `Written` recurs over a graph of lists, without cycles; as induction over
  an operator is not available, its unfoldings rest on a list of least height
  that would not unfold.
* **Analyzer.** `TreeInv` adds that every listed key is in the table (so that a
  name new to the table is new to the list) and that the default index stays
  one. `DeclarationKeeps` is the step: a node whose references are in the table
  may be added under any name, new or not, because the first declaration stays.
  `BodyResolves` shows that what a global type's checks let through refers to
  the table only; the receiver, which is not checked, is null rather than
  dangling. No later pass of the plugin writes the table, so what holds when
  the parser is through holds for the visitors.
* **Crashes of the plugin.** The null pointer is read long after the step that
  made it, so `DeclaredInv` ties the table to the file: every name in it was
  declared, a name whose first declaration makes it a participant is one, and a
  null receiver belongs to a global type that names no such participant.
  `LaterCrashInv` carries the cause on to the mapping, which could crash in one
  more way, by asking for a participant that is not mapped;
  `ParticipantsMapped` excludes it, since participants stand before the types
  that use them.
* **Mapping.** `MapInv` rests on `TreeInv`. What makes `NamesMapped` hold is
  that the visit of a tree without cycles leaves nothing out, and the property
  itself says nothing before the visit is over. `WalkInv` says it at every
  step: there is a set of global types the visit is through with (`Through`),
  closed under the types they name, whose communications are all mapped; and in
  each type still under visit, what stands before the current item is mapped or
  names a type of that set, or the one visited now. A list that ends joins the
  set. `BodiesFit` is what the visitor expects of bodies, null receivers
  included, and `NamesInv` keeps every name mapped to its own class or, a
  channel, to the field chosen for it.
* **Report.** `BooksInv` adds to `ReportAccountsForAll` what holds of the
  participant being tried: some number `k` of its candidates is filed as failed
  and the others are those still untried; of participants to come nothing is
  filed. The candidates of a class are a recursive function of its methods;
  that it is a sequence of methods follows from the least number for which it
  would not be (`LeastElement`), since induction over an operator is not
  available. `ReportIsComplete` takes it over to the validator with its search,
  which changes nothing of the books (`StepRefines`).
* **Good faith.** `FaithInv` lifts `SearchInv` to the validator: between two
  searches the result pointer is null and the stack empty, so that a search
  begins as `SearchBegins` of `MatcherProofs` wants it; during one the
  participant visited, and with it the list, stays (`ProjsOfVisited`), so that
  `SearchStep` applies although the list is not the same for all searches. A
  filed success has `PointerExact` behind it.
* **Same verdicts.** Two participants with the same list and the same methods
  get the same report although their searches lie far apart. A search is made
  a function: `Advance` gives the scopes and the verdict that follow from
  scopes, body and list, `StepAdvances` shows that every step is one of its,
  but for the death in an empty scope, and so what a search `Reached` is the
  same for both. `AnswersInv` says of each participant finished that its books
  are what the searches of its methods answer (`FiledAsAnswered`), the first k
  rejected, the next accepted; two such numbers k for the same list and
  methods are equal. Where the program dies in a search there is no report, and
  the property says nothing.
* **Undefined methods.** An answer is one of a defined method (`Answers`), so
  that of a participant finished every candidate up to the one accepted is; one
  that is not defined stands behind that, and the books have the success
  (`AccountedWith`).
* **Aborts.** The cause is in the call graph, and a search sees a scope at a
  time. `SearchWithin` says of every scope open that calls lead to it from the
  method tried (`ScopesWithin`), and that any ranking of what calls lead to
  leaves it room on the stack (`RoomWithin`); so an empty body that ends the
  process is one of those, and an overflow refutes every ranking. `CauseInv`
  carries this from the begin of a search to its end and on to the outcome,
  while `BooksInv` has that nothing of the participant was accepted.

Two of these properties were stronger once, and false: `CrashOnlyForCause`, of
`TokenParser` and of `Analyzer`, called a receiver declared if any declaration of
the text made it a participant. The null pointers would not go through the
induction, for a reason: the declaration must come before the use, and be the
first of its name. The definitions `UndeclaredReceiver` say so now, and the runs
`tokens` and `analyzer` have files of both sorts. In the same way `TypeOK` of
`CASTValidator` asked for a list under search even where there is no participant
to search for.

Only model-checked:

* liveness: `Terminates` of every module, for lack of a prover for it;
* `NothingIgnored`, whose reference filters what is read and what was kept and
  compares the two: it says what a recursion computes of a whole text;
* `ImplementsParser`, as the scope of a declaration in a list of tokens is found
  by induction over its items.

## 5. What is not modelled

* Messages and printing, with the lines and columns that only messages name.
  Opening and reading the file. Characters for which `isspace` and its like are
  undefined (negative ones), and literals that `stoull` refuses.
* The expressions of the clang matchers (UT): what a statement, a class or a
  field is to them is data of the models. In particular the index of a channel
  is never compared by the matchers (UT 316), so a channel is its field.
* `RecExpr`, `ConExpr` and labels: nothing constructs them, since
  `parseLabelDecl` throws for every label declaration and the recursive
  expression parser is not implemented.
* Dead code named in section 2.

## 6. Plan

1. *Compose the whole pipeline:* `Analyzer` with `Projection` and
   `CASTValidator` in place of its two one-step passes, on a handful of
   choreographies with their C++ programs, and the end-to-end property: a
   participant is reported as successful only if a method of its class performs
   the first action of the projection of the type that was projected.
2. *Completeness of the projection:* that a choreography without shadowed
   identifiers, with every index in range, is projected to the end; one
   direction of it is `FailuresHaveCauses`, the other is termination.
3. *Grammar of the token parser:* `NothingIgnored` restated over positions, as
   `TokensExact` is, so that it can be proved along `TokensInv`.
