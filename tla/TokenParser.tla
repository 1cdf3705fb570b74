----------------------------- MODULE TokenParser -----------------------------
(***************************************************************************)
(* PchorParser::parse (src/src/pchor/parser/PchorParser.cpp) on the tokens *)
(* of a file, be they those of declarations or not.  The parser descends   *)
(* recursively with one iterator shared by all calls, itr, and an iterator *)
(* `end' of each call's own, which is where the scope it reads ends.  A    *)
(* frame of `stack' is such a call.  A step reads one token of a           *)
(* communication or an index, or what is checked in one go: a declaration, *)
(* the head of a global type or of a foreach.                              *)
(***************************************************************************)
EXTENDS Naturals, FiniteSets, Sequences, SequencesExt

CONSTANTS
  Name, UnaryIndex, NoName, Files, MaxTokens,  \* see Parser
  Inputs   \* what to parse: <<file, tokens>>, with no file if there is none

VARIABLES
  file,                  \* the declarations the tokens were written from, if any
  keys, table, outcome,  \* see Parser
  tokens,                \* never changes
  itr,
  stack,                 \* the calls that read a global type, innermost last
  uses,                  \* of the communication being read: sender, receiver, channel
  body,                  \* of the global type being read: the items so far
  declared               \* history: what has been declared, in order

Declarations == INSTANCE Parser WITH pos <- Len(keys)

parserVars == <<file, keys, table, outcome>>
vars == <<file, keys, table, outcome, tokens, itr, stack, uses, body, declared>>

(***************************************************************************)
(* Tokens are known by their text.                                         *)
(***************************************************************************)
Keywords == {"Index", "Participant", "Channel", "Label", "foreach", "end", "min", "max"}
LeftBrace == "{"
RightBrace == "}"
Symbols == {LeftBrace, RightBrace, "<", ">", "[", "]", "(", ")", ".", "=", "+", "-", ":", "->"}
Literals == {"1", "2", "10", "n"}
EOF == "EOF"
Token == Keywords \cup Symbols \cup Literals \cup {EOF} \cup Name

ASSUME TokenParserAssumption ==
  /\ Declarations!ParserAssumption
  /\ Name \cap (Keywords \cup Symbols \cup Literals \cup {EOF, "beyond"}) = {}
  /\ Inputs \subseteq Seq(Declarations!Declaration) \X Seq(Token)

TypeOf(t) ==
  CASE t \in Keywords -> "Keyword"
    [] t \in Symbols  -> "Symbol"
    [] t \in Literals -> "Literal"
    [] t = EOF        -> "EndOfFile"
    [] t \in Name     -> "Identifier"

At(p) == IF p \in DOMAIN tokens THEN tokens[p] ELSE "beyond"
Is(p, type) == p \in DOMAIN tokens /\ TypeOf(tokens[p]) = type

resolve(t, tag) == Declarations!resolve(t, tag)

(***************************************************************************)
(* kind: an expression list, a communication, an arithmetic expression;    *)
(* expects: what the latter two read next; name: of the global type, or of *)
(* the index that an expression is to be of.                               *)
(***************************************************************************)
Frame(kind, end, expects, name) == [kind |-> kind, end |-> end, expects |-> expects, name |-> name]

Top == Last(stack)
Outer == outcome = "running" /\ stack = << >>
In(kind) == outcome = "running" /\ stack # << >> /\ Top.kind = kind
InList == In("list") /\ itr # Top.end

Expecting(what) == [stack EXCEPT ![Len(stack)].expects = what]

Init ==
  /\ \E input \in Inputs : file = input[1] /\ tokens = input[2]
  /\ keys = <<UnaryIndex>>
  /\ table = [n \in {UnaryIndex} |-> [tag |-> "Index"]]
  /\ outcome = "running"
  /\ itr = 1
  /\ stack = << >>
  /\ uses = << >>
  /\ body = << >>
  /\ declared = << >>

(***************************************************************************)
(* Looking ahead.  A search that starts behind the end of its scope never  *)
(* meets it, and goes on to the end of the list and beyond.                *)
(***************************************************************************)
AnyDot(t) == {p \in itr .. Len(tokens) : At(p) = t}   \* slip: not bounded by the scope

(* Where the search from itr for t may stop: at the scope's end, or there. *)
Stops(t) == {p \in itr .. Len(tokens) : p = Top.end \/ At(p) = t}

Occurrences(t, from, to) == Cardinality({p \in from .. to : At(p) = t})

(* findEndofScope, findEndofIterScope: what closes the bracket at p. *)
Closings(open, close, p) ==
  {q \in p + 1 .. (IF p <= Top.end THEN Top.end - 1 ELSE Len(tokens)) :
     At(q) = close /\ Occurrences(open, p, q) = Occurrences(close, p, q)}

(* The first "end" from p on that is not between braces. *)
OpenBraces(p, q) ==
  FoldLeft(LAMBDA d, t : CASE t = LeftBrace -> d + 1
                           [] t = RightBrace /\ d > 0 -> d - 1
                           [] OTHER -> d, 0, SubSeq(tokens, p, q))
GlobalEnds(p) == {q \in p .. Len(tokens) : At(q) = "end" /\ OpenBraces(p, q) = 0}

----------------------------------------------------------------------------
(***************************************************************************)
(* Declarations.                                                           *)
(***************************************************************************)
Declare(d, node, next) ==
  /\ Declarations!addDeclaration(d.name, node)
  /\ declared' = Append(declared, d)
  /\ itr' = next
  /\ UNCHANGED <<file, outcome, tokens, uses>>

ReadsIndexDecl ==
  /\ Outer
  /\ At(itr) = "Index"
  /\ Is(itr + 1, "Identifier")
  /\ At(itr + 2) = LeftBrace
  /\ Is(itr + 3, "Literal")
  /\ At(itr + 4) = "." /\ At(itr + 5) = "."
  /\ Is(itr + 6, "Literal")
  /\ At(itr + 7) = RightBrace

parseIndexDecl ==
  /\ ReadsIndexDecl
  /\ Declare([tag |-> "Index", name |-> At(itr + 1)], [tag |-> "Index"], itr + 8)
  /\ UNCHANGED <<stack, body>>

IndexArg == <<IF Is(itr + 3, "Literal") THEN "literal" ELSE "name", At(itr + 3)>>

ReadsIndexed(tag) ==
  /\ Outer
  /\ At(itr) = tag
  /\ Is(itr + 1, "Identifier")
  /\ At(itr + 2) = LeftBrace
  /\ Is(itr + 3, "Literal") \/ Is(itr + 3, "Identifier")
  /\ Declarations!IndexGiven(IndexArg)
  /\ At(itr + 4) = RightBrace

parseIndexed(tag) ==
  /\ ReadsIndexed(tag)
  /\ Declare([tag |-> tag, name |-> At(itr + 1), index |-> IndexArg],
             [tag |-> tag, index |-> Declarations!IndexOf(IndexArg)], itr + 5)
  /\ UNCHANGED <<stack, body>>

parseParticipantDecl == parseIndexed("Participant")
parseChannelDecl == parseIndexed("Channel")

(* Any symbol passes for the "=" (line 420). *)
ReadsGlobalType ==
  /\ Outer
  /\ Is(itr, "Identifier")
  /\ Is(itr + 1, "Symbol")
  /\ GlobalEnds(itr + 2) # {}

BeginGlobalType ==
  /\ ReadsGlobalType
  /\ stack' = <<Frame("list", Min(GlobalEnds(itr + 2)), "item", At(itr))>>
  /\ body' = << >>
  /\ itr' = itr + 2
  /\ UNCHANGED <<parserVars, tokens, uses, declared>>

EndGlobalType ==
  /\ In("list")
  /\ itr = Top.end
  /\ Len(stack) = 1
  /\ Declare([tag |-> "Global", name |-> Top.name, body |-> body],
             [tag |-> "Global", body |-> body], itr + 1)
  /\ stack' = << >>
  /\ UNCHANGED body

AtEnd == Outer /\ (itr > Len(tokens) \/ At(itr) = EOF)

Stop(how) ==
  /\ outcome' = how
  /\ UNCHANGED <<file, keys, table, tokens, itr, stack, uses, body, declared>>

Finish == AtEnd /\ Stop("parsed")

----------------------------------------------------------------------------
(***************************************************************************)
(* parseExpressionList: communications, global types, iterations, and      *)
(* between them any number of "." and "end".                               *)
(***************************************************************************)
Advance(frames, items) ==
  /\ stack' = frames
  /\ body' = items
  /\ itr' = itr + 1
  /\ UNCHANGED <<parserVars, tokens, declared>>

ReadsSeparator == InList /\ At(itr) \in {".", "end"}

StayAtEnd ==   \* slip: an "end" inside a body is recognised, but not passed
  /\ ReadsSeparator
  /\ itr' = IF At(itr) = "end" THEN itr ELSE itr + 1
  /\ UNCHANGED <<parserVars, tokens, stack, uses, body, declared>>

PassSeparator ==
  /\ ReadsSeparator
  /\ Advance(stack, body)
  /\ UNCHANGED uses

ReadsRef == InList /\ resolve(At(itr), "Global")

AddGlobalType ==
  /\ ReadsRef
  /\ Advance(stack, Append(body, [tag |-> "ref", name |-> At(itr)]))
  /\ UNCHANGED uses

ReadsSender == InList /\ resolve(At(itr), "Participant")

BeginCommunication ==
  /\ ReadsSender
  /\ Stops(".") # {}
  /\ Advance(Append(stack, Frame("com", Min(Stops(".")), "->", NoName)), body)
  /\ uses' = <<[name |-> At(itr), index |-> "none"]>>

(***************************************************************************)
(* parseForEachExpr, parseIterExpr, and parseMaxExpr or parseMinExpr there *)
(***************************************************************************)
Bound == At(itr + 3)
IndexAt == IF Bound = ":" THEN itr + 4 ELSE itr + 6
Brace == IF Bound = ":" THEN itr + 6 ELSE itr + 9

ReadsIteration ==
  /\ InList
  /\ At(itr) = "foreach"
  /\ At(itr + 1) = "("
  /\ Is(itr + 2, "Identifier")
  /\ At(itr + 2) \notin DOMAIN table
  /\ Bound # ":" =>
       /\ <<Bound, At(itr + 4)>> \in {<<"<", "max">>, <<">", "min">>}
       /\ At(itr + 5) = "(" /\ At(itr + 7) = ")"
  /\ resolve(At(IndexAt), "Index")
  /\ At(Brace - 1) = ")"

ReadsForEach == ReadsIteration /\ At(Brace) = LeftBrace /\ Closings(LeftBrace, RightBrace, Brace) # {}

BeginForEach ==
  /\ ReadsForEach
  /\ stack' = Append(stack, Frame("list", Min(Closings(LeftBrace, RightBrace, Brace)), "item", NoName))
  /\ body' = Append(body, [tag |-> "open", var |-> At(itr + 2), over |-> At(IndexAt), bound |-> Bound])
  /\ itr' = Brace + 1
  /\ UNCHANGED <<parserVars, tokens, uses, declared>>

EndForEach ==
  /\ In("list")
  /\ itr = Top.end
  /\ Len(stack) > 1
  /\ Advance(Front(stack), Append(body, [tag |-> "close"]))
  /\ UNCHANGED uses

----------------------------------------------------------------------------
(***************************************************************************)
(* parseCommunicationExpr.  The receiver is looked up, but whatever is     *)
(* found is taken (line 736 tests the sender again): the end of the scope, *)
(* too, with the iterator behind it from then on.                          *)
(***************************************************************************)
Punctuation == {<<"->", "receiver">>, <<":", "channel">>, <<"<", "type">>}

ReadsPunctuation ==
  /\ In("com")
  /\ At(itr) = Top.expects
  /\ Top.expects \in {"->", ":", "<"}
  /\ Top.expects = "->" => itr # Top.end

PassPunctuation ==
  /\ ReadsPunctuation
  /\ \E s \in Punctuation : At(itr) = s[1] /\ Advance(Expecting(s[2]), body)
  /\ UNCHANGED uses

ReceiverAsWritten == At(itr)   \* slip: what the text has, declared or not

Receiver == IF resolve(At(itr), "Participant") THEN At(itr) ELSE NoName

ReadsReceiver == In("com") /\ Top.expects = "receiver" /\ itr \in DOMAIN tokens

ReadReceiver ==
  /\ ReadsReceiver
  /\ Advance(Expecting(":"), body)
  /\ uses' = Append(uses, [name |-> Receiver, index |-> "none"])

ReadsChannel == In("com") /\ Top.expects = "channel" /\ resolve(At(itr), "Channel")

ReadChannel ==
  /\ ReadsChannel
  /\ Advance(Expecting("<"), body)
  /\ uses' = Append(uses, [name |-> At(itr), index |-> "none"])

ReadsType == In("com") /\ Top.expects = "type" /\ Is(itr, "Identifier")

ReadType ==
  /\ ReadsType
  /\ Advance(Expecting(">"), body)
  /\ UNCHANGED uses

ReadsComEnd == In("com") /\ Top.expects = ">" /\ At(itr) = ">"

Communication ==
  [tag |-> "com", from |-> uses[1], to |-> uses[2], on |-> uses[3], type |-> At(itr - 1)]

EndPastSeparator ==   \* slip: what comes next is taken for a "." and passed
  /\ ReadsComEnd
  /\ stack' = Front(stack)
  /\ body' = Append(body, Communication)
  /\ itr' = IF itr + 1 = stack[Len(stack) - 1].end THEN itr + 1 ELSE itr + 2
  /\ uses' = << >>
  /\ UNCHANGED <<parserVars, tokens, declared>>

EndCommunication ==
  /\ ReadsComEnd
  /\ Advance(Front(stack), Append(body, Communication))
  /\ uses' = << >>

----------------------------------------------------------------------------
(***************************************************************************)
(* parseIndexExpr, parseArithmeticExpr, parsePrimaryArithmeticExpr.  The   *)
(* declaration of what is indexed gives the index that min and max must be *)
(* of; a receiver that is null has none.                                   *)
(***************************************************************************)
OpensBracket ==
  /\ In("com")
  /\ Top.expects \in {"->", ":", "<"}
  /\ Last(uses).index = "none"
  /\ At(itr) = "["

ReadsIndexExpr == OpensBracket /\ Stops("]") # {} /\ At(Min(Stops("]"))) = "]"

IndexedBy(x) == [uses EXCEPT ![Len(uses)].index = x]

BeginIndexExpr ==
  /\ ReadsIndexExpr
  /\ Last(uses).name # NoName
  /\ Advance(Append(stack, Frame("expr", Min(Stops("]")), "operand", table[Last(uses).name].index)),
             body)
  /\ uses' = IndexedBy("plain")

Operand == In("expr") /\ Top.expects = "operand" /\ itr # Top.end
Operator == In("expr") /\ Top.expects = "operator"

(* "n" is a literal to the lexer, but no number to stoull. *)
ReadsAtom == Operand /\ (Is(itr, "Identifier") \/ (Is(itr, "Literal") /\ At(itr) # "n"))

ReadAtom ==
  /\ ReadsAtom
  /\ Advance(Expecting("operator"), body)
  /\ UNCHANGED uses

OfAnyIndex ==   \* slip: which index it is does not matter
  /\ Operand
  /\ At(itr) \in {"min", "max"}
  /\ At(itr + 1) = "("
  /\ resolve(At(itr + 2), "Index")
  /\ At(itr + 3) = ")"

ReadsExtreme ==
  /\ Operand
  /\ At(itr) \in {"min", "max"}
  /\ At(itr + 1) = "("
  /\ resolve(At(itr + 2), "Index")
  /\ At(itr + 3) = ")"
  /\ At(itr + 2) = Top.name

ReadExtreme ==
  /\ ReadsExtreme
  /\ stack' = Expecting("operator")
  /\ itr' = itr + 4
  /\ uses' = IndexedBy(At(itr + 2))
  /\ UNCHANGED <<parserVars, tokens, body, declared>>

ReadsParen == Operand /\ At(itr) = "(" /\ Closings("(", ")", itr) # {}

BeginParen ==
  /\ ReadsParen
  /\ Advance(Append(Expecting("operator"),
                    Frame("expr", Min(Closings("(", ")", itr)), "operand", Top.name)), body)
  /\ UNCHANGED uses

ReadsSign == Operator /\ itr # Top.end /\ At(itr) \in {"+", "-"}

PassSign ==
  /\ ReadsSign
  /\ Advance(Expecting("operand"), body)
  /\ UNCHANGED uses

Complete == Operator /\ (itr = Top.end \/ ~Is(itr, "Symbol"))
Nested == stack[Len(stack) - 1].kind = "expr"

(* Whatever token it is that the expression ended at is passed (line 986). *)
EndParen ==
  /\ Complete
  /\ Nested
  /\ Advance(Front(stack), body)
  /\ UNCHANGED uses

ReadsIndexEnd == Complete /\ ~Nested /\ itr = Top.end

EndAnyway ==   \* slip: what is left of the brackets is passed over
  /\ Complete
  /\ ~Nested
  /\ stack' = Front(stack)
  /\ itr' = Top.end + 1
  /\ UNCHANGED <<parserVars, tokens, uses, body, declared>>

EndIndexExpr ==
  /\ ReadsIndexEnd
  /\ Advance(Front(stack), body)
  /\ UNCHANGED uses

----------------------------------------------------------------------------
(***************************************************************************)
(* The ways to fail.                                                       *)
(***************************************************************************)
Reads ==
  \/ AtEnd
  \/ ReadsIndexDecl
  \/ ReadsIndexed("Participant")
  \/ ReadsIndexed("Channel")
  \/ ReadsGlobalType
  \/ In("list") /\ itr = Top.end
  \/ ReadsSeparator
  \/ ReadsRef
  \/ ReadsSender /\ Stops(".") # {}
  \/ ReadsForEach
  \/ ReadsPunctuation
  \/ ReadsReceiver
  \/ ReadsChannel
  \/ ReadsType
  \/ ReadsComEnd
  \/ ReadsIndexExpr
  \/ ReadsAtom
  \/ ReadsExtreme
  \/ ReadsParen
  \/ ReadsSign
  \/ Complete /\ Nested
  \/ ReadsIndexEnd

(* The declaration of a null receiver is asked for its index. *)
NullIndexed == ReadsIndexExpr /\ Last(uses).name = NoName

(* The message about a loop's identifier prints what it stands for. *)
NullPrinted ==
  /\ InList
  /\ At(itr) = "foreach"
  /\ At(itr + 1) = "("
  /\ Closings("(", ")", itr + 1) # {}
  /\ At(itr + 2) \in DOMAIN table
  /\ Declarations!ReachesNull(At(itr + 2))

(* The list of tokens ends before the search does, or the declaration. *)
NameLast == Outer /\ Is(itr, "Identifier") /\ itr = Len(tokens)

LabelsLast ==
  /\ Outer
  /\ At(itr) = "Label"
  /\ Is(itr + 1, "Identifier")
  /\ At(itr + 2) = LeftBrace
  /\ itr + 4 <= Len(tokens)
  /\ \A p \in itr + 3 .. Len(tokens) : Is(p, "Identifier")

SearchesOn ==
  \/ ReadsSender /\ Stops(".") = {}
  \/ OpensBracket /\ Stops("]") = {}
  \/ InList /\ itr > Top.end /\ At(itr) = "foreach" /\ At(itr + 1) \in {"(", "beyond"}
       /\ Closings("(", ")", itr + 1) = {}
  \/ ReadsIteration /\ itr > Top.end /\ At(Brace) \in {LeftBrace, "beyond"}
       /\ Closings(LeftBrace, RightBrace, Brace) = {}

ReadsBeyond ==
  \/ NameLast
  \/ LabelsLast
  \/ (In("list") \/ In("com")) /\ itr > Len(tokens)
  \/ SearchesOn

Throw ==
  /\ outcome = "running"
  /\ ~Reads
  /\ ~NullPrinted
  /\ Stop("failed")

Crash ==
  /\ NullIndexed \/ NullPrinted \/ ReadsBeyond
  /\ Stop("crashed")

Next ==
  \/ parseIndexDecl
  \/ parseParticipantDecl
  \/ parseChannelDecl
  \/ BeginGlobalType
  \/ EndGlobalType
  \/ Finish
  \/ PassSeparator
  \/ AddGlobalType
  \/ BeginCommunication
  \/ BeginForEach
  \/ EndForEach
  \/ PassPunctuation
  \/ ReadReceiver
  \/ ReadChannel
  \/ ReadType
  \/ EndCommunication
  \/ BeginIndexExpr
  \/ ReadAtom
  \/ ReadExtreme
  \/ BeginParen
  \/ PassSign
  \/ EndParen
  \/ EndIndexExpr
  \/ Throw
  \/ Crash

Done == outcome # "running" /\ UNCHANGED vars

Spec == Init /\ [][Next \/ Done]_vars
FairSpec == Spec /\ WF_vars(Next)

----------------------------------------------------------------------------
Call == [kind : {"list", "com", "expr"}, end : DOMAIN tokens,
         expects : {"item", "->", "receiver", ":", "channel", "<", "type", ">",
                    "operand", "operator"},
         name : Name \cup {NoName}]

(* Every variable has its type. *)
TypeOK ==
  /\ itr \in 1 .. Len(tokens) + 1
  /\ stack \in Seq(Call)
  /\ uses \in Seq(Declarations!Use) /\ Len(uses) <= 3
  /\ body \in Declarations!Body
  /\ declared \in Seq(Declarations!Declaration)
  /\ DOMAIN table \subseteq Name
  /\ table \in [DOMAIN table -> Declarations!Node]
  /\ outcome \in {"running", "parsed", "failed", "crashed"}

(***************************************************************************)
(* Every call reads inside its own scope, and its scope lies inside its    *)
(* caller's: with one iterator for all of them, nothing else makes a body  *)
(* end where its own brace closes.  There is one way out: a receiver may   *)
(* be anything, the token at which a caller is to stop included (line      *)
(* 736), and the loops of the callers only end at that token (line 461).   *)
(***************************************************************************)
EndReceived == \E f \in DOMAIN stack : tokens[stack[f].end - 1] = "->"

ScopesNested ==
  ~EndReceived =>
    \A f \in DOMAIN stack :
      /\ itr <= stack[f].end
      /\ \A g \in 1 .. f - 1 :
           /\ stack[f].end <= stack[g].end
           /\ stack[f].end = stack[g].end => stack[f].kind = "com"

(***************************************************************************)
(* Whatever the tokens are, the parser refuses them by an exception or     *)
(* accepts them, but for two causes: a receiver that was not declared a    *)
(* participant before it, or a list of tokens without an end of file, in   *)
(* which the name of a global type comes last or a label's identifiers do  *)
(* (lines 386 and 420).                                                    *)
(***************************************************************************)
DeclaredBefore(p, n) == \E q \in 1 .. p - 1 : tokens[q] = "Participant" /\ tokens[q + 1] = n

UndeclaredReceiver(p) ==
  /\ tokens[p] = "->"
  /\ ~(resolve(tokens[p + 1], "Participant") /\ DeclaredBefore(p, tokens[p + 1]))

CrashOnlyForCause ==
  outcome = "crashed" =>
    \/ \E p \in 1 .. Len(tokens) - 1 : UndeclaredReceiver(p)
    \/ Is(Len(tokens), "Identifier")

(***************************************************************************)
(* What an index is read from is all of an index expression, from the      *)
(* bracket behind what is indexed to the bracket that closes it: numbers,  *)
(* names and the extremes of the index that was declared for it, with a    *)
(* sign between any two and the parentheses balanced (lines 970-1022).     *)
(* And what is kept of it is whether there are extremes.  The parser finds *)
(* the end of brackets and parentheses ahead, and passes some token at a   *)
(* ")" unseen.                                                             *)
(***************************************************************************)
Value(p) == Is(p, "Identifier") \/ (Is(p, "Literal") /\ At(p) # "n")
Extremes(a, b) == \E p \in a .. b : At(p) \in {"min", "max"}

(* What may follow on the token p of an expression, with extremes of i. *)
Joins(p, i) ==
  /\ At(p) \in {"[", "(", "+", "-"} => Value(p + 1) \/ At(p + 1) \in {"(", "min", "max"}
  /\ At(p) = ")" \/ Value(p) => At(p + 1) \in {"+", "-", ")", "]"}
  /\ At(p) \in {"min", "max"} => At(p + 1) = "(" /\ At(p + 2) = i /\ At(p + 3) = ")"

IsIndexExpr(a, b, i) ==
  /\ At(a) = "[" /\ At(b) = "]"
  /\ \A p \in a .. b - 1 : /\ Joins(p, i)
                           /\ At(p) # "]"
                           /\ Occurrences(")", a, p) <= Occurrences("(", a, p)
  /\ Occurrences(")", a, b) = Occurrences("(", a, b)

IndexedAlready ==
  In("com") /\ Top.expects \in {"->", ":", "<"} /\ Last(uses).index # "none"

IndexesWellFormed ==
  IndexedAlready =>
    LET i == table[Last(uses).name].index
    IN  \E a \in 2 .. itr - 1 :
          /\ At(a - 1) = Last(uses).name
          /\ IsIndexExpr(a, itr - 1, i)
          /\ Last(uses).index = IF Extremes(a, itr - 1) THEN i ELSE "plain"

(***************************************************************************)
(* On the tokens of declarations, this is the parser of module Parser.     *)
(***************************************************************************)
ImplementsParser ==
  /\ file # << >> => Declarations!Init
  /\ [][file # << >> => Declarations!Next]_parserVars

(* The parser always comes to an end. *)
Terminates == <>(outcome # "running")
=============================================================================
