-------------------------------- MODULE Lexer --------------------------------
(***************************************************************************)
(* From the characters of a choreography to its tokens: the constructor of *)
(* PchorFileWrapper (src/src/pchor/parser/PchorFileWrapper.hpp), which     *)
(* strips comments and collapses white space, and PchorLexer               *)
(* (src/src/pchor/parser/PchorTokenizer.cpp).  One step of the wrapper is  *)
(* one turn of its loop, one step of the lexer is one token.               *)
(*                                                                         *)
(* A few characters stand for their classes: "NL", the end of a line, and  *)
(* " " for white space, "-" and ">" for the symbols, "1" for the digits,   *)
(* "n" for itself, and any other for the letters.                          *)
(***************************************************************************)
EXTENDS Naturals, Sequences, FiniteSets

CONSTANTS
  Char,       \* the characters of a file
  Keywords,   \* words: sequences of characters
  Texts,      \* the files to read: sequences of characters
  MaxTokens   \* where genTokens stops, end of file or not

Space == {" ", "NL"}
symbols == {"-", ">"}
Digit == {"1"}

ASSUME LexerAssumption ==
  /\ Space \cup symbols \cup Digit \cup {"/", "n"} \subseteq Char
  /\ Keywords \subseteq Seq(Char)
  /\ Texts \subseteq Seq(Char)
  /\ MaxTokens \in Nat \ {0, 1}

VARIABLES
  text,          \* the file; never changes
  i,             \* the wrapper's position in it
  inComment,
  lastWasSpace,
  buffer,        \* what the wrapper keeps of the file
  origin,        \* history: for each character kept, its position in the file
  itr,           \* the lexer's position in the buffer
  line,
  tokens,
  phase          \* "wrap", "lex", "done"

wrapVars == <<text, i, inComment, lastWasSpace, buffer, origin>>
lexVars == <<itr, line, tokens>>
vars == <<text, i, inComment, lastWasSpace, buffer, origin, itr, line, tokens, phase>>

Init ==
  /\ text \in Texts
  /\ i = 1
  /\ inComment = FALSE
  /\ lastWasSpace = FALSE
  /\ buffer = << >>
  /\ origin = << >>
  /\ itr = 1
  /\ line = 1
  /\ tokens = << >>
  /\ phase = "wrap"

----------------------------------------------------------------------------
(***************************************************************************)
(* The wrapper.                                                            *)
(***************************************************************************)
push_back(c) == buffer' = Append(buffer, c) /\ origin' = Append(origin, i)

Reading == phase = "wrap" /\ i <= Len(text)

Wrapped(n, comment, space) ==
  /\ i' = i + n
  /\ inComment' = comment
  /\ lastWasSpace' = space
  /\ UNCHANGED <<text, lexVars, phase>>

CommentHeld ==   \* slip: the continue before the counter is raised
  /\ Reading
  /\ inComment
  /\ text[i] # "NL"
  /\ UNCHANGED <<buffer, origin>>
  /\ Wrapped(0, TRUE, lastWasSpace)

SkipComment ==
  /\ Reading
  /\ inComment
  /\ text[i] # "NL"
  /\ UNCHANGED <<buffer, origin>>
  /\ Wrapped(1, TRUE, lastWasSpace)

CommentWithItsNewline ==   \* slip: the end of the line goes with the comment
  /\ Reading
  /\ inComment
  /\ text[i] = "NL"
  /\ UNCHANGED <<buffer, origin>>
  /\ Wrapped(1, FALSE, lastWasSpace)

EndComment ==
  /\ Reading
  /\ inComment
  /\ text[i] = "NL"
  /\ push_back("NL")
  /\ Wrapped(1, FALSE, lastWasSpace)

OpensComment == i < Len(text) /\ text[i] = "/" /\ text[i + 1] = "/"

StartComment ==
  /\ Reading
  /\ ~inComment
  /\ OpensComment
  /\ UNCHANGED <<buffer, origin>>
  /\ Wrapped(2, TRUE, lastWasSpace)

KeepChar ==   \* the end of a line is kept like any other character
  /\ Reading
  /\ ~inComment
  /\ ~OpensComment
  /\ text[i] # " "
  /\ push_back(text[i])
  /\ Wrapped(1, FALSE, FALSE)

KeepSpace ==
  /\ Reading
  /\ ~inComment
  /\ text[i] = " "
  /\ IF lastWasSpace THEN UNCHANGED <<buffer, origin>> ELSE push_back(" ")
  /\ Wrapped(1, FALSE, TRUE)

NoPadding ==   \* slip: the buffer ends where the file does
  /\ phase = "wrap"
  /\ i > Len(text)
  /\ phase' = "lex"
  /\ UNCHANGED <<wrapVars, lexVars>>

(* The buffer always ends in a space: the lexer takes what a word ends at *)
(* for the end of the buffer, which is how it says that there is none.    *)
Pad ==
  /\ phase = "wrap"
  /\ i > Len(text)
  /\ push_back(" ")
  /\ phase' = "lex"
  /\ UNCHANGED <<text, i, inComment, lastWasSpace, lexVars>>

----------------------------------------------------------------------------
(***************************************************************************)
(* The lexer.  A class of tokens is tried by looking for where it would    *)
(* end; End means that the token at itr is of another class.               *)
(***************************************************************************)
End == Len(buffer) + 1

First(S, otherwise) ==
  IF S = {} THEN otherwise ELSE CHOOSE j \in S : \A k \in S : j <= k

(* The first position from p on, or End, whose character is not in S. *)
PastAll(p, S) == First({j \in p .. Len(buffer) : buffer[j] \notin S}, End)

(* The same, for a character that is in S. *)
UpTo(p, S) == First({j \in p .. Len(buffer) : buffer[j] \in S}, End)

skipToNextToken == PastAll(itr, Space)

isSymbol(p) ==
  IF buffer[p] = "-" /\ p + 1 # End /\ buffer[p + 1] = ">" THEN p + 2
  ELSE IF buffer[p] \in symbols THEN p + 1 ELSE End

LiteralOrN(p) ==   \* slip: an n at the start of a word is a literal
  CASE buffer[p] = "n"     -> p + 1
    [] buffer[p] \in Digit -> PastAll(p, Digit)
    [] OTHER               -> End

isLiteral(p) ==
  CASE buffer[p] = "n" /\ p + 1 # End /\ buffer[p + 1] \in symbols \cup Space -> p + 1
    [] buffer[p] \in Digit -> PastAll(p, Digit)
    [] OTHER               -> End

isIdentifier(p) == UpTo(p, Space \cup symbols)

isKeyword(p) ==
  IF SubSeq(buffer, p, isIdentifier(p) - 1) \in Keywords THEN isIdentifier(p) ELSE End

(* What is tried, in this order; the first that finds an end is taken. *)
Class(p) ==
  IF isSymbol(p) # End THEN "Symbol"
  ELSE IF isLiteral(p) # End THEN "Literal"
  ELSE IF isKeyword(p) # End THEN "Keyword"
  ELSE IF isIdentifier(p) # End THEN "Identifier" ELSE "Unknown"

PossibleEnd(p) ==
  CASE Class(p) = "Symbol"  -> isSymbol(p)
    [] Class(p) = "Literal" -> isLiteral(p)
    [] Class(p) \in {"Keyword", "Identifier"} -> isIdentifier(p)
    [] Class(p) = "Unknown" -> p + 1

Newlines(s, from, to) == Cardinality({j \in from .. to : s[j] = "NL"})

Token(type, value, at, ln) == [type |-> type, value |-> value, at |-> at, line |-> ln]

(* genTokens goes on until the last token is that of the end. *)
Lexing ==
  /\ phase = "lex"
  /\ Len(tokens) < MaxTokens
  /\ tokens # << >> => tokens[Len(tokens)].type # "EndOfFile"

nextToken ==
  LET p == skipToNextToken IN
  /\ Lexing
  /\ p # End
  /\ line' = line + Newlines(buffer, itr, p - 1)
  /\ tokens' = Append(tokens, Token(Class(p), SubSeq(buffer, p, PossibleEnd(p) - 1),
                                    origin[p], line'))
  /\ itr' = PossibleEnd(p)
  /\ UNCHANGED <<wrapVars, phase>>

EndOfFile ==
  /\ Lexing
  /\ skipToNextToken = End
  /\ line' = line + Newlines(buffer, itr, Len(buffer))
  /\ tokens' = Append(tokens, Token("EndOfFile", << >>, Len(text) + 1, line'))
  /\ itr' = End
  /\ UNCHANGED <<wrapVars, phase>>

Finish ==
  /\ phase = "lex"
  /\ ~Lexing
  /\ phase' = "done"
  /\ UNCHANGED <<wrapVars, lexVars>>

Next ==
  \/ SkipComment
  \/ EndComment
  \/ StartComment
  \/ KeepChar
  \/ KeepSpace
  \/ Pad
  \/ nextToken
  \/ EndOfFile
  \/ Finish

Done == phase = "done" /\ UNCHANGED vars

Spec == Init /\ [][Next \/ Done]_vars
FairSpec == Spec /\ WF_vars(Next)

----------------------------------------------------------------------------
(***************************************************************************)
(* Every variable has its type, and no token is Unknown: each class gives  *)
(* End for "no", so a word that ends with the buffer would be taken apart  *)
(* into unknown characters.  The space that the wrapper adds (line 76 of   *)
(* PchorFileWrapper.hpp) is there for that.                                *)
(***************************************************************************)
TokenType == {"Symbol", "Literal", "Keyword", "Identifier", "EndOfFile"}

TypeOK ==
  /\ text \in Seq(Char)
  /\ i \in 1 .. Len(text) + 1
  /\ inComment \in BOOLEAN
  /\ lastWasSpace \in BOOLEAN
  /\ buffer \in Seq(Char)
  /\ origin \in Seq(1 .. Len(text) + 1)
  /\ Len(origin) = Len(buffer)
  /\ itr \in 1 .. End
  /\ line \in Nat \ {0}
  /\ tokens \in Seq([type : TokenType, value : Seq(Char), at : Nat, line : Nat])
  /\ Len(tokens) <= MaxTokens
  /\ phase \in {"wrap", "lex", "done"}

(***************************************************************************)
(* The line of a token, which every message of the parser names, is its    *)
(* line in the file, though the lexer counts in the buffer: comments leave *)
(* their ends of line there.                                               *)
(***************************************************************************)
LinesTrue ==
  \A t \in DOMAIN tokens :
    tokens[t].line = 1 + Newlines(text, 1, tokens[t].at - 1)

----------------------------------------------------------------------------
(***************************************************************************)
(* Reference: the tokens of a text, by a definition that goes neither by   *)
(* way of the buffer nor by way of the searches.  What is neither comment  *)
(* nor white space is split where two characters belong to different       *)
(* tokens.                                                                 *)
(***************************************************************************)
Commented(p) ==
  \E s \in 1 .. p : /\ s < Len(text) /\ text[s] = "/" /\ text[s + 1] = "/"
                    /\ Newlines(text, s, p) = 0

Meant(p) == p \in 1 .. Len(text) /\ text[p] \notin Space /\ ~Commented(p)

(* From the start of its word, or from a symbol, up to p only digits. *)
InNumber(p) ==
  \E s \in 1 .. p : /\ \A q \in s .. p : Meant(q) /\ text[q] \in Digit
                    /\ Meant(s - 1) => text[s - 1] \in symbols

EndsToken(p) ==
  \/ ~Meant(p + 1)
  \/ {text[p], text[p + 1]} \cap symbols # {} /\ ~(text[p] = "-" /\ text[p + 1] = ">")
  \/ text[p + 1] \notin Digit /\ InNumber(p)

Ends == {p \in 1 .. Len(text) : Meant(p) /\ EndsToken(p)}

(* The token that ends at e: how many there are up to it, where it begins. *)
Nth(ends, e) == Cardinality({d \in ends : d <= e})
StartOf(ends, e) == First({p \in 1 .. e : Meant(p) /\ \A d \in ends : d < e => d < p}, e)

TypeOf(v) ==
  IF v[1] \in symbols THEN "Symbol"
  ELSE IF v = <<"n">> \/ v[1] \in Digit THEN "Literal"
  ELSE IF v \in Keywords THEN "Keyword" ELSE "Identifier"

IsToken(t, type, value, at) == t.type = type /\ t.value = value /\ t.at = at

(***************************************************************************)
(* The tokens are those of the file, up to the limit: nothing is lost with *)
(* a comment, joined across one, split but after a number, or out of       *)
(* order; and what says that the file has ended comes after all of it.     *)
(***************************************************************************)
TokensExact ==
  phase = "done" =>
    LET ends == Ends
        n == Cardinality(ends)
    IN  /\ Len(tokens) = IF n < MaxTokens THEN n + 1 ELSE MaxTokens
        /\ \A e \in ends : Nth(ends, e) <= Len(tokens) =>
             LET at == StartOf(ends, e)
                 value == SubSeq(text, at, e)
             IN  IsToken(tokens[Nth(ends, e)], TypeOf(value), value, at)
        /\ n < MaxTokens => IsToken(tokens[n + 1], "EndOfFile", << >>, Len(text) + 1)

(* The file is always read to an end, or to the limit. *)
Terminates == <>(phase = "done")
=============================================================================
