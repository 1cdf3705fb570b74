------------------------------- MODULE Parser -------------------------------
(***************************************************************************)
(* PchorParser::parse and the symbol table it fills                        *)
(* (src/src/pchor/parser/PchorParser.cpp): one step per declaration of the *)
(* file.  A declaration is read whole or the parse is over, so the tokens  *)
(* are left out, but for their number, which the lexer limits; what a      *)
(* check of single tokens refuses is a "Malformed" declaration.            *)
(***************************************************************************)
EXTENDS Naturals, Sequences, SequencesExt

CONSTANTS
  Name,        \* identifiers, of the choreography and of the C++ code
  UnaryIndex,  \* PchorUnaryIndex, the index of what is declared with {1}
  NoName,      \* a null pointer where a declaration should be
  Files,       \* the files to parse: sequences of declarations
  MaxTokens    \* where the lexer stops, end of file or not

(***************************************************************************)
(* The index of a participant or a channel is an index declaration or the  *)
(* literal 1; "10" stands for every other numeral that begins with 1, "2"  *)
(* for the rest.                                                           *)
(***************************************************************************)
IndexArg == ({"name"} \X Name) \cup ({"literal"} \X {"1", "10", "2"})

(***************************************************************************)
(* A use of a participant or channel: without brackets, with an arithmetic *)
(* expression in them, or with one that holds min(I) or max(I).            *)
(***************************************************************************)
Use == [name : Name \cup {NoName}, index : {"none", "plain"} \cup Name]

(***************************************************************************)
(* The body of a global type, in the order of the text.  The braces of a   *)
(* foreach are items of their own: they are matched before the body is     *)
(* parsed, and no name is looked up differently between them.  A loop runs *)
(* over all of an index (":"), up to its maximum ("<") or from its minimum *)
(* on (">").                                                               *)
(***************************************************************************)
Com   == [tag : {"com"}, from : Use, to : Use, on : Use, type : Name]
Open  == [tag : {"open"}, var : Name, over : Name, bound : {":", "<", ">"}]
Close == [tag : {"close"}]
Ref   == [tag : {"ref"}, name : Name]
Body  == Seq(Com \cup Open \cup Close \cup Ref)

Declaration ==
  [tag : {"Index"}, name : Name]
    \cup [tag : {"Participant", "Channel"}, name : Name, index : IndexArg]
    \cup [tag : {"Label", "Malformed"}, name : Name]
    \cup [tag : {"Global"}, name : Name, body : Body]

(* The nodes of the syntax tree.  A pointer to a node is its name: the node a *)
(* name stands for never changes (RefersBackwards).                           *)
Node ==
  [tag : {"Index"}]
    \cup [tag : {"Participant", "Channel"}, index : Name]
    \cup [tag : {"Global"}, body : Body]

ParserAssumption ==
  /\ UnaryIndex \in Name
  /\ NoName \notin Name
  /\ Name \cap {"none", "plain"} = {}
  /\ Files \subseteq Seq(Declaration)
  /\ MaxTokens \in Nat

VARIABLES
  file,     \* the declarations of the file; never changes
  pos,      \* the next one
  keys,     \* the names declared, in the order of the declarations
  table,    \* the node of every name
  outcome   \* "running", "parsed", "failed" (an exception), "crashed"

parserVars == <<file, pos, keys, table, outcome>>

(***************************************************************************)
(* SymbolTable: a name already there keeps its node, but is listed again.  *)
(***************************************************************************)
InsertOrAssign(t, n, node) ==   \* slip: the last declaration is kept
  [m \in DOMAIN t \cup {n} |-> IF m = n THEN node ELSE t[m]]

Insert(t, n, node) ==
  [m \in DOMAIN t \cup {n} |-> IF m \in DOMAIN t THEN t[m] ELSE node]

addDeclaration(n, node) ==
  /\ keys' = Append(keys, n)
  /\ table' = Insert(table, n, node)

resolve(n, tag) == n \in DOMAIN table /\ table[n].tag = tag

Init ==
  /\ file \in Files
  /\ pos = 1
  /\ keys = <<UnaryIndex>>
  /\ table = [n \in {UnaryIndex} |-> [tag |-> "Index"]]
  /\ outcome = "running"

----------------------------------------------------------------------------
(***************************************************************************)
(* The tokens of a declaration.  The lexer hands over those of the file    *)
(* and an end-of-file token, but never more than MaxTokens.                *)
(***************************************************************************)
Brackets(u) == CASE u.index = "none" -> 0 [] u.index = "plain" -> 3 [] OTHER -> 6

ItemTokens(it) ==
  CASE it.tag = "com"   -> 9 + Brackets(it.from) + Brackets(it.to) + Brackets(it.on)
    [] it.tag = "open"  -> IF it.bound = ":" THEN 7 ELSE 10
    [] it.tag = "close" -> 3
    [] it.tag = "ref"   -> 2

Tokens(d) ==
  CASE d.tag = "Index"  -> 8
    [] d.tag = "Global" -> FoldLeft(LAMBDA n, it : n + ItemTokens(it), 3, d.body)
    [] OTHER            -> 5

TokensOf(ds) == FoldLeft(LAMBDA n, d : n + Tokens(d), 0, ds)
TokensTo(k) == TokensOf(SubSeq(file, 1, k))

Kept(k) == TokensTo(k) <= MaxTokens   \* the first k declarations are whole

(* The tokens end with the file, or where the lexer stopped. *)
AtEnd == pos > Len(file) \/ TokensTo(pos - 1) >= MaxTokens

Here == file[pos]

CutAfterName == Here.tag = "Global" /\ TokensTo(pos - 1) + 1 = MaxTokens

At(tag) == outcome = "running" /\ ~AtEnd /\ Kept(pos) /\ Here.tag = tag

(***************************************************************************)
(* Index, Participant, Channel: five or eight tokens and a name.           *)
(***************************************************************************)
parseIndexDecl ==
  /\ At("Index")
  /\ addDeclaration(Here.name, [tag |-> "Index"])
  /\ pos' = pos + 1
  /\ UNCHANGED <<file, outcome>>

IndexGiven(arg) ==
  IF arg[1] = "name" THEN resolve(arg[2], "Index") ELSE arg[2] \in {"1", "10"}

IndexOfName(arg) ==   \* slip: no default index for the literal
  IF arg[1] = "name" THEN arg[2] ELSE NoName

IndexOf(arg) == IF arg[1] = "name" THEN arg[2] ELSE UnaryIndex

parseIndexed(tag) ==
  /\ At(tag)
  /\ IndexGiven(Here.index)
  /\ addDeclaration(Here.name, [tag |-> tag, index |-> IndexOf(Here.index)])
  /\ pos' = pos + 1
  /\ UNCHANGED <<file, outcome>>

parseParticipantDecl == parseIndexed("Participant")
parseChannelDecl == parseIndexed("Channel")

(***************************************************************************)
(* Global types.  Every name in the body must be declared by now, and as   *)
(* what it is used for; but the receiver's declaration is not looked at    *)
(* (line 736 tests the sender's again) before its index is, if it has one. *)
(* The message that refuses a declared name as a loop's identifier prints  *)
(* its declaration, and with it such receivers (line 574).                 *)
(***************************************************************************)
Coms(n) == {it \in ToSet(table[n].body) : it.tag = "com"}
Refs(n) == {it.name : it \in {r \in ToSet(table[n].body) : r.tag = "ref"}}
Globals == {n \in DOMAIN table : table[n].tag = "Global"}

NoReceiver(n) == \E c \in Coms(n) : c.to.name = NoName

ReachesNull(n) ==   \* in every set of types closed under Refs that n is in
  n \in Globals /\ \A S \in SUBSET Globals :
    n \in S /\ (\A g \in S : Refs(g) \subseteq S) => \E g \in S : NoReceiver(g)

IndexFits(u) ==
  u.index \in Name => resolve(u.index, "Index") /\ table[u.name].index = u.index

Sends(it) == resolve(it.from.name, "Participant") /\ IndexFits(it.from)

Dereferences(it) ==
  \/ it.tag = "com" /\ Sends(it) /\ ~resolve(it.to.name, "Participant") /\ it.to.index # "none"
  \/ it.tag = "open" /\ ReachesNull(it.var)

Refused(it) ==
  CASE it.tag = "com"   -> \/ ~Sends(it)
                           \/ resolve(it.to.name, "Participant") /\ ~IndexFits(it.to)
                           \/ ~resolve(it.on.name, "Channel")
                           \/ ~IndexFits(it.on)
    [] it.tag = "open"  -> it.var \in DOMAIN table \/ ~resolve(it.over, "Index")
    [] it.tag = "close" -> FALSE
    [] it.tag = "ref"   -> ~resolve(it.name, "Global")

Bad(body) == {i \in DOMAIN body : Dereferences(body[i]) \/ Refused(body[i])}
FirstBad(body) == body[CHOOSE i \in Bad(body) : \A j \in Bad(body) : i <= j]

(* The pointer to the receiver is null unless it is a participant. *)
Linked(it) ==
  IF it.tag = "com" /\ ~resolve(it.to.name, "Participant")
    THEN [it EXCEPT !.to.name = NoName]
    ELSE it

parseExpressionList(body) == [i \in DOMAIN body |-> Linked(body[i])]

parseGlobalTypeDecl ==
  /\ At("Global")
  /\ Bad(Here.body) = {}
  /\ addDeclaration(Here.name, [tag |-> "Global", body |-> parseExpressionList(Here.body)])
  /\ pos' = pos + 1
  /\ UNCHANGED <<file, outcome>>

(***************************************************************************)
(* The ways to end.                                                        *)
(***************************************************************************)
Stop(how) ==
  /\ outcome' = how
  /\ UNCHANGED <<file, pos, keys, table>>

(***************************************************************************)
(* A declaration cut short by the lexer's limit is refused.  But if only   *)
(* the name of a global type is left, the token that should be "=" is read *)
(* beyond the end of the list (line 418), with any outcome of such a read. *)
(***************************************************************************)
CutShort ==
  /\ outcome = "running"
  /\ ~AtEnd
  /\ ~Kept(pos)
  /\ \/ Stop("failed")
     \/ CutAfterName /\ Stop("crashed")

(* parseLabelDecl finds no label declaration it accepts. *)
ThrowDeclaration ==
  /\ \/ At("Label") \/ At("Malformed")
     \/ (At("Participant") \/ At("Channel")) /\ ~IndexGiven(Here.index)
  /\ Stop("failed")

ThrowBody ==
  /\ At("Global")
  /\ Bad(Here.body) # {}
  /\ ~Dereferences(FirstBad(Here.body))
  /\ Stop("failed")

DereferenceNull ==
  /\ At("Global")
  /\ Bad(Here.body) # {}
  /\ Dereferences(FirstBad(Here.body))
  /\ Stop("crashed")

Finish ==
  /\ outcome = "running"
  /\ AtEnd
  /\ Stop("parsed")

Next ==
  \/ parseIndexDecl
  \/ parseParticipantDecl
  \/ parseChannelDecl
  \/ parseGlobalTypeDecl
  \/ CutShort
  \/ ThrowDeclaration
  \/ ThrowBody
  \/ DereferenceNull
  \/ Finish

Done == outcome # "running" /\ UNCHANGED parserVars

Spec == Init /\ [][Next \/ Done]_parserVars

----------------------------------------------------------------------------
(* Every variable has its type. *)
TypeOK ==
  /\ file \in Seq(Declaration)
  /\ pos \in Nat \ {0}
  /\ keys \in Seq(Name) \ {<< >>}
  /\ DOMAIN table \subseteq Name
  /\ table \in [DOMAIN table -> Node]
  /\ outcome \in {"running", "parsed", "failed", "crashed"}

(***************************************************************************)
(* A node refers to nodes of the right kind, listed before its own name is *)
(* at all: the tree the visitors walk has no cycle, though declarations    *)
(* may repeat names.                                                       *)
(* This hangs on the first declaration of a name being the one that stays  *)
(* (line 48), and on a global type not being in the table while its own    *)
(* body is read (lines 441-444).                                           *)
(***************************************************************************)
Listed(n, k) == \E i \in 1 .. k : keys[i] = n

RefersTo(it) ==
  CASE it.tag = "com"   -> {<<it.from.name, "Participant">>, <<it.on.name, "Channel">>}
    [] it.tag = "open"  -> {<<it.over, "Index">>}
    [] it.tag = "close" -> {}
    [] it.tag = "ref"   -> {<<it.name, "Global">>}

References(node) ==
  CASE node.tag = "Index"  -> {}
    [] node.tag = "Global" -> UNION {RefersTo(node.body[i]) : i \in DOMAIN node.body}
    [] OTHER               -> {<<node.index, "Index">>}

RefersBackwards ==
  \A n \in DOMAIN table :
    /\ Listed(n, Len(keys))
    /\ \A r \in References(table[n]) :
         /\ resolve(r[1], r[2])
         /\ \A i \in DOMAIN keys : keys[i] = n => Listed(r[1], i - 1)

(***************************************************************************)
(* What the message of line 737 says, "Expected Participant Identifier",   *)
(* of the receiver too (README.md:160: "Refers to a previously declared    *)
(* Participant namespace").  Refuted: line 736 tests the sender again.     *)
(***************************************************************************)
ReceiversDeclared ==
  outcome = "parsed" =>
    \A n \in DOMAIN table : table[n].tag = "Global" =>
      \A i \in DOMAIN table[n].body :
        table[n].body[i].tag = "com" => resolve(table[n].body[i].to.name, "Participant")

(***************************************************************************)
(* What AstVisitor.cpp:117 says, "projection only performed on final       *)
(* global type declaration": the node of the last key is the one the last  *)
(* declaration of the file was parsed to.  Refuted: the file's last type   *)
(* may have the name of an earlier one, whose node it then stands for.     *)
(***************************************************************************)
ProjectsFinalType ==
  outcome = "parsed" /\ Len(file) > 0 /\ Last(file).tag = "Global" =>
    table[Last(keys)] = [tag |-> "Global", body |-> parseExpressionList(Last(file).body)]
=============================================================================
