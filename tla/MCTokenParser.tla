--------------------------- MODULE MCTokenParser ---------------------------
(***************************************************************************)
(* The text of declarations, files of them, and files with one token       *)
(* dropped, put in or replaced; and what it is to have read a text.        *)
(***************************************************************************)
EXTENDS TokenParser

MCName == {"PchorUnaryIndex", "I", "v", "w", "A", "B", "k", "T", "G", "H", "L"}

----------------------------------------------------------------------------
(***************************************************************************)
(* How declarations are written.  A null pointer, which stands for any     *)
(* token, is written "?", and so is what the tree does not keep: the       *)
(* bounds of an index and the symbol after the name of a global type.      *)
(***************************************************************************)
WrittenUse(u) ==
  <<IF u.name = NoName THEN "?" ELSE u.name>>
    \o (CASE u.index = "none"  -> << >>
          [] u.index = "plain" -> <<"[", "1", "]">>
          [] OTHER             -> <<"[", "max", "(", u.index, ")", "]">>)

WrittenItem(it) ==
  CASE it.tag = "com"   -> WrittenUse(it.from) \o <<"->">> \o WrittenUse(it.to) \o <<":">>
                             \o WrittenUse(it.on) \o <<"<", it.type, ">", ".">>
    [] it.tag = "open"  ->
         <<"foreach", "(", it.var, it.bound>>
           \o (CASE it.bound = ":" -> <<it.over>>
                 [] it.bound = "<" -> <<"max", "(", it.over, ")">>
                 [] it.bound = ">" -> <<"min", "(", it.over, ")">>)
           \o <<")", "{">>
    [] it.tag = "close" -> <<"end", "}", ".">>
    [] it.tag = "ref"   -> <<it.name, ".">>

WrittenDecl(d) ==
  CASE d.tag = "Index"  -> <<"Index", d.name, "{", "1", ".", ".", "n", "}">>
    [] d.tag = "Global" -> <<d.name, "=">> \o FlattenSeq([i \in DOMAIN d.body |-> WrittenItem(d.body[i])])
                             \o <<"end">>
    [] d.tag \in {"Participant", "Channel"} -> <<d.tag, d.name, "{", d.index[2], "}">>
    [] d.tag = "Label"     -> <<"Label", d.name, "{", "v", "}">>
    [] d.tag = "Malformed" -> <<"Channel", d.name, "=", "1", "}">>

Written(f) == FlattenSeq([i \in DOMAIN f |-> WrittenDecl(f[i])])

(* What the lexer makes of a text; the limit may fall anywhere in a file. *)
Lexed(t) == Append(t, EOF)
Cut(t, limit) == SubSeq(Lexed(t), 1, Min({Len(t) + 1, limit}))

----------------------------------------------------------------------------
(* Files. *)
Bare(n) == [name |-> n, index |-> "none"]
Plain(n) == [name |-> n, index |-> "plain"]
Extreme(n, x) == [name |-> n, index |-> x]
Com(s, r, c) == [tag |-> "com", from |-> s, to |-> r, on |-> c, type |-> "T"]
Open(v, b, x) == [tag |-> "open", var |-> v, bound |-> b, over |-> x]
Close == [tag |-> "close"]
Ref(n) == [tag |-> "ref", name |-> n]
Index(n) == [tag |-> "Index", name |-> n]
Indexed(tag, n, kind, x) == [tag |-> tag, name |-> n, index |-> <<kind, x>>]
Global(n, b) == [tag |-> "Global", name |-> n, body |-> b]

Prologue == <<Index("I"), Indexed("Participant", "A", "name", "I"),
              Indexed("Participant", "B", "literal", "1"), Indexed("Channel", "k", "literal", "10")>>

Coms == {Com(s, r, c) : s \in {Bare("A"), Plain("A"), Extreme("A", "I"), Extreme("A", "PchorUnaryIndex"), Bare("k")},
                        r \in {Bare("B"), Plain("B"), Bare("v"), Plain("v"), Extreme("B", "I"),
                             Extreme("B", "PchorUnaryIndex")},
                        c \in {Bare("k"), Extreme("k", "PchorUnaryIndex"), Bare("A")}}

AToB == Com(Bare("A"), Bare("B"), Bare("k"))
AToNone == Com(Bare("A"), Bare("v"), Bare("k"))

Loops ==
  {<<Open(v, b, x), c, Close>> : v \in {"v", "A", "G"}, b \in {":", "<", ">"}, x \in {"I", "k"}, c \in {AToB, Ref("G")}} \cup
  {<<Open("v", ":", "I"), Open(w, ":", "I"), c, Close, Close>> : w \in {"v", "w"}, c \in {AToB, Ref("G")}} \cup
  {<<Open("v", ":", "I"), Open("v", ":", "I"), Close, c, Close>> : c \in {AToB, Ref("G")}}

Others == {Indexed("Participant", "H", "literal", "2"), [tag |-> "Label", name |-> "L"],
           [tag |-> "Malformed", name |-> "H"], Index("A")}

MCFiles ==
  {Prologue \o <<Global("G", b)>> : b \in Loops} \cup
  {Prologue \o <<Global("G", <<c>>), Global("H", b)>> :
     c \in {AToB, AToNone}, b \in Loops \cup {<< >>, <<Ref("G"), AToB>>, <<Ref("H")>>}} \cup
  {Prologue \o <<Global("G", <<AToNone>>), d>> : d \in Others} \cup
  {Prologue \o <<Global("G", <<AToNone>>), d, Global("H", <<Open("G", ":", "I"), Close>>)>> :
     d \in {Indexed("Participant", "v", "literal", "1"), Indexed("Channel", "v", "name", "I")}} \cup
  {Prologue \o <<Global("G", <<c>>), Global("L", <<AToB>>), Global("H", <<AToB>>)>> : c \in Coms}

(***************************************************************************)
(* Texts to damage, all after the prologue but the first; and texts to cut *)
(* off, some of which have the end of a scope for a receiver.              *)
(***************************************************************************)
PrologueText == Written(Prologue)
ComText == <<"A", "->", "B", ":", "k", "<", "T", ">", ".">>
AToEnd == ReplaceAt(ComText, 3, "end")

Texts == {
  <<"G", "=", "foreach", "(", "v", ":", "I", ")", "{", "A", "[", "v", "]", "->", "B", ":", "k", "<", "T", ">",
    ".", "end", "}", ".", "end">>,
  <<"G", "=">> \o ComText
    \o <<"foreach", "(", "v", "<", "max", "(", "I", ")", ")", "{", "end", "}", "end">>,
  <<"G", "=", "A", "[", "(", "1", "+", "max", "(", "I", ")", ")", "-", "2", "]", "->", "B", ":", "k", "<", "T", ">",
    ".", "end">>,
  <<"G", "=", "A", "->", "B", ":", "k", "<", "T", ">", "end", "H", "=", "G", ".", "A", "->", "B", "[", "1", "]",
    ":", "k", "<", "T">>,
  <<"G", "=", "end", "Label", "L", "{", "v", "}", "end", "H", "=", "G", "end">>}

TextsToCut == Texts \cup {
  <<"Label", "L", "{", "v", "w", "}">>,
  <<"G", "=">> \o AToEnd \o ComText \o ComText,
  <<"G", "=">> \o AToEnd \o <<"foreach", "(", "v", ":", "I", ")", "{">> \o ComText \o <<"end", "}">>,
  <<"G", "=">> \o AToEnd \o <<"A", "->", ".", "[", "1", "]">>}

Alphabet == {"Index", "Label", "foreach", "end", "min", "max", "I", "A", "B", "k", "T", "v", "G", "1", "n",
             "{", "}", "<", ">", "[", "]", "(", ")", ".", "=", "+", ":", "->"}

Dropped(t, p) == SubSeq(t, 1, p - 1) \o SubSeq(t, p + 1, Len(t))
PutIn(t, p, x) == SubSeq(t, 1, p - 1) \o <<x>> \o SubSeq(t, p, Len(t))

Damaged(t, from) ==
  {Dropped(t, p) : p \in from .. Len(t)} \cup
  {ReplaceAt(t, p, x) : p \in from .. Len(t), x \in Alphabet} \cup
  {PutIn(t, p, x) : p \in from .. Len(t) + 1, x \in Alphabet}

MCInputs ==
  {<<f, Cut(Written(f), MaxTokens)>> : f \in MCFiles} \cup
  {<< << >>, Lexed(t)>> : t \in Damaged(PrologueText, 1)} \cup
  {<< << >>, Lexed(t)>> : t \in UNION {Damaged(PrologueText \o u, Len(PrologueText) + 1) : u \in Texts}} \cup
  {<< << >>, Cut(PrologueText \o u, p)>> :
     u \in TextsToCut, p \in Len(PrologueText) .. Len(PrologueText) + 30}

----------------------------------------------------------------------------
(***************************************************************************)
(* Nothing is ignored: what was declared, written down again, is what was  *)
(* read, whatever was wrong with it, but for separators and what is        *)
(* between brackets.                                                       *)
(***************************************************************************)
(* Any symbol passes for the "=" after the name of a global type (line 420). *)
Assigns(t, p) == p > 2 /\ t[p - 2] \in {"}", "end"} /\ resolve(t[p - 1], "Global")

(* And any token for the receiver after the arrow (line 736). *)
Received(t, p) == t[p - 1] = "->"

Opens(t, p) == t[p] = "[" /\ ~Assigns(t, p) /\ ~Received(t, p)

InBrackets(t, p) ==
  \E a \in 2 .. p - 1 : Opens(t, a) /\ \A b \in a .. p : t[b] # "]"

Separates(t, p) == t[p] \in {".", "end", EOF} /\ ~Received(t, p)

Essence(t) ==
  LET kept == SelectSeq([p \in DOMAIN t |-> p],
                        LAMBDA p : ~Separates(t, p) /\ ~Assigns(t, p) /\ ~InBrackets(t, p))
  IN  [k \in DOMAIN kept |-> t[kept[k]]]

(* What the tree does not keep: the bounds of an index. *)
Text(d) ==
  LET t == WrittenDecl(d)
  IN  IF d.tag = "Index" THEN [p \in DOMAIN t |-> IF p \in {4, 7} THEN "?" ELSE t[p]] ELSE t

NothingIgnored ==
  outcome = "parsed" =>
    LET read == Essence(tokens)
        kept == Essence(FlattenSeq([d \in DOMAIN declared |-> Text(declared[d])]))
    IN  /\ Len(read) = Len(kept)
        /\ \A p \in DOMAIN read : kept[p] \in {"?", read[p]}
=============================================================================
