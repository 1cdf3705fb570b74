-------------------------- MODULE TokenParserProofs --------------------------
(***************************************************************************)
(* Proofs about the parser on the tokens of a file, whatever they are: the *)
(* types, where every call reads, what a crash is caused by, and what an   *)
(* index is read from.                                                     *)
(***************************************************************************)
EXTENDS TokenParser, LeastElement, FiniteSetTheorems, SequenceTheorems

(***************************************************************************)
(* The calls: the lists that a global type consists of, then at most one   *)
(* communication, then the expressions of one index.                       *)
(***************************************************************************)
CallsInOrder ==
  /\ \A g, f \in DOMAIN stack : g < f =>
       /\ stack[f].kind \in {"list", "com"} => stack[g].kind = "list"
       /\ stack[f].kind = "expr" /\ g = f - 1 => stack[g].kind \in {"com", "expr"}
       /\ stack[g].kind \in {"com", "expr"} => stack[f].kind = "expr"
  /\ \A f \in DOMAIN stack :
       /\ f = 1 => stack[f].kind = "list" /\ stack[f].name \in Name
       /\ stack[f].kind = "com" =>
            /\ stack[f].expects \in {"->", "receiver", ":", "channel", "<", "type", ">"}
            /\ f < Len(stack) => stack[f].expects \in {"->", ":", "<"}
       /\ stack[f].kind = "expr" =>
            /\ stack[f].expects \in {"operand", "operator"}
            /\ f < Len(stack) => stack[f].expects = "operator"

(* As many participants and channels as the communication has come to. *)
Counted(expects, n) ==
  /\ expects \in {"->", "receiver"} => n = 1
  /\ expects \in {":", "channel"} => n = 2
  /\ expects \in {"<", "type", ">"} => n = 3

UsesCounted == \A f \in DOMAIN stack : stack[f].kind = "com" => Counted(stack[f].expects, Len(uses))

(* What was read last, where the next step depends on it. *)
Follows(call, t) ==
  /\ call.kind = "com" =>
       /\ call.expects = "receiver" => t = "->"
       /\ call.expects = "type" => t = "<"
       /\ call.expects = ">" => t \in Name
  /\ call.kind = "expr" /\ call.expects = "operand" => t \in {"[", "(", "+", "-"}

ReadLast ==
  /\ stack = << >> => itr = 1 \/ At(itr - 1) \in {"end", RightBrace}
  /\ stack # << >> => Follows(Top, At(itr - 1))

(***************************************************************************)
(* Parentheses.  The scope of one ends at the first token that balances    *)
(* it.                                                                     *)
(***************************************************************************)
Depth(p, q) == Occurrences("(", p, q) - Occurrences(")", p, q)

Balances(p, end) ==
  /\ At(p) = "(" /\ At(end) = ")" /\ p < end
  /\ Depth(p, end) = 0
  /\ \A q \in p .. end - 1 : Depth(p, q) > 0

InParens(f) == f > 1 /\ stack[f].kind = "expr" /\ stack[f - 1].kind = "expr"

ScopesEnd ==
  /\ \A f \in DOMAIN stack :
       /\ stack[f].end \in 2 .. Len(tokens)
       /\ stack[f].kind = "list" => At(stack[f].end) \in {"end", RightBrace}
       /\ stack[f].kind = "com" => At(stack[f].end) \in {".", "end", RightBrace}
       /\ stack[f].kind = "expr" => At(stack[f].end) \in {"]", ")"} /\ itr <= stack[f].end
       /\ InParens(f) => \E p \in 1 .. itr - 1 : Balances(p, stack[f].end)
       /\ stack[f].kind = "expr" /\ ~InParens(f) => At(stack[f].end) = "]"
  /\ \A g, f \in DOMAIN stack :
       g < f /\ stack[g].kind = "expr" => stack[f].end < stack[g].end

(***************************************************************************)
(* The ways out of a scope.  The token that ends it was read as a receiver *)
(* (line 736): then a list never ends.  Or it was passed unseen inside     *)
(* parentheses (line 986): then there is a ")" left over in the index      *)
(* expression, which never ends either.                                    *)
(***************************************************************************)
Received(end) == At(end - 1) = "->"

Passed == \E h \in DOMAIN stack :
            stack[h].kind = "list" /\ stack[h].end < itr /\ Received(stack[h].end)

Doomed == \E d \in DOMAIN stack :
            /\ stack[d].kind = "expr"
            /\ \E q \in itr .. stack[d].end - 1 : Depth(itr, q) + (Len(stack) - d) < 0

ComReceived == \E c \in DOMAIN stack : stack[c].kind = "com" /\ Received(stack[c].end)

Nesting ==
  /\ \A f \in DOMAIN stack :
       /\ stack[f].kind = "list" => itr <= stack[f].end \/ Doomed
       /\ stack[f].kind = "com" => itr <= stack[f].end \/ Received(stack[f].end)
  /\ \A g, f \in DOMAIN stack : g < f =>
       /\ stack[f].kind = "list" => stack[f].end < stack[g].end
       /\ stack[f].kind = "com" => stack[f].end <= stack[g].end
       /\ stack[f].kind = "expr" => stack[f].end < stack[g].end \/ ComReceived

Inside == Passed \/ Nesting

(***************************************************************************)
(* Receivers.  Null pointers come from receivers that were undeclared      *)
(* where they stand; what the text before itr declares a participant is in *)
(* the table by now.                                                       *)
(***************************************************************************)
SomeUndeclared == \E p \in 1 .. itr - 1 : p < Len(tokens) /\ UndeclaredReceiver(p)

TextDeclares ==
  \A q \in 1 .. itr - 2 :
    tokens[q] = "Participant" /\ tokens[q + 1] \in Name => tokens[q + 1] \in DOMAIN table

HasNull(items) == \E i \in DOMAIN items : items[i].tag = "com" /\ items[i].to.name = NoName

UsesNull(us) == \E i \in DOMAIN us : us[i].name = NoName

Nulls ==
  \/ UsesNull(uses)
  \/ HasNull(body)
  \/ \E n \in DOMAIN table : table[n].tag = "Global" /\ HasNull(table[n].body)

NullsHaveCause == Nulls => SomeUndeclared

(* What is used is in the table. *)
RefsResolve(items) ==
  \A i \in DOMAIN items : items[i].tag = "ref" => resolve(items[i].name, "Global")

Resolved ==
  /\ \A i \in DOMAIN uses : uses[i].name # NoName =>
       resolve(uses[i].name, "Participant") \/ resolve(uses[i].name, "Channel")
  /\ RefsResolve(body)
  /\ \A n \in DOMAIN table : table[n].tag = "Global" => RefsResolve(table[n].body)

TokensInv ==
  /\ tokens \in Seq(Token)
  /\ TypeOK
  /\ CallsInOrder
  /\ UsesCounted
  /\ ReadLast
  /\ ScopesEnd
  /\ Inside
  /\ Doomed \/ TextDeclares
  /\ NullsHaveCause
  /\ Resolved
  /\ outcome = "crashed" => CrashOnlyForCause

----------------------------------------------------------------------------
(***************************************************************************)
(* Tokens.                                                                 *)
(***************************************************************************)
(* The two braces are the only symbols to stand for themselves below. *)
LEMMA Braces ==
  /\ LeftBrace # RightBrace
  /\ \A b \in {LeftBrace, RightBrace} :
       b \notin {"Index", "Participant", "Channel", "Label", "foreach", "end", "min", "max",
                 "<", ">", "[", "]", "(", ")", ".", "=", "+", "-", ":", "->",
                 "1", "2", "10", "n", "EOF", "beyond"}
  BY Zenon DEF LeftBrace, RightBrace

LEMMA NamesApart ==
  ASSUME NEW n \in Name
  PROVE  /\ n # LeftBrace /\ n # RightBrace
         /\ n \notin {"Index", "Participant", "Channel", "Label", "foreach", "end", "min", "max",
                      "<", ">", "[", "]", "(", ")", ".", "=", "+", "-", ":", "->",
                      "1", "2", "10", "n", "EOF", "beyond"}
  BY TokenParserAssumption DEF Keywords, Symbols, Literals, EOF

LEMMA TypeOfToken ==
  ASSUME NEW t \in Token
  PROVE  /\ TypeOf(t) = "Identifier" <=> t \in Name
         /\ TypeOf(t) = "Literal" <=> t \in Literals
         /\ TypeOf(t) = "Symbol" <=> t \in Symbols
<1>1. /\ t \in Keywords => t \notin Symbols \cup Literals \cup {EOF} \cup Name
      /\ t \in Symbols => t \notin Literals \cup {EOF} \cup Name
      /\ t \in Literals => t \notin {EOF} \cup Name
      /\ t = EOF => t \notin Name
  BY Braces, NamesApart DEF Keywords, Symbols, Literals, EOF
<1>. QED
  BY <1>1 DEF TypeOf, Token

(* What a token is known to be, it is in the text. *)
LEMMA AtText ==
  ASSUME tokens \in Seq(Token), NEW p
  PROVE  /\ DOMAIN tokens = 1 .. Len(tokens) /\ Len(tokens) \in Nat
         /\ At(p) # "beyond" => p \in DOMAIN tokens /\ At(p) = tokens[p]
         /\ p \in DOMAIN tokens => At(p) = tokens[p] /\ At(p) \in Token
         /\ Is(p, "Identifier") <=> p \in DOMAIN tokens /\ At(p) \in Name
         /\ Is(p, "Literal") <=> p \in DOMAIN tokens /\ At(p) \in Literals
         /\ Is(p, "Symbol") <=> p \in DOMAIN tokens /\ At(p) \in Symbols
  BY TypeOfToken DEF At, Is

LEMMA SameText ==
  ASSUME UNCHANGED tokens
  PROVE  /\ \A p : At(p)' = At(p)
         /\ \A p, q : Depth(p, q)' = Depth(p, q)
         /\ \A e : Received(e)' <=> Received(e)
         /\ \A p, e : Balances(p, e)' <=> Balances(p, e)
<1>1. \A p : At(p)' = At(p)
  BY DEF At
<1>2. \A p, q : Depth(p, q)' = Depth(p, q)
  BY <1>1 DEF Depth, Occurrences
<1>. QED
  BY <1>1, <1>2 DEF Received, Balances

(***************************************************************************)
(* Least elements, and searches.                                           *)
(***************************************************************************)
LEMMA MinIs ==
  ASSUME NEW S, S \subseteq Nat, S # {}
  PROVE  Min(S) \in S /\ \A x \in S : Min(S) <= x
  BY Least DEF Min

(***************************************************************************)
(* How deep parentheses are.                                               *)
(***************************************************************************)
LEMMA OccurrencesNat == \A t : \A p, q \in Nat : Occurrences(t, p, q) \in Nat
<1>. SUFFICES ASSUME NEW t, NEW p \in Nat, NEW q \in Nat PROVE Occurrences(t, p, q) \in Nat
  OBVIOUS
<1>1. IsFiniteSet(p .. q)
  BY FS_Interval
<1>2. IsFiniteSet({x \in p .. q : At(x) = t})
  BY <1>1, FS_Subset
<1>. QED
  BY <1>2, FS_CardinalityType DEF Occurrences

LEMMA OccurrencesSplit ==
  ASSUME NEW t, NEW p \in Nat, NEW q \in Nat, NEW r \in Nat, p <= q, q <= r
  PROVE  Occurrences(t, p, r) = Occurrences(t, p, q) + Occurrences(t, q + 1, r)
<1>. DEFINE Hits(a, b) == {x \in a .. b : At(x) = t}
<1>1. \A a, b \in Nat : IsFiniteSet(Hits(a, b))
  <2>. TAKE a \in Nat, b \in Nat
  <2>1. IsFiniteSet(a .. b)
    BY FS_Interval
  <2>. QED
    BY <2>1, FS_Subset
<1>2. Hits(p, r) = Hits(p, q) \cup Hits(q + 1, r) /\ Hits(p, q) \cap Hits(q + 1, r) = {}
  OBVIOUS
<1>3. Cardinality(Hits(p, r)) = Cardinality(Hits(p, q)) + Cardinality(Hits(q + 1, r))
  <2>1. Cardinality(Hits(p, q) \cap Hits(q + 1, r)) = 0
    BY <1>2, FS_EmptySet
  <2>2. /\ Cardinality(Hits(p, q)) \in Nat
        /\ Cardinality(Hits(q + 1, r)) \in Nat
    BY <1>1, FS_CardinalityType
  <2>3. IsFiniteSet(Hits(p, q)) /\ IsFiniteSet(Hits(q + 1, r))
    BY <1>1
  <2>. HIDE DEF Hits
  <2>4. Cardinality(Hits(p, q) \cup Hits(q + 1, r))
          = Cardinality(Hits(p, q)) + Cardinality(Hits(q + 1, r)) - Cardinality(Hits(p, q) \cap Hits(q + 1, r))
    BY <2>3, FS_Union
  <2>. QED
    BY <1>2, <2>1, <2>2, <2>4
<1>. QED
  BY <1>3 DEF Occurrences

LEMMA OccurrencesHere ==
  ASSUME NEW t, NEW p \in Nat
  PROVE  Occurrences(t, p, p) = IF At(p) = t THEN 1 ELSE 0
<1>1. CASE At(p) = t
  <2>1. {x \in p .. p : At(x) = t} = {p}
    BY <1>1
  <2>. QED
    BY <1>1, <2>1, FS_Singleton DEF Occurrences
<1>2. CASE At(p) # t
  <2>1. {x \in p .. p : At(x) = t} = {}
    BY <1>2
  <2>. QED
    BY <1>2, <2>1, FS_EmptySet DEF Occurrences
<1>. QED
  BY <1>1, <1>2

Weight(p) == IF At(p) = "(" THEN 1 ELSE IF At(p) = ")" THEN 0 - 1 ELSE 0

LEMMA DepthSplit ==
  /\ \A p \in Nat : Depth(p, p) = Weight(p)
  /\ \A p, q \in Nat : p <= q => Depth(p, q) \in Int
  /\ \A p, q, r \in Nat : p <= q /\ q < r => Depth(p, r) = Depth(p, q) + Depth(q + 1, r)
<1>1. ASSUME NEW p \in Nat PROVE Depth(p, p) = Weight(p)
  <2>1. /\ Occurrences("(", p, p) = IF At(p) = "(" THEN 1 ELSE 0
        /\ Occurrences(")", p, p) = IF At(p) = ")" THEN 1 ELSE 0
    BY OccurrencesHere
  <2>. QED
    BY <2>1 DEF Depth, Weight
<1>2. ASSUME NEW p \in Nat, NEW q \in Nat, p <= q
      PROVE  Depth(p, q) \in Int
  BY OccurrencesNat DEF Depth
<1>3. ASSUME NEW p \in Nat, NEW q \in Nat, NEW r \in Nat, p <= q, q < r
      PROVE  Depth(p, r) = Depth(p, q) + Depth(q + 1, r)
  <2>1. \A t : Occurrences(t, p, r) = Occurrences(t, p, q) + Occurrences(t, q + 1, r)
    <3>. TAKE t
    <3>1. q <= r
      BY <1>3
    <3>. QED
      BY <1>3, <3>1, OccurrencesSplit, Zenon
  <2>2. \A t : Occurrences(t, p, q) \in Nat /\ Occurrences(t, q + 1, r) \in Nat
    BY OccurrencesNat
  <2>. QED
    BY <2>1, <2>2 DEF Depth
<1>. QED
  BY <1>1, <1>2, <1>3

(* The first parenthesis that balances the one at p ends its scope. *)
LEMMA FirstBalance ==
  ASSUME tokens \in Seq(Token), NEW p \in Nat, At(p) = "(", p <= Top.end, Top.end \in DOMAIN tokens,
         Closings("(", ")", p) # {}
  PROVE  /\ Min(Closings("(", ")", p)) \in p + 1 .. Top.end - 1
         /\ Balances(p, Min(Closings("(", ")", p)))
<1>. DEFINE e == Min(Closings("(", ")", p))
<1>1. /\ Closings("(", ")", p) \subseteq Nat
      /\ \A q : q \in Closings("(", ")", p) <=>
                  q \in p + 1 .. Top.end - 1 /\ At(q) = ")" /\ Occurrences("(", p, q) = Occurrences(")", p, q)
  BY AtText DEF Closings
<1>2. e \in Closings("(", ")", p) /\ \A x \in Closings("(", ")", p) : e <= x
  BY <1>1, MinIs
<1>. HIDE DEF e
<1>3. e \in p + 1 .. Top.end - 1 /\ At(e) = ")" /\ Depth(p, e) = 0
  <2>1. e \in p + 1 .. Top.end - 1 /\ At(e) = ")" /\ Occurrences("(", p, e) = Occurrences(")", p, e)
    BY <1>1, <1>2
  <2>2. Occurrences(")", p, e) \in Nat
    BY <2>1, OccurrencesNat
  <2>. QED
    BY <2>1, <2>2 DEF Depth
<1>4. ASSUME NEW q \in p .. e - 1, Depth(p, q) <= 0 PROVE FALSE
  <2>. DEFINE S == {x \in p .. e - 1 : Depth(p, x) <= 0}
  <2>1. PICK x \in S : \A y \in S : x <= y
    <3>1. S \subseteq Nat /\ S # {}
      BY <1>4
    <3>. QED
      BY <3>1, Least
  <2>2. x # p /\ x \in Nat /\ p < x
    <3>1. Depth(p, p) = 1
      BY DepthSplit DEF Weight
    <3>2. Depth(p, x) <= 0 /\ x \in Nat /\ p <= x
      BY <1>3, <2>1
    <3>. QED
      BY <3>1, <3>2
  <2>3. Depth(p, x - 1) > 0 /\ Depth(p, x - 1) \in Int
    <3>1. x - 1 \in p .. e - 1 /\ x - 1 \in Nat
      BY <1>3, <2>1, <2>2
    <3>2. Depth(p, x - 1) \in Int
      BY <3>1, DepthSplit
    <3>. QED
      BY <2>1, <3>1, <3>2
  <2>4. Depth(p, x) = Depth(p, x - 1) + Weight(x)
    <3>1. x - 1 \in Nat /\ p <= x - 1 /\ x - 1 < x /\ (x - 1) + 1 = x
      BY <2>2
    <3>. QED
      BY <2>2, <3>1, DepthSplit
  <2>5. At(x) = ")" /\ Depth(p, x) = 0
    BY <2>1, <2>3, <2>4 DEF Weight
  <2>6. Occurrences("(", p, x) = Occurrences(")", p, x)
    <3>1. Occurrences("(", p, x) \in Nat /\ Occurrences(")", p, x) \in Nat
      BY <2>2, OccurrencesNat
    <3>. QED
      BY <2>5, <3>1 DEF Depth
  <2>7. x \in Closings("(", ")", p)
    BY <1>1, <1>3, <2>1, <2>2, <2>5, <2>6
  <2>. QED
    BY <1>2, <1>3, <2>1, <2>7
<1>5. \A q \in p .. e - 1 : Depth(p, q) > 0
  <2>. SUFFICES ASSUME NEW q \in p .. e - 1 PROVE Depth(p, q) > 0
    OBVIOUS
  <2>1. Depth(p, q) \in Int
    BY <1>3, DepthSplit
  <2>. QED
    BY <1>4, <2>1
<1>. QED
  BY <1>3, <1>5 DEF Balances, e

----------------------------------------------------------------------------
(***************************************************************************)
(* The calls and their scopes.                                             *)
(***************************************************************************)
Scopes == tokens \in Seq(Token) /\ TypeOK /\ CallsInOrder /\ ScopesEnd /\ Inside

LEMMA CallsAre ==
  ASSUME TypeOK, tokens \in Seq(Token)
  PROVE  /\ stack \in Seq(Call) /\ Len(stack) \in Nat /\ DOMAIN stack = 1 .. Len(stack)
         /\ \A f \in DOMAIN stack : /\ stack[f] \in Call
                                   /\ stack[f].end \in 1 .. Len(tokens)
                                   /\ stack[f].end \in Nat /\ f \in Nat /\ f > 0 /\ f <= Len(stack)
         /\ Len(tokens) \in Nat /\ DOMAIN tokens = 1 .. Len(tokens)
         /\ itr \in Nat /\ itr > 0 /\ itr <= Len(tokens) + 1
<1>1. Len(tokens) \in Nat /\ DOMAIN tokens = 1 .. Len(tokens)
  OBVIOUS
<1>2. stack \in Seq(Call) /\ itr \in 1 .. Len(tokens) + 1
  BY DEF TypeOK
<1>3. \A f \in DOMAIN stack : stack[f] \in Call /\ f \in 1 .. Len(stack)
  BY <1>2
<1>4. \A f \in DOMAIN stack : stack[f].end \in DOMAIN tokens
  BY <1>3 DEF Call
<1>. QED
  BY <1>1, <1>2, <1>3, <1>4

LEMMA TopIs ==
  ASSUME TypeOK, tokens \in Seq(Token), stack # << >>
  PROVE  /\ Len(stack) > 0 /\ Len(stack) \in DOMAIN stack
         /\ Top = stack[Len(stack)] /\ Top \in Call
         /\ Top.end \in Nat /\ Top.end \in 1 .. Len(tokens)
<1>1. Len(stack) > 0 /\ Len(stack) \in DOMAIN stack
  BY CallsAre
<1>2. Top = stack[Len(stack)]
  BY DEF Top, Last
<1>. QED
  BY <1>1, <1>2, CallsAre

(* The same calls, of which the innermost may expect something else now. *)
SameCalls ==
  /\ stack' \in Seq(Call) /\ Len(stack') = Len(stack) /\ DOMAIN stack' = DOMAIN stack
  /\ \A f \in DOMAIN stack : /\ stack'[f].kind = stack[f].kind
                             /\ stack'[f].end = stack[f].end
                             /\ stack'[f].name = stack[f].name
                             /\ f < Len(stack) => stack'[f] = stack[f]

LEMMA ExpectingSame ==
  ASSUME TypeOK, tokens \in Seq(Token), stack # << >>,
         NEW x \in {"->", "receiver", ":", "channel", "<", "type", ">", "operand", "operator"},
         stack' = Expecting(x)
  PROVE  SameCalls /\ stack'[Len(stack)].expects = x
<1>1. stack' = [stack EXCEPT ![Len(stack)] = [@ EXCEPT !.expects = x]]
  BY DEF Expecting
<1>2. Len(stack) \in DOMAIN stack /\ stack[Len(stack)] \in Call
  BY TopIs, CallsAre
<1>3. /\ [stack[Len(stack)] EXCEPT !.expects = x] \in Call
      /\ [stack[Len(stack)] EXCEPT !.expects = x].expects = x
      /\ [stack[Len(stack)] EXCEPT !.expects = x].kind = stack[Len(stack)].kind
      /\ [stack[Len(stack)] EXCEPT !.expects = x].end = stack[Len(stack)].end
      /\ [stack[Len(stack)] EXCEPT !.expects = x].name = stack[Len(stack)].name
  BY <1>2 DEF Call
<1>4. stack' \in Seq(Call) /\ Len(stack') = Len(stack) /\ DOMAIN stack' = DOMAIN stack
  BY <1>1, <1>2, <1>3, CallsAre
<1>5. /\ stack'[Len(stack)] = [stack[Len(stack)] EXCEPT !.expects = x]
      /\ \A f \in DOMAIN stack : f # Len(stack) => stack'[f] = stack[f]
  BY <1>1, <1>2, CallsAre
<1>6. \A f \in DOMAIN stack : /\ stack'[f].kind = stack[f].kind
                              /\ stack'[f].end = stack[f].end
                              /\ stack'[f].name = stack[f].name
  BY <1>2, <1>3, <1>5
<1>7. \A f \in DOMAIN stack : f < Len(stack) => stack'[f] = stack[f]
  BY <1>5, CallsAre
<1>8. stack'[Len(stack)].expects = x
  BY <1>3, <1>5
<1>. QED
  BY <1>4, <1>6, <1>7, <1>8 DEF SameCalls

LEMMA UnchangedSame ==
  ASSUME TypeOK, tokens \in Seq(Token), UNCHANGED stack
  PROVE  SameCalls
  BY DEF SameCalls, Call, TypeOK

(* A communication or list is read: there is no index expression then. *)
LEMMA NotDoomed ==
  ASSUME TypeOK, tokens \in Seq(Token), CallsInOrder, stack = << >> \/ Top.kind # "expr"
  PROVE  ~Doomed /\ \A f \in DOMAIN stack : stack[f].kind # "expr"
<1>1. ASSUME NEW f \in DOMAIN stack PROVE stack[f].kind # "expr"
  <2>1. stack # << >>
    BY <1>1, CallsAre
  <2>2. f = Len(stack) \/ f < Len(stack)
    BY <2>1, CallsAre
  <2>3. Top = stack[Len(stack)] /\ Len(stack) \in DOMAIN stack /\ Top.kind \in {"list", "com"}
    BY <2>1, TopIs DEF Call
  <2>. QED
    BY <2>2, <2>3 DEF CallsInOrder
<1>. QED
  BY <1>1 DEF Doomed

(* Behind an iterator that moved on. *)
LEMMA Longer ==
  ASSUME NEW i \in Nat, NEW j \in Nat, i < j
  PROVE  /\ \A p : p \in 1 .. i - 1 => p \in 1 .. j - 1
         /\ \A e \in Nat : i <= e /\ e \notin i .. j - 1 => j <= e
         /\ \A q \in 1 .. j - 2 : q \in 1 .. i - 2 \/ (q \in i - 1 .. j - 2 /\ q > 0)
  OBVIOUS

(* Behind a text that leaves no parenthesis open, the depth is the same. *)
LEMMA DepthOn ==
  ASSUME NEW i \in Nat, NEW j \in Nat, NEW q \in Nat, i < j, i <= q,
         \A x \in i .. j - 1 : Depth(i, x) >= 0, Depth(i, j - 1) = 0, Depth(i, q) < 0
  PROVE  j <= q /\ Depth(j, q) = Depth(i, q)
<1>1. j <= q
  <2>1. Depth(i, q) \in Int
    BY DepthSplit
  <2>2. q \notin i .. j - 1
    BY <2>1
  <2>. QED
    BY <2>2
<1>2. Depth(i, q) = Depth(i, j - 1) + Depth(j, q)
  <2>1. j - 1 \in Nat /\ i <= j - 1 /\ j - 1 < q /\ (j - 1) + 1 = j
    BY <1>1
  <2>. QED
    BY <2>1, DepthSplit
<1>3. Depth(j, q) \in Int
  BY <1>1, DepthSplit
<1>. QED
  BY <1>1, <1>2, <1>3

(***************************************************************************)
(* Reading on in the same calls, tokens that end no scope of a list or a   *)
(* communication and in which no parenthesis is left open.                 *)
(***************************************************************************)
LEMMA DoomedStays ==
  ASSUME Scopes, SameCalls, UNCHANGED tokens, itr' \in Nat, itr < itr',
         \A q \in itr .. itr' - 1 : Depth(itr, q) >= 0, Depth(itr, itr' - 1) = 0,
         Doomed
  PROVE  Doomed'
<1>0. PICK d \in DOMAIN stack :
        /\ stack[d].kind = "expr"
        /\ \E q \in itr .. stack[d].end - 1 : Depth(itr, q) + (Len(stack) - d) < 0
  BY DEF Doomed
<1>1. PICK q \in itr .. stack[d].end - 1 : Depth(itr, q) + (Len(stack) - d) < 0
  BY <1>0
<1>2. stack # << >> /\ d <= Len(stack) /\ d \in Nat /\ Len(stack) \in Nat /\ itr \in Nat
  BY CallsAre DEF Scopes
<1>3. stack[d].end \in Nat /\ q \in Nat /\ itr <= q
  BY <1>2, CallsAre DEF Scopes
<1>4. itr' <= q /\ Depth(itr', q) = Depth(itr, q)
  <2>1. Depth(itr, q) < 0
    <3>1. Depth(itr, q) \in Int
      BY <1>2, <1>3, DepthSplit
    <3>. QED
      BY <1>1, <1>2, <3>1
  <2>2. \A j \in Nat : itr < j /\ (\A x \in itr .. j - 1 : Depth(itr, x) >= 0) /\ Depth(itr, j - 1) = 0
                        => j <= q /\ Depth(j, q) = Depth(itr, q)
    BY <1>2, <1>3, <2>1, DepthOn
  <2>. QED
    BY <2>2
<1>6. Depth(itr', q) \in Int
  BY <1>3, <1>4, DepthSplit
<1>7. Depth(itr', q) + (Len(stack) - d) < 0 /\ q \in itr' .. stack[d].end - 1
  BY <1>1, <1>2, <1>3, <1>4, <1>6
<1>8. Depth(itr, q)' = Depth(itr', q)
  BY SameText
<1>. QED
  BY <1>0, <1>7, <1>8, SameText DEF Doomed, SameCalls

LEMMA ReadOn ==
  ASSUME Scopes, stack # << >>, SameCalls, UNCHANGED tokens, itr' \in Nat, itr < itr',
         Top.kind = "expr" => itr' <= Top.end,
         \A p \in itr .. itr' - 1 : At(p) \notin {".", "end", RightBrace},
         \A q \in itr .. itr' - 1 : Depth(itr, q) >= 0, Depth(itr, itr' - 1) = 0
  PROVE  ScopesEnd' /\ Inside'
<1>. USE DEF Scopes
<1>1. /\ itr \in Nat /\ DOMAIN stack = 1 .. Len(stack) /\ Len(stack) \in Nat /\ Len(stack) \in DOMAIN stack
      /\ \A f \in DOMAIN stack : stack[f].end \in Nat
      /\ Top = stack[Len(stack)]
  BY TopIs, CallsAre
<1>0. /\ \A p : p \in 1 .. itr - 1 => p \in 1 .. itr' - 1
      /\ \A e \in Nat : itr <= e /\ e \notin itr .. itr' - 1 => itr' <= e
  <2>1. itr \in Nat /\ itr' \in Nat /\ itr < itr'
    BY <1>1
  <2>. QED
    BY <2>1, Longer, Zenon
<1>2. ScopesEnd'
  <2>1. ASSUME NEW f \in DOMAIN stack, stack[f].kind = "expr" PROVE itr' <= stack[f].end
    <3>1. f = Len(stack) \/ f < Len(stack)
      BY <1>1
    <3>2. f < Len(stack) => stack[Len(stack)].end < stack[f].end /\ stack[Len(stack)].kind = "expr"
      BY <1>1, <2>1 DEF ScopesEnd, CallsInOrder
    <3>. QED
      BY <1>1, <2>1, <3>1, <3>2
  <2>2. ASSUME NEW f \in DOMAIN stack, InParens(f)
        PROVE  \E p \in 1 .. itr' - 1 : Balances(p, stack[f].end)
    <3>1. PICK p \in 1 .. itr - 1 : Balances(p, stack[f].end)
      BY <2>2 DEF ScopesEnd
    <3>2. p \in 1 .. itr' - 1
      BY <1>0, <3>1
    <3>. QED
      BY <3>1, <3>2
  <2>3. \A f \in DOMAIN stack : InParens(f)' <=> InParens(f)
    BY <1>1 DEF InParens, SameCalls
  <2>4. ASSUME NEW f \in DOMAIN stack
        PROVE  /\ stack'[f].end \in 2 .. Len(tokens)
               /\ stack'[f].kind = "list" => At(stack'[f].end) \in {"end", RightBrace}
               /\ stack'[f].kind = "com" => At(stack'[f].end) \in {".", "end", RightBrace}
               /\ stack'[f].kind = "expr" => At(stack'[f].end) \in {"]", ")"} /\ itr' <= stack'[f].end
               /\ InParens(f)' => \E p \in 1 .. itr' - 1 : Balances(p, stack'[f].end)
               /\ stack'[f].kind = "expr" /\ ~InParens(f)' => At(stack'[f].end) = "]"
    <3>1. stack'[f].kind = stack[f].kind /\ stack'[f].end = stack[f].end
      BY DEF SameCalls
    <3>. QED
      BY <2>1, <2>2, <2>3, <3>1 DEF ScopesEnd
  <2>5. ASSUME NEW g \in DOMAIN stack, NEW f \in DOMAIN stack, g < f, stack'[g].kind = "expr"
        PROVE  stack'[f].end < stack'[g].end
    BY <2>5 DEF ScopesEnd, SameCalls
  <2>6. DOMAIN stack' = DOMAIN stack
    BY DEF SameCalls
  <2>. QED
    BY <2>4, <2>5, <2>6, SameText DEF ScopesEnd
<1>3. CASE Passed
  <2>1. PICK h \in DOMAIN stack : stack[h].kind = "list" /\ stack[h].end < itr /\ Received(stack[h].end)
    BY <1>3 DEF Passed
  <2>2. stack[h].end < itr'
    BY <1>1, <2>1
  <2>3. Passed'
    BY <2>1, <2>2, SameText DEF Passed, SameCalls
  <2>. QED
    BY <1>2, <2>3 DEF Inside
<1>4. CASE Nesting
  <2>1. ASSUME NEW f \in DOMAIN stack, stack[f].kind \in {"list", "com"}, itr <= stack[f].end
        PROVE  itr' <= stack[f].end
    <3>1. At(stack[f].end) \in {".", "end", RightBrace} /\ stack[f].end \in Nat
      BY <1>1, <2>1 DEF ScopesEnd
    <3>2. stack[f].end \notin itr .. itr' - 1
      BY <3>1
    <3>. QED
      BY <1>0, <2>1, <3>1, <3>2, Zenon
  <2>2. Doomed => Doomed'
    BY DoomedStays
  <2>3. ComReceived => ComReceived'
    BY SameText DEF ComReceived, SameCalls
  <2>4. \A f \in DOMAIN stack :
          /\ stack'[f].kind = "list" => itr' <= stack'[f].end \/ Doomed'
          /\ stack'[f].kind = "com" => itr' <= stack'[f].end \/ Received(stack'[f].end)
    BY <1>4, <2>1, <2>2 DEF Nesting, SameCalls
  <2>5. \A g, f \in DOMAIN stack : g < f =>
          /\ stack'[f].kind = "list" => stack'[f].end < stack'[g].end
          /\ stack'[f].kind = "com" => stack'[f].end <= stack'[g].end
          /\ stack'[f].kind = "expr" => stack'[f].end < stack'[g].end \/ ComReceived'
    BY <1>4, <2>3 DEF Nesting, SameCalls
  <2>6. DOMAIN stack' = DOMAIN stack
    BY DEF SameCalls
  <2>7. Nesting'
    BY <2>4, <2>5, <2>6, SameText DEF Nesting
  <2>. QED
    BY <1>2, <2>7 DEF Inside
<1>. QED
  BY <1>2, <1>3, <1>4 DEF Inside

(* One such token. *)
LEMMA ReadOneOn ==
  ASSUME Scopes, stack # << >>, SameCalls, UNCHANGED tokens, itr' = itr + 1,
         Top.kind = "expr" => itr < Top.end,
         At(itr) \notin {".", "end", RightBrace, "(", ")"}
  PROVE  ScopesEnd' /\ Inside' /\ (Doomed => Doomed')
<1>1. itr \in Nat /\ itr' \in Nat /\ itr < itr' /\ itr .. itr' - 1 = {itr} /\ itr' - 1 = itr
  BY CallsAre DEF Scopes
<1>2. Depth(itr, itr) = 0
  BY <1>1, DepthSplit DEF Weight
<1>3. Top.end \in Nat
  BY TopIs DEF Scopes
<1>4. /\ Top.kind = "expr" => itr' <= Top.end
      /\ \A p \in itr .. itr' - 1 : At(p) \notin {".", "end", RightBrace}
      /\ \A q \in itr .. itr' - 1 : Depth(itr, q) >= 0
      /\ Depth(itr, itr' - 1) = 0
  BY <1>1, <1>2, <1>3
<1>. QED
  BY <1>1, <1>4, ReadOn, DoomedStays

----------------------------------------------------------------------------
(***************************************************************************)
(* A call that begins, and one that returns.                               *)
(***************************************************************************)
Pushed(c) ==
  /\ stack' \in Seq(Call) /\ Len(stack') = Len(stack) + 1 /\ DOMAIN stack' = 1 .. Len(stack) + 1
  /\ stack'[Len(stack) + 1] = c
  /\ \A f \in DOMAIN stack : /\ stack'[f].kind = stack[f].kind
                             /\ stack'[f].end = stack[f].end
                             /\ stack'[f].name = stack[f].name
                             /\ f < Len(stack) => stack'[f] = stack[f]

Popped ==
  /\ stack' \in Seq(Call) /\ Len(stack') = Len(stack) - 1 /\ DOMAIN stack' = 1 .. Len(stack) - 1
  /\ \A f \in 1 .. Len(stack) - 1 : f \in DOMAIN stack /\ stack'[f] = stack[f]

LEMMA PushedCall ==
  ASSUME TypeOK, tokens \in Seq(Token), NEW c \in Call, stack' = Append(stack, c)
  PROVE  Pushed(c) /\ (stack # << >> => stack'[Len(stack)] = stack[Len(stack)])
<1>1. stack \in Seq(Call)
  BY CallsAre
<1>. QED
  BY <1>1 DEF Pushed

LEMMA PushedOn ==
  ASSUME TypeOK, tokens \in Seq(Token), stack # << >>, NEW c \in Call,
         NEW x \in {"->", "receiver", ":", "channel", "<", "type", ">", "operand", "operator"},
         stack' = Append(Expecting(x), c)
  PROVE  Pushed(c) /\ stack'[Len(stack)].expects = x
<1>. DEFINE s == [stack EXCEPT ![Len(stack)] = [@ EXCEPT !.expects = x]]
<1>1. stack' = Append(s, c)
  BY DEF Expecting
<1>2. Len(stack) \in DOMAIN stack /\ stack[Len(stack)] \in Call /\ stack \in Seq(Call)
  BY TopIs, CallsAre
<1>3. /\ [stack[Len(stack)] EXCEPT !.expects = x] \in Call
      /\ [stack[Len(stack)] EXCEPT !.expects = x].expects = x
      /\ [stack[Len(stack)] EXCEPT !.expects = x].kind = stack[Len(stack)].kind
      /\ [stack[Len(stack)] EXCEPT !.expects = x].end = stack[Len(stack)].end
      /\ [stack[Len(stack)] EXCEPT !.expects = x].name = stack[Len(stack)].name
  BY <1>2 DEF Call
<1>4. s \in Seq(Call) /\ Len(s) = Len(stack) /\ DOMAIN s = DOMAIN stack
  BY <1>2, <1>3
<1>5. /\ s[Len(stack)] = [stack[Len(stack)] EXCEPT !.expects = x]
      /\ \A f \in DOMAIN stack : f # Len(stack) => s[f] = stack[f]
  BY <1>2
<1>. HIDE DEF s
<1>6. /\ stack' \in Seq(Call) /\ Len(stack') = Len(stack) + 1 /\ DOMAIN stack' = 1 .. Len(stack) + 1
      /\ stack'[Len(stack) + 1] = c /\ \A f \in DOMAIN stack : stack'[f] = s[f]
  BY <1>1, <1>4, CallsAre
<1>7. \A f \in DOMAIN stack : /\ stack'[f].kind = stack[f].kind
                              /\ stack'[f].end = stack[f].end
                              /\ stack'[f].name = stack[f].name
  BY <1>2, <1>3, <1>5, <1>6
<1>8. \A f \in DOMAIN stack : f < Len(stack) => stack'[f] = stack[f]
  BY <1>5, <1>6, CallsAre
<1>9. stack'[Len(stack)].expects = x
  BY <1>2, <1>3, <1>5, <1>6
<1>. QED
  BY <1>6, <1>7, <1>8, <1>9 DEF Pushed

LEMMA PoppedCall ==
  ASSUME TypeOK, tokens \in Seq(Token), stack # << >>, stack' = Front(stack)
  PROVE  Popped
<1>1. stack \in Seq(Call) /\ Len(stack) > 0 /\ Len(stack) \in Nat
  BY CallsAre, TopIs
<1>2. stack' = SubSeq(stack, 1, Len(stack) - 1)
  BY DEF Front
<1>3. Len(stack) - 1 \in Nat /\ \A f \in 1 .. Len(stack) - 1 : stack[f] \in Call
  BY <1>1
<1>4. /\ stack' \in Seq(Call)
      /\ Len(stack') = Len(stack) - 1
      /\ \A f \in 1 .. Len(stack) - 1 : stack'[f] = stack[f]
  <2>. DEFINE n == Len(stack) - 1
  <2>1. n \in Int /\ n \in Nat /\ 1 \in Int /\ stack' = SubSeq(stack, 1, n)
        /\ \A f \in 1 .. n : stack[f] \in Call
    BY <1>2, <1>3
  <2>. HIDE DEF n
  <2>2. /\ SubSeq(stack, 1, n) \in Seq(Call)
        /\ Len(SubSeq(stack, 1, n)) = IF 1 <= n THEN n - 1 + 1 ELSE 0
        /\ \A f \in 1 .. n - 1 + 1 : SubSeq(stack, 1, n)[f] = stack[1 + f - 1]
    BY <2>1, SubSeqProperties
  <2>3. Len(stack') = n /\ \A f \in 1 .. n : stack'[f] = stack[f]
    BY <2>1, <2>2
  <2>. QED
    BY <2>1, <2>2, <2>3 DEF n
<1>5. DOMAIN stack' = 1 .. Len(stack) - 1 /\ \A f \in 1 .. Len(stack) - 1 : f \in DOMAIN stack
  BY <1>1, <1>4
<1>. QED
  BY <1>4, <1>5 DEF Popped

(* The order of the calls. *)
LEMMA OrderStays ==
  ASSUME TypeOK, tokens \in Seq(Token), CallsInOrder, stack # << >>, SameCalls,
         Top.kind = "com" =>
           stack'[Len(stack)].expects \in {"->", "receiver", ":", "channel", "<", "type", ">"},
         Top.kind = "expr" => stack'[Len(stack)].expects \in {"operand", "operator"}
  PROVE  CallsInOrder'
<1>1. DOMAIN stack = 1 .. Len(stack) /\ Len(stack) \in DOMAIN stack /\ Top = stack[Len(stack)]
      /\ Len(stack) \in Nat
  BY TopIs, CallsAre
<1>2. \A f \in DOMAIN stack : f = Len(stack) \/ (f < Len(stack) /\ stack'[f] = stack[f])
  BY <1>1 DEF SameCalls
<1>. QED
  BY <1>1, <1>2 DEF CallsInOrder, SameCalls

LEMMA OrderPushed ==
  ASSUME TypeOK, tokens \in Seq(Token), CallsInOrder, stack # << >>, NEW c \in Call, Pushed(c),
         \/ /\ c.kind = "list" /\ Top.kind = "list"
         \/ /\ c.kind = "com" /\ Top.kind = "list" /\ c.expects = "->"
         \/ /\ c.kind = "expr" /\ c.expects = "operand"
            /\ \/ Top.kind = "com" /\ stack'[Len(stack)].expects \in {"->", ":", "<"}
               \/ Top.kind = "expr" /\ stack'[Len(stack)].expects = "operator"
  PROVE  CallsInOrder'
<1>1. DOMAIN stack = 1 .. Len(stack) /\ Len(stack) \in DOMAIN stack /\ Top = stack[Len(stack)]
      /\ Len(stack) \in Nat /\ Len(stack) > 0
  BY TopIs, CallsAre
<1>2. \A f \in DOMAIN stack' : \/ f = Len(stack) + 1
                               \/ f = Len(stack)
                               \/ f \in DOMAIN stack /\ f < Len(stack) /\ stack'[f] = stack[f]
  BY <1>1 DEF Pushed
<1>3. \A g \in DOMAIN stack : g < Len(stack) =>
        /\ Top.kind \in {"list", "com"} => stack[g].kind = "list"
        /\ stack[g].kind \in {"com", "expr"} => Top.kind = "expr"
  BY <1>1 DEF CallsInOrder
<1>4. \A g, f \in DOMAIN stack' : g < f =>
        /\ stack'[f].kind \in {"list", "com"} => stack'[g].kind = "list"
        /\ stack'[f].kind = "expr" /\ g = f - 1 => stack'[g].kind \in {"com", "expr"}
        /\ stack'[g].kind \in {"com", "expr"} => stack'[f].kind = "expr"
  <2>. SUFFICES ASSUME NEW g \in DOMAIN stack', NEW f \in DOMAIN stack', g < f
                PROVE  /\ stack'[f].kind \in {"list", "com"} => stack'[g].kind = "list"
                       /\ stack'[f].kind = "expr" /\ g = f - 1 => stack'[g].kind \in {"com", "expr"}
                       /\ stack'[g].kind \in {"com", "expr"} => stack'[f].kind = "expr"
    OBVIOUS
  <2>1. g \in DOMAIN stack /\ stack'[g].kind = stack[g].kind
    BY <1>1 DEF Pushed
  <2>2. CASE f = Len(stack) + 1
    <3>1. stack'[f] = c
      BY <2>2 DEF Pushed
    <3>2. g = Len(stack) \/ g < Len(stack)
      BY <1>1, <2>1
    <3>. QED
      BY <1>1, <1>3, <2>1, <2>2, <3>1, <3>2
  <2>3. CASE f # Len(stack) + 1
    <3>1. f \in DOMAIN stack /\ stack'[f].kind = stack[f].kind
      BY <1>1, <2>3 DEF Pushed
    <3>. QED
      BY <2>1, <3>1 DEF CallsInOrder
  <2>. QED
    BY <2>2, <2>3
<1>5. \A f \in DOMAIN stack' :
        /\ f = 1 => stack'[f].kind = "list" /\ stack'[f].name \in Name
        /\ stack'[f].kind = "com" =>
             /\ stack'[f].expects \in {"->", "receiver", ":", "channel", "<", "type", ">"}
             /\ f < Len(stack') => stack'[f].expects \in {"->", ":", "<"}
        /\ stack'[f].kind = "expr" =>
             /\ stack'[f].expects \in {"operand", "operator"}
             /\ f < Len(stack') => stack'[f].expects = "operator"
  <2>. TAKE f \in DOMAIN stack'
  <2>1. CASE f = Len(stack) + 1
    BY <1>1, <2>1 DEF Pushed
  <2>2. CASE f = Len(stack)
    BY <1>1, <2>2 DEF Pushed, CallsInOrder
  <2>3. CASE f \in DOMAIN stack /\ f < Len(stack) /\ stack'[f] = stack[f]
    BY <2>3 DEF CallsInOrder
  <2>. QED
    BY <1>2, <2>1, <2>2, <2>3
<1>. QED
  BY <1>4, <1>5 DEF CallsInOrder

LEMMA OrderPopped ==
  ASSUME TypeOK, tokens \in Seq(Token), CallsInOrder, stack # << >>, Popped
  PROVE  CallsInOrder'
<1>1. \A f \in DOMAIN stack' : f \in DOMAIN stack /\ stack'[f] = stack[f] /\ f < Len(stack)
  BY CallsAre DEF Popped
<1>2. \A f \in DOMAIN stack' : f < Len(stack') => f < Len(stack)
  BY <1>1
<1>. QED
  BY <1>1, <1>2 DEF CallsInOrder

(***************************************************************************)
(* A call that is begun with a scope of its own, inside that of its caller *)
(* if that is not behind the caller's already.                             *)
(***************************************************************************)
LEMMA ScopesPushed ==
  ASSUME Scopes, stack # << >>, UNCHANGED tokens, NEW c \in Call, Pushed(c), CallsInOrder',
         itr' \in Nat, itr < itr', itr' <= c.end, c.end > 1,
         \A p \in itr .. itr' - 1 : At(p) \notin {".", "end", RightBrace},
         c.kind = "list" => At(c.end) \in {"end", RightBrace},
         c.kind = "com" => At(c.end) \in {".", "end", RightBrace},
         c.kind = "expr" => At(c.end) \in {"]", ")"},
         c.kind = "expr" /\ Top.kind # "expr" => At(c.end) = "]",
         Top.kind = "expr" => /\ c.end < Top.end
                              /\ \E p \in 1 .. itr' - 1 : Balances(p, c.end),
         itr <= Top.end => c.end < Top.end \/ (c.kind = "com" /\ c.end <= Top.end),
         Doomed => Doomed'
  PROVE  ScopesEnd' /\ Inside'
<1>. USE DEF Scopes
<1>1. /\ itr \in Nat /\ DOMAIN stack = 1 .. Len(stack) /\ Len(stack) \in Nat /\ Len(stack) \in DOMAIN stack
      /\ \A f \in DOMAIN stack : stack[f].end \in Nat
      /\ Top = stack[Len(stack)] /\ Len(tokens) \in Nat /\ DOMAIN tokens = 1 .. Len(tokens)
  BY TopIs, CallsAre
<1>2. /\ c.end \in 2 .. Len(tokens) /\ c.end \in Nat
      /\ stack'[Len(stack) + 1] = c /\ DOMAIN stack' = DOMAIN stack \cup {Len(stack) + 1}
      /\ \A f \in DOMAIN stack : f < Len(stack) + 1
      /\ \A f \in DOMAIN stack : stack'[f].kind = stack[f].kind /\ stack'[f].end = stack[f].end
  BY <1>1 DEF Call, Pushed
<1>0. /\ \A p : p \in 1 .. itr - 1 => p \in 1 .. itr' - 1
      /\ \A e \in Nat : itr <= e /\ e \notin itr .. itr' - 1 => itr' <= e
  <2>1. itr \in Nat /\ itr' \in Nat /\ itr < itr'
    BY <1>1
  <2>. QED
    BY <2>1, Longer, Zenon
<1>3. ASSUME NEW f \in DOMAIN stack, stack[f].kind = "expr"
      PROVE  itr' <= stack[f].end /\ c.end < stack[f].end
  <2>1. f = Len(stack) \/ f < Len(stack)
    BY <1>1
  <2>2. f < Len(stack) => stack[Len(stack)].end < stack[f].end /\ stack[Len(stack)].kind = "expr"
    BY <1>1, <1>3 DEF ScopesEnd, CallsInOrder
  <2>3. Top.kind = "expr"
    BY <1>1, <1>3, <2>1, <2>2
  <2>4. c.end < stack[Len(stack)].end /\ stack[Len(stack)].end \in Nat
    BY <1>1, <2>3
  <2>5. c.end < stack[f].end
    BY <1>1, <1>2, <2>1, <2>2, <2>4
  <2>6. stack[f].end \in Nat
    BY <1>1
  <2>. QED
    BY <1>2, <2>5, <2>6
<1>4. ScopesEnd'
  <2>1. ASSUME NEW f \in DOMAIN stack'
        PROVE  /\ stack'[f].end \in 2 .. Len(tokens)
               /\ stack'[f].kind = "list" => At(stack'[f].end) \in {"end", RightBrace}
               /\ stack'[f].kind = "com" => At(stack'[f].end) \in {".", "end", RightBrace}
               /\ stack'[f].kind = "expr" => At(stack'[f].end) \in {"]", ")"} /\ itr' <= stack'[f].end
               /\ InParens(f)' => \E p \in 1 .. itr' - 1 : Balances(p, stack'[f].end)
               /\ stack'[f].kind = "expr" /\ ~InParens(f)' => At(stack'[f].end) = "]"
    <3>1. CASE f = Len(stack) + 1
      <4>1. /\ InParens(f)' => Top.kind = "expr"
            /\ stack'[f].kind = "expr" /\ ~InParens(f)' => Top.kind # "expr"
        <5>1. f > 1 /\ f - 1 = Len(stack) /\ stack'[f - 1].kind = Top.kind
          <6>1. Len(stack) > 0 /\ f = Len(stack) + 1
            BY <1>1, <3>1
          <6>2. f > 1 /\ f - 1 = Len(stack)
            BY <1>1, <6>1
          <6>. QED
            BY <1>1, <1>2, <6>2
        <5>. QED
          BY <5>1 DEF InParens
      <4>. QED
        BY <1>2, <3>1, <4>1
    <3>2. CASE f \in DOMAIN stack
      <4>1. InParens(f)' <=> InParens(f)
        <5>1. f > 1 => f - 1 \in DOMAIN stack
          BY <1>1, <3>2
        <5>. QED
          BY <1>2, <3>2, <5>1 DEF InParens
      <4>2. ASSUME InParens(f) PROVE \E p \in 1 .. itr' - 1 : Balances(p, stack[f].end)
        <5>1. PICK p \in 1 .. itr - 1 : Balances(p, stack[f].end)
          BY <3>2, <4>2 DEF ScopesEnd
        <5>2. p \in 1 .. itr' - 1
          BY <1>0, <5>1
        <5>. QED
          BY <5>1, <5>2
      <4>. QED
        BY <1>2, <1>3, <3>2, <4>1, <4>2 DEF ScopesEnd
    <3>. QED
      BY <1>2, <3>1, <3>2
  <2>2. ASSUME NEW g \in DOMAIN stack', NEW f \in DOMAIN stack', g < f, stack'[g].kind = "expr"
        PROVE  stack'[f].end < stack'[g].end
    <3>1. g \in DOMAIN stack
      BY <1>1, <1>2, <2>2
    <3>2. CASE f = Len(stack) + 1
      BY <1>2, <1>3, <2>2, <3>1, <3>2
    <3>3. CASE f \in DOMAIN stack
      BY <1>2, <2>2, <3>1, <3>3 DEF ScopesEnd
    <3>. QED
      BY <1>2, <3>2, <3>3
  <2>. QED
    BY <2>1, <2>2, SameText DEF ScopesEnd
<1>5. CASE Passed
  <2>1. PICK h \in DOMAIN stack : stack[h].kind = "list" /\ stack[h].end < itr /\ Received(stack[h].end)
    BY <1>5 DEF Passed
  <2>2. stack[h].end < itr'
    BY <1>1, <2>1
  <2>3. Passed'
    BY <1>2, <2>1, <2>2, SameText DEF Passed
  <2>. QED
    BY <1>4, <2>3 DEF Inside
<1>6. CASE Nesting
  <2>1. ASSUME NEW f \in DOMAIN stack, stack[f].kind \in {"list", "com"}, itr <= stack[f].end
        PROVE  itr' <= stack[f].end
    <3>1. At(stack[f].end) \in {".", "end", RightBrace} /\ stack[f].end \in Nat
      BY <1>1, <2>1 DEF ScopesEnd
    <3>2. stack[f].end \notin itr .. itr' - 1
      BY <3>1
    <3>. QED
      BY <1>0, <2>1, <3>1, <3>2, Zenon
  <2>2. ComReceived => ComReceived'
    BY <1>2, SameText DEF ComReceived
  <2>3. ASSUME NEW f \in DOMAIN stack'
        PROVE  /\ stack'[f].kind = "list" => itr' <= stack'[f].end \/ Doomed'
               /\ stack'[f].kind = "com" => itr' <= stack'[f].end \/ Received(stack'[f].end)
    <3>1. CASE f = Len(stack) + 1
      BY <1>2, <3>1
    <3>2. CASE f \in DOMAIN stack
      <4>1. /\ stack[f].kind = "list" => itr <= stack[f].end \/ Doomed
            /\ stack[f].kind = "com" => itr <= stack[f].end \/ Received(stack[f].end)
        BY <1>6, <3>2 DEF Nesting
      <4>2. stack'[f].kind = stack[f].kind /\ stack'[f].end = stack[f].end
        BY <1>2, <3>2
      <4>3. stack[f].kind \in {"list", "com"} /\ itr <= stack[f].end => itr' <= stack[f].end
        BY <2>1, <3>2
      <4>. QED
        BY <4>1, <4>2, <4>3
    <3>. QED
      BY <1>2, <3>1, <3>2
  <2>8. c.end \in Nat /\ Top.end \in Nat /\ \A g \in DOMAIN stack : stack[g].end \in Nat
    BY <1>1, <1>2
  <2>9. /\ Len(stack) \in DOMAIN stack' /\ Len(stack) + 1 \in DOMAIN stack'
        /\ Len(stack) < Len(stack) + 1 /\ stack'[Len(stack)].kind = Top.kind
    <3>1. Len(stack) < Len(stack) + 1
      BY <1>1
    <3>. QED
      BY <1>1, <1>2, <3>1
  <2>4. ASSUME NEW g \in DOMAIN stack
        PROVE  \/ c.end < stack[g].end
               \/ c.kind = "com" /\ c.end <= stack[g].end
               \/ c.kind = "expr" /\ ComReceived
    <3>1. g = Len(stack) \/ g < Len(stack)
      BY <1>1
    <3>2. CASE Top.kind = "list"
      <4>1. itr <= Top.end
        BY <1>1, <1>6, <3>2, NotDoomed DEF Nesting
      <4>2. g < Len(stack) => Top.end < stack[g].end
        BY <1>1, <1>6, <3>2 DEF Nesting
      <4>3. CASE g = Len(stack)
        BY <1>1, <4>1, <4>3
      <4>4. CASE g < Len(stack)
        BY <2>8, <4>1, <4>2, <4>4
      <4>. QED
        BY <3>1, <4>3, <4>4
    <3>3. CASE Top.kind = "com"
      <4>1. c.kind = "expr"
        BY <1>2, <2>9, <3>3 DEF CallsInOrder
      <4>2. CASE itr <= Top.end
        <5>1. g < Len(stack) => Top.end <= stack[g].end
          BY <1>1, <1>6, <3>3 DEF Nesting
        <5>. QED
          BY <1>1, <1>2, <3>1, <4>1, <4>2, <5>1
      <4>3. CASE Received(Top.end)
        BY <1>1, <3>3, <4>1, <4>3 DEF ComReceived
      <4>. QED
        BY <1>1, <1>6, <3>3, <4>2, <4>3 DEF Nesting
    <3>4. CASE Top.kind = "expr"
      <4>1. c.kind = "expr"
        BY <1>2, <2>9, <3>4 DEF CallsInOrder
      <4>2. g < Len(stack) => Top.end < stack[g].end \/ ComReceived
        BY <1>1, <1>6, <3>4 DEF Nesting
      <4>3. c.end < Top.end
        BY <3>4
      <4>4. CASE g = Len(stack)
        BY <1>1, <4>3, <4>4
      <4>5. CASE g < Len(stack)
        BY <2>8, <4>1, <4>2, <4>3, <4>5
      <4>. QED
        BY <3>1, <4>4, <4>5
    <3>. QED
      BY <1>1, <3>2, <3>3, <3>4, TopIs DEF Call
  <2>5. ASSUME NEW g \in DOMAIN stack', NEW f \in DOMAIN stack', g < f
        PROVE  /\ stack'[f].kind = "list" => stack'[f].end < stack'[g].end
               /\ stack'[f].kind = "com" => stack'[f].end <= stack'[g].end
               /\ stack'[f].kind = "expr" => stack'[f].end < stack'[g].end \/ ComReceived'
    <3>1. g \in DOMAIN stack
      BY <1>1, <1>2, <2>5
    <3>2. CASE f = Len(stack) + 1
      BY <1>1, <1>2, <2>2, <2>4, <3>1, <3>2
    <3>3. CASE f \in DOMAIN stack
      BY <1>2, <1>6, <2>2, <2>5, <3>1, <3>3 DEF Nesting
    <3>. QED
      BY <1>2, <3>2, <3>3
  <2>6. Nesting'
    BY <2>3, <2>5, SameText DEF Nesting
  <2>. QED
    BY <1>4, <2>6 DEF Inside
<1>. QED
  BY <1>5, <1>6 DEF Inside

(* A call that returns, if its callers' scopes go on. *)
LEMMA ScopesPopped ==
  ASSUME Scopes, stack # << >>, UNCHANGED tokens, Popped, itr' \in Nat, itr < itr',
         Top.kind = "expr" => itr' <= Top.end + 1,
         Top.kind = "list" => itr <= Top.end,
         Nesting => \A f \in 1 .. Len(stack) - 1 :
                      /\ stack[f].kind = "list" => itr' <= stack[f].end \/ Doomed'
                      /\ stack[f].kind = "com" => itr' <= stack[f].end \/ Received(stack[f].end)
  PROVE  ScopesEnd' /\ Inside'
<1>. USE DEF Scopes
<1>1. /\ itr \in Nat /\ DOMAIN stack = 1 .. Len(stack) /\ Len(stack) \in Nat /\ Len(stack) \in DOMAIN stack
      /\ \A f \in DOMAIN stack : stack[f].end \in Nat
      /\ Top = stack[Len(stack)]
  BY TopIs, CallsAre
<1>2. /\ DOMAIN stack' = 1 .. Len(stack) - 1
      /\ \A f \in DOMAIN stack' : f \in DOMAIN stack /\ f < Len(stack) /\ stack'[f] = stack[f]
      /\ \A f \in DOMAIN stack : f = Len(stack) \/ f \in DOMAIN stack'
  BY <1>1 DEF Popped
<1>3. ScopesEnd'
  <2>1. ASSUME NEW f \in DOMAIN stack', stack[f].kind = "expr" PROVE itr' <= stack[f].end
    <3>1. Top.kind = "expr" /\ Top.end < stack[f].end
      BY <1>1, <1>2, <2>1 DEF CallsInOrder, ScopesEnd
    <3>. QED
      BY <1>1, <1>2, <3>1
  <2>2. ASSUME NEW f \in DOMAIN stack', InParens(f)
        PROVE  \E p \in 1 .. itr' - 1 : Balances(p, stack[f].end)
    <3>1. PICK p \in 1 .. itr - 1 : Balances(p, stack[f].end)
      BY <1>2, <2>2 DEF ScopesEnd
    <3>2. p \in 1 .. itr' - 1
      BY <1>1, <3>1, Longer, Zenon
    <3>. QED
      BY <3>1, <3>2
  <2>3. ASSUME NEW f \in DOMAIN stack' PROVE InParens(f)' <=> InParens(f)
    <3>1. f > 1 => f - 1 \in DOMAIN stack'
      BY <1>1, <1>2
    <3>2. stack'[f] = stack[f] /\ (f > 1 => stack'[f - 1] = stack[f - 1])
      BY <1>2, <3>1
    <3>. QED
      BY <3>2 DEF InParens
  <2>4. ASSUME NEW f \in DOMAIN stack'
        PROVE  /\ stack'[f].end \in 2 .. Len(tokens)
               /\ stack'[f].kind = "list" => At(stack'[f].end) \in {"end", RightBrace}
               /\ stack'[f].kind = "com" => At(stack'[f].end) \in {".", "end", RightBrace}
               /\ stack'[f].kind = "expr" => At(stack'[f].end) \in {"]", ")"} /\ itr' <= stack'[f].end
               /\ InParens(f)' => \E p \in 1 .. itr' - 1 : Balances(p, stack'[f].end)
               /\ stack'[f].kind = "expr" /\ ~InParens(f)' => At(stack'[f].end) = "]"
    <3>1. f \in DOMAIN stack /\ stack'[f] = stack[f]
      BY <1>2
    <3>2. /\ stack[f].end \in 2 .. Len(tokens)
          /\ stack[f].kind = "list" => At(stack[f].end) \in {"end", RightBrace}
          /\ stack[f].kind = "com" => At(stack[f].end) \in {".", "end", RightBrace}
          /\ stack[f].kind = "expr" => At(stack[f].end) \in {"]", ")"}
          /\ stack[f].kind = "expr" /\ ~InParens(f) => At(stack[f].end) = "]"
      BY <3>1 DEF ScopesEnd
    <3>. QED
      BY <2>1, <2>2, <2>3, <3>1, <3>2
  <2>5. ASSUME NEW g \in DOMAIN stack', NEW f \in DOMAIN stack', g < f, stack'[g].kind = "expr"
        PROVE  stack'[f].end < stack'[g].end
    BY <1>2, <2>5 DEF ScopesEnd
  <2>. QED
    BY <2>4, <2>5, SameText DEF ScopesEnd
<1>4. CASE Passed
  <2>1. PICK h \in DOMAIN stack : stack[h].kind = "list" /\ stack[h].end < itr /\ Received(stack[h].end)
    BY <1>4 DEF Passed
  <2>2. h # Len(stack) /\ stack[h].end < itr'
    BY <1>1, <2>1
  <2>3. Passed'
    BY <1>2, <2>1, <2>2, SameText DEF Passed
  <2>. QED
    BY <1>3, <2>3 DEF Inside
<1>5. CASE Nesting
  <2>1. ASSUME ComReceived, NEW f \in DOMAIN stack', stack[f].kind = "expr"
        PROVE  ComReceived'
    <3>1. PICK c \in DOMAIN stack : stack[c].kind = "com" /\ Received(stack[c].end)
      BY <2>1 DEF ComReceived
    <3>2. c # Len(stack)
      BY <1>1, <1>2, <2>1, <3>1 DEF CallsInOrder
    <3>. QED
      BY <1>2, <3>1, <3>2, SameText DEF ComReceived
  <2>2. Nesting'
    BY <1>2, <1>5, <2>1, SameText DEF Nesting
  <2>. QED
    BY <1>3, <2>2 DEF Inside
<1>. QED
  BY <1>4, <1>5 DEF Inside

----------------------------------------------------------------------------
(***************************************************************************)
(* The table, and the text that filled it.                                 *)
(***************************************************************************)
Grows == DOMAIN table \subseteq DOMAIN table' /\ \A n \in DOMAIN table : table'[n] = table[n]

LEMMA InsertGrows ==
  ASSUME NEW n, NEW node, table' = Declarations!Insert(table, n, node)
  PROVE  /\ Grows
         /\ DOMAIN table' = DOMAIN table \cup {n}
         /\ n \notin DOMAIN table => table'[n] = node
  BY DEF Grows, Declarations!Insert

LEMMA GrowsResolves ==
  ASSUME Grows
  PROVE  \A n, tag : resolve(n, tag) => resolve(n, tag)'
  BY DEF Grows, resolve, Declarations!resolve

LEMMA SameTable ==
  ASSUME UNCHANGED table
  PROVE  Grows /\ \A n, tag : resolve(n, tag)' <=> resolve(n, tag)
  BY DEF Grows, resolve, Declarations!resolve

(* Tokens that were read and declare no participant, or one in the table. *)
LEMMA TextOn ==
  ASSUME TypeOK, tokens \in Seq(Token), UNCHANGED tokens, Grows, itr' \in Nat, itr < itr', TextDeclares,
         \A q \in itr - 1 .. itr' - 2 :
           q > 0 /\ tokens[q] = "Participant" /\ tokens[q + 1] \in Name => tokens[q + 1] \in DOMAIN table'
  PROVE  TextDeclares'
<1>1. itr \in Nat /\ itr' \in Nat
  BY CallsAre
<1>. SUFFICES ASSUME NEW q \in 1 .. itr' - 2, tokens[q] = "Participant", tokens[q + 1] \in Name
              PROVE  tokens[q + 1] \in DOMAIN table'
  BY Zenon DEF TextDeclares
<1>2. q \in 1 .. itr - 2 \/ (q \in itr - 1 .. itr' - 2 /\ q > 0)
  BY <1>1, Longer, Zenon
<1>3. CASE q \in 1 .. itr - 2
  BY <1>3 DEF TextDeclares, Grows
<1>. QED
  BY <1>2, <1>3

(* One such token. *)
LEMMA TextOneOn ==
  ASSUME TypeOK, tokens \in Seq(Token), UNCHANGED tokens, Grows, itr \in DOMAIN tokens, itr' = itr + 1,
         TextDeclares,
         At(itr) \in Name => At(itr) \in DOMAIN table \/ At(itr - 1) # "Participant"
  PROVE  TextDeclares'
<1>1. itr \in Nat /\ itr' \in Nat /\ itr < itr'
  BY CallsAre
<1>2. ASSUME NEW q \in itr - 1 .. itr' - 2, q > 0, tokens[q] = "Participant", tokens[q + 1] \in Name
      PROVE  tokens[q + 1] \in DOMAIN table'
  <2>1. q = itr - 1 /\ q + 1 = itr /\ q \in Nat
    BY <1>1, <1>2
  <2>2. At(itr - 1) = "Participant"
    BY <1>2, <2>1 DEF At
  <2>. QED
    BY <1>2, <2>1, <2>2 DEF At, Grows
<1>. QED
  BY <1>1, <1>2, TextOn, Zenon

----------------------------------------------------------------------------
(***************************************************************************)
(* Null receivers, and what is used.                                       *)
(***************************************************************************)
LEMMA UndeclaredStays ==
  ASSUME TypeOK, tokens \in Seq(Token), UNCHANGED tokens, itr' \in Nat, itr <= itr', Grows,
         UNCHANGED table \/ (TextDeclares /\ DOMAIN table' \subseteq Name),
         SomeUndeclared
  PROVE  SomeUndeclared'
<1>1. PICK p \in 1 .. itr - 1 : p < Len(tokens) /\ UndeclaredReceiver(p)
  BY DEF SomeUndeclared
<1>2. itr \in Nat /\ p \in 1 .. itr' - 1
  <2>1. itr \in Nat
    BY CallsAre
  <2>2. itr = itr' \/ itr < itr'
    BY <2>1
  <2>3. CASE itr < itr'
    BY <1>1, <2>1, <2>3, Longer, Zenon
  <2>. QED
    BY <1>1, <2>1, <2>2, <2>3
<1>3. \A n : DeclaredBefore(p, n)' <=> DeclaredBefore(p, n)
  BY DEF DeclaredBefore
<1>4. ASSUME resolve(tokens[p + 1], "Participant")', DeclaredBefore(p, tokens[p + 1])
      PROVE  FALSE
  <2>1. ~resolve(tokens[p + 1], "Participant")
    BY <1>1, <1>4 DEF UndeclaredReceiver
  <2>2. CASE UNCHANGED table
    BY <1>4, <2>1, <2>2, SameTable
  <2>3. CASE TextDeclares /\ DOMAIN table' \subseteq Name
    <3>1. tokens[p + 1] \in DOMAIN table' /\ table'[tokens[p + 1]].tag = "Participant"
      BY <1>4 DEF resolve, Declarations!resolve
    <3>2. tokens[p + 1] \in Name
      BY <2>3, <3>1
    <3>3. PICK q \in 1 .. p - 1 : tokens[q] = "Participant" /\ tokens[q + 1] = tokens[p + 1]
      BY <1>4 DEF DeclaredBefore
    <3>4. q \in 1 .. itr - 2
      BY <1>1, <1>2, <3>3
    <3>5. tokens[p + 1] \in DOMAIN table
      BY <2>3, <3>2, <3>3, <3>4 DEF TextDeclares
    <3>. QED
      BY <2>1, <3>1, <3>5 DEF Grows, resolve, Declarations!resolve
  <2>. QED
    BY <2>2, <2>3
<1>5. UndeclaredReceiver(p)'
  BY <1>1, <1>3, <1>4 DEF UndeclaredReceiver
<1>. QED
  BY <1>1, <1>2, <1>5 DEF SomeUndeclared

(* Steps that declare nothing. *)
LEMMA SettledOn ==
  ASSUME TypeOK, tokens \in Seq(Token), UNCHANGED <<tokens, table>>, itr' \in Nat, itr <= itr',
         NullsHaveCause, Resolved,
         \A i \in DOMAIN uses' :
           \/ i \in DOMAIN uses /\ uses'[i].name = uses[i].name
           \/ uses'[i].name = NoName /\ SomeUndeclared'
           \/ /\ uses'[i].name # NoName
              /\ resolve(uses'[i].name, "Participant") \/ resolve(uses'[i].name, "Channel"),
         \A i \in DOMAIN body' :
           \/ i \in DOMAIN body /\ body'[i] = body[i]
           \/ body'[i].tag = "ref" /\ resolve(body'[i].name, "Global")
           \/ body'[i].tag = "com" /\ (body'[i].to.name = NoName => UsesNull(uses))
           \/ body'[i].tag \in {"open", "close"}
  PROVE  NullsHaveCause' /\ Resolved'
<1>1. SomeUndeclared => SomeUndeclared'
  BY UndeclaredStays, SameTable
<1>2. Nulls => SomeUndeclared'
  BY <1>1 DEF NullsHaveCause
<1>3. UsesNull(uses)' => SomeUndeclared'
  BY <1>2 DEF UsesNull, Nulls
<1>4. HasNull(body)' => SomeUndeclared'
  <2>1. SUFFICES ASSUME NEW i \in DOMAIN body', body'[i].tag = "com", body'[i].to.name = NoName
                 PROVE  Nulls
    BY <1>2 DEF HasNull
  <2>2. i \in DOMAIN body /\ body'[i] = body[i] => HasNull(body)
    BY <2>1 DEF HasNull
  <2>. QED
    BY <2>1, <2>2 DEF Nulls
<1>5. (\E n \in DOMAIN table : table[n].tag = "Global" /\ HasNull(table[n].body))' => Nulls
  BY DEF Nulls, HasNull
<1>6. NullsHaveCause'
  BY <1>2, <1>3, <1>4, <1>5 DEF NullsHaveCause, Nulls
<1>7. \A n, tag : resolve(n, tag)' <=> resolve(n, tag)
  BY SameTable
<1>8. Resolved'
  <2>1. ASSUME NEW i \in DOMAIN uses', uses'[i].name # NoName
        PROVE  resolve(uses'[i].name, "Participant") \/ resolve(uses'[i].name, "Channel")
    BY <2>1 DEF Resolved
  <2>2. ASSUME NEW i \in DOMAIN body', body'[i].tag = "ref"
        PROVE  resolve(body'[i].name, "Global")
    BY <2>2 DEF Resolved, RefsResolve
  <2>3. \A n \in DOMAIN table : table[n].tag = "Global" => RefsResolve(table[n].body)
    BY DEF Resolved
  <2>. QED
    BY <1>7, <2>1, <2>2, <2>3 DEF Resolved, RefsResolve
<1>. QED
  BY <1>6, <1>8

(* Declarations. *)
LEMMA SettledDeclared ==
  ASSUME TypeOK, tokens \in Seq(Token), UNCHANGED <<tokens, uses>>, itr' \in Nat, itr <= itr',
         NullsHaveCause, Resolved, TextDeclares, DOMAIN table' \subseteq Name,
         NEW n, NEW node, table' = Declarations!Insert(table, n, node),
         body' = body, node.tag = "Global" => node.body = body
  PROVE  NullsHaveCause' /\ Resolved'
<1>. DEFINE Known(m, tag) == m \in DOMAIN table' /\ table'[m].tag = tag
<1>1. /\ Grows
      /\ \A m \in DOMAIN table' : \/ m \in DOMAIN table /\ table'[m] = table[m]
                                  \/ m = n /\ table'[m] = node
  <2>1. /\ Grows /\ DOMAIN table' = DOMAIN table \cup {n}
        /\ n \notin DOMAIN table => table'[n] = node
    BY InsertGrows, Zenon
  <2>. QED
    BY <2>1 DEF Grows
<1>2. SomeUndeclared => SomeUndeclared'
  BY <1>1, UndeclaredStays
<1>3. Nulls' => Nulls
  BY <1>1 DEF Nulls, UsesNull, HasNull
<1>4. \A m, tag : resolve(m, tag) => Known(m, tag)
  BY <1>1 DEF Grows, resolve, Declarations!resolve
<1>. HIDE DEF Known
<1>5. \A i \in DOMAIN uses' : uses'[i].name # NoName =>
        Known(uses'[i].name, "Participant") \/ Known(uses'[i].name, "Channel")
  BY <1>4 DEF Resolved
<1>6. RefsResolve(body) /\ \A m \in DOMAIN table : table[m].tag = "Global" => RefsResolve(table[m].body)
  BY DEF Resolved
<1>7. \A i \in DOMAIN body' : body'[i].tag = "ref" => Known(body'[i].name, "Global")
  BY <1>4, <1>6 DEF RefsResolve
<1>8. ASSUME NEW m \in DOMAIN table', table'[m].tag = "Global"
      PROVE  \A i \in DOMAIN table'[m].body :
               table'[m].body[i].tag = "ref" => Known(table'[m].body[i].name, "Global")
  <2>1. CASE m \in DOMAIN table /\ table'[m] = table[m]
    BY <1>4, <1>6, <1>8, <2>1 DEF RefsResolve
  <2>2. CASE table'[m] = node
    BY <1>4, <1>6, <1>8, <2>2 DEF RefsResolve
  <2>. QED
    BY <1>1, <2>1, <2>2
<1>9. Resolved'
  BY <1>5, <1>7, <1>8 DEF Resolved, RefsResolve, resolve, Declarations!resolve, Known
<1>. QED
  BY <1>2, <1>3, <1>9 DEF NullsHaveCause

----------------------------------------------------------------------------
LEMMA Appended ==
  ASSUME NEW S, NEW s \in Seq(S), NEW x \in S
  PROVE  /\ Append(s, x) \in Seq(S) /\ Len(Append(s, x)) = Len(s) + 1 /\ Len(s) \in Nat
         /\ DOMAIN Append(s, x) = DOMAIN s \cup {Len(s) + 1}
         /\ \A i \in DOMAIN s : Append(s, x)[i] = s[i]
         /\ Append(s, x)[Len(s) + 1] = x
         /\ \A i \in DOMAIN Append(s, x) : (i \in DOMAIN s /\ Append(s, x)[i] = s[i]) \/ Append(s, x)[i] = x
  OBVIOUS

----------------------------------------------------------------------------
(***************************************************************************)
(* What every step inside a global type has to show.                       *)
(***************************************************************************)
LEMMA RunsOn ==
  ASSUME TokensInv, outcome = "running", UNCHANGED <<parserVars, tokens, declared>>,
         itr' \in Nat, itr < itr', itr' <= Len(tokens) + 1,
         stack' \in Seq(Call), uses' \in Seq(Declarations!Use), Len(uses') <= 3,
         body' \in Declarations!Body,
         CallsInOrder', UsesCounted', ReadLast', ScopesEnd', Inside', Doomed' \/ TextDeclares',
         \A i \in DOMAIN uses' :
           \/ i \in DOMAIN uses /\ uses'[i].name = uses[i].name
           \/ uses'[i].name = NoName /\ SomeUndeclared'
           \/ /\ uses'[i].name # NoName
              /\ resolve(uses'[i].name, "Participant") \/ resolve(uses'[i].name, "Channel"),
         \A i \in DOMAIN body' :
           \/ i \in DOMAIN body /\ body'[i] = body[i]
           \/ body'[i].tag = "ref" /\ resolve(body'[i].name, "Global")
           \/ body'[i].tag = "com" /\ (body'[i].to.name = NoName => UsesNull(uses))
           \/ body'[i].tag \in {"open", "close"}
  PROVE  TokensInv'
<1>1. TypeOK /\ tokens \in Seq(Token) /\ NullsHaveCause /\ Resolved
  BY DEF TokensInv
<1>2. /\ UNCHANGED <<tokens, table>> /\ itr \in Nat /\ itr <= itr' /\ Len(tokens) \in Nat
      /\ table' = table /\ outcome' = outcome /\ declared' = declared /\ tokens' = tokens
  BY <1>1, CallsAre DEF parserVars
<1>3. NullsHaveCause' /\ Resolved'
  BY <1>1, <1>2, SettledOn
<1>4. TypeOK'
  <2>1. itr' \in 1 .. Len(tokens) + 1
    BY <1>2
  <2>2. Call' = Call /\ (Len(tokens) + 1)' = Len(tokens) + 1
    BY <1>2 DEF Call
  <2>. QED
    BY <1>1, <1>2, <2>1, <2>2 DEF TypeOK
<1>. QED
  BY <1>1, <1>2, <1>3, <1>4 DEF TokensInv

(* The tops of the calls. *)
LEMMA TopAfter ==
  ASSUME stack' \in Seq(Call), Len(stack') > 0
  PROVE  stack' # << >> /\ Top' = stack'[Len(stack')]
<1>1. stack' # << >>
  OBVIOUS
<1>. QED
  BY <1>1 DEF Top, Last

LEMMA LastAfter ==
  ASSUME UNCHANGED tokens, stack' \in Seq(Call), Len(stack') > 0,
         Follows(stack'[Len(stack')], At(itr' - 1))
  PROVE  ReadLast'
<1>1. stack' # << >> /\ Top' = stack'[Len(stack')]
  BY TopAfter
<1>2. At(itr - 1)' = At(itr' - 1)
  BY DEF At
<1>3. Follows(Top, At(itr - 1))'
  BY <1>1, <1>2 DEF Follows
<1>. QED
  BY <1>1, <1>3 DEF ReadLast

LEMMA CountedStays ==
  ASSUME TypeOK, tokens \in Seq(Token), CallsInOrder, UsesCounted, stack # << >>, SameCalls,
         Top.kind # "com" => Len(uses') = Len(uses),
         Top.kind = "com" => Counted(stack'[Len(stack)].expects, Len(uses'))
  PROVE  UsesCounted'
<1>1. DOMAIN stack = 1 .. Len(stack) /\ Len(stack) \in DOMAIN stack /\ Top = stack[Len(stack)]
      /\ Len(stack) \in Nat
  BY TopIs, CallsAre
<1>2. ASSUME NEW f \in DOMAIN stack, stack[f].kind = "com"
      PROVE  Counted(stack'[f].expects, Len(uses'))
  <2>1. CASE f = Len(stack)
    BY <1>1, <1>2, <2>1
  <2>2. CASE f < Len(stack)
    <3>1. Top.kind # "com" /\ stack'[f] = stack[f]
      BY <1>1, <1>2, <2>2 DEF CallsInOrder, SameCalls
    <3>. QED
      BY <1>2, <3>1 DEF UsesCounted
  <2>. QED
    BY <1>1, <2>1, <2>2
<1>. QED
  BY <1>2 DEF UsesCounted, SameCalls

LEMMA CountedPushed ==
  ASSUME TypeOK, tokens \in Seq(Token), CallsInOrder, UsesCounted, stack # << >>,
         NEW c \in Call, Pushed(c),
         \/ Top.kind = "list" /\ c.kind = "com" /\ Counted(c.expects, Len(uses'))
         \/ Top.kind = "list" /\ c.kind = "list"
         \/ Top.kind = "com" /\ c.kind = "expr" /\ Len(uses') = Len(uses)
              /\ stack'[Len(stack)].expects = Top.expects
         \/ Top.kind = "expr" /\ c.kind = "expr" /\ Len(uses') = Len(uses)
  PROVE  UsesCounted'
<1>1. DOMAIN stack = 1 .. Len(stack) /\ Len(stack) \in DOMAIN stack /\ Top = stack[Len(stack)]
      /\ Len(stack) \in Nat
  BY TopIs, CallsAre
<1>2. ASSUME NEW f \in DOMAIN stack, stack[f].kind = "com"
      PROVE  Counted(stack'[f].expects, Len(uses'))
  <2>1. Top.kind # "list"
    BY <1>1, <1>2 DEF CallsInOrder
  <2>2. stack'[f].expects = stack[f].expects
    BY <1>1, <1>2, <2>1 DEF Pushed
  <2>. QED
    BY <1>2, <2>1, <2>2 DEF UsesCounted
<1>3. \A f \in DOMAIN stack' : f \in DOMAIN stack \/ stack'[f] = c
  BY <1>1 DEF Pushed
<1>4. \A f \in DOMAIN stack : stack'[f].kind = stack[f].kind
  BY DEF Pushed
<1>. QED
  BY <1>2, <1>3, <1>4 DEF UsesCounted

LEMMA CountedPopped ==
  ASSUME TypeOK, tokens \in Seq(Token), CallsInOrder, UsesCounted, stack # << >>, Popped,
         Top.kind = "expr" => Len(uses') = Len(uses)
  PROVE  UsesCounted'
<1>1. DOMAIN stack = 1 .. Len(stack) /\ Len(stack) \in DOMAIN stack /\ Top = stack[Len(stack)]
      /\ Len(stack) \in Nat /\ Top \in Call
  BY TopIs, CallsAre
<1>2. \A f \in DOMAIN stack' : f \in DOMAIN stack /\ f < Len(stack) /\ stack'[f] = stack[f]
  BY <1>1 DEF Popped
<1>3. ASSUME NEW f \in DOMAIN stack', stack[f].kind = "com"
      PROVE  Top.kind = "expr"
  BY <1>1, <1>2, <1>3 DEF CallsInOrder
<1>. QED
  BY <1>2, <1>3 DEF UsesCounted

----------------------------------------------------------------------------
(***************************************************************************)
(* The steps that read one token or a few in the same calls.               *)
(***************************************************************************)
LEMMA QuietStep ==
  ASSUME TokensInv, outcome = "running", stack # << >>, UNCHANGED <<parserVars, tokens, declared>>,
         SameCalls, itr \in DOMAIN tokens, itr' = itr + 1,
         Top.kind = "expr" => itr < Top.end,
         At(itr) \notin {".", "end", RightBrace, "(", ")"},
         At(itr) \in Name => At(itr) \in DOMAIN table \/ At(itr - 1) # "Participant",
         Top.kind = "com" =>
           stack'[Len(stack)].expects \in {"->", "receiver", ":", "channel", "<", "type", ">"},
         Top.kind = "expr" => stack'[Len(stack)].expects \in {"operand", "operator"},
         Follows(stack'[Len(stack)], At(itr)),
         uses' \in Seq(Declarations!Use), Len(uses') <= 3, body' \in Declarations!Body,
         Top.kind # "com" => Len(uses') = Len(uses),
         Top.kind = "com" => Counted(stack'[Len(stack)].expects, Len(uses')),
         \A i \in DOMAIN uses' :
           \/ i \in DOMAIN uses /\ uses'[i].name = uses[i].name
           \/ uses'[i].name = NoName /\ SomeUndeclared'
           \/ /\ uses'[i].name # NoName
              /\ resolve(uses'[i].name, "Participant") \/ resolve(uses'[i].name, "Channel"),
         \A i \in DOMAIN body' :
           \/ i \in DOMAIN body /\ body'[i] = body[i]
           \/ body'[i].tag = "ref" /\ resolve(body'[i].name, "Global")
           \/ body'[i].tag = "com" /\ (body'[i].to.name = NoName => UsesNull(uses))
           \/ body'[i].tag \in {"open", "close"}
  PROVE  TokensInv'
<1>1. /\ TypeOK /\ tokens \in Seq(Token) /\ CallsInOrder /\ UsesCounted /\ Scopes
      /\ Doomed \/ TextDeclares
  BY DEF TokensInv, Scopes
<1>2. /\ UNCHANGED tokens /\ UNCHANGED table
      /\ itr \in Nat /\ itr' \in Nat /\ itr < itr' /\ itr' <= Len(tokens) + 1
  BY <1>1, CallsAre DEF parserVars
<1>3. CallsInOrder'
  BY <1>1, OrderStays
<1>4. UsesCounted'
  BY <1>1, CountedStays
<1>5. ReadLast'
  <2>1. /\ stack' \in Seq(Call) /\ Len(stack') > 0 /\ Len(stack') = Len(stack)
    BY <1>1, TopIs DEF SameCalls
  <2>2. At(itr' - 1) = At(itr)
    BY <1>2
  <2>. QED
    BY <1>2, <2>1, <2>2, LastAfter
<1>6. ScopesEnd' /\ Inside' /\ (Doomed => Doomed')
  BY <1>1, <1>2, ReadOneOn
<1>7. TextDeclares => TextDeclares'
  BY <1>1, <1>2, SameTable, TextOneOn
<1>8. stack' \in Seq(Call)
  BY DEF SameCalls
<1>. QED
  BY <1>1, <1>2, <1>3, <1>4, <1>5, <1>6, <1>7, <1>8, RunsOn

(* Names that resolve. *)
LEMMA ResolvedName ==
  ASSUME TypeOK, tokens \in Seq(Token), NEW p, NEW tag, resolve(At(p), tag)
  PROVE  At(p) \in Name /\ At(p) \in DOMAIN table /\ p \in DOMAIN tokens /\ table[At(p)].tag = tag
<1>1. At(p) \in DOMAIN table /\ At(p) \in Name /\ table[At(p)].tag = tag
  BY DEF resolve, Declarations!resolve, TypeOK
<1>2. At(p) # "beyond"
  BY <1>1, NamesApart
<1>. QED
  BY <1>1, <1>2, AtText

LEMMA AddGlobalTypeKeeps ==
  ASSUME TokensInv, AddGlobalType
  PROVE  TokensInv'
<1>1. /\ TypeOK /\ tokens \in Seq(Token) /\ UsesCounted
      /\ outcome = "running" /\ stack # << >> /\ Top.kind = "list" /\ resolve(At(itr), "Global")
      /\ UNCHANGED <<parserVars, tokens, declared>> /\ UNCHANGED uses /\ UNCHANGED stack /\ itr' = itr + 1
      /\ body' = Append(body, [tag |-> "ref", name |-> At(itr)])
  BY DEF TokensInv, AddGlobalType, ReadsRef, InList, In, Advance
<1>2. itr \in DOMAIN tokens /\ At(itr) \in Name /\ At(itr) \in DOMAIN table
  BY <1>1, ResolvedName
<1>3. At(itr) \notin {".", "end", RightBrace, "(", ")"}
  BY <1>2, NamesApart
<1>4. /\ body' \in Declarations!Body
      /\ \A i \in DOMAIN body' : \/ i \in DOMAIN body /\ body'[i] = body[i]
                                 \/ body'[i].tag = "ref" /\ resolve(body'[i].name, "Global")
  <2>1. body \in Declarations!Body
    BY <1>1 DEF TypeOK
  <2>2. [tag |-> "ref", name |-> At(itr)] \in Declarations!Ref
    BY <1>2 DEF Declarations!Ref
  <2>. DEFINE item == [tag |-> "ref", name |-> At(itr)]
  <2>3. item.tag = "ref" /\ item.name = At(itr)
    OBVIOUS
  <2>. HIDE DEF item
  <2>. QED
    BY <1>1, <2>1, <2>2, <2>3 DEF Declarations!Body, item
<1>5. uses' \in Seq(Declarations!Use) /\ Len(uses') <= 3
  BY <1>1 DEF TypeOK
<1>6. SameCalls /\ Follows(stack'[Len(stack)], At(itr))
  <2>1. stack[Len(stack)].kind = "list"
    BY <1>1, TopIs
  <2>. QED
    BY <1>1, <2>1, UnchangedSame DEF Follows
<1>. QED
  BY <1>1, <1>2, <1>3, <1>4, <1>5, <1>6, QuietStep

(* What does not change in most steps. *)
LEMMA KeptItems ==
  ASSUME TypeOK
  PROVE  /\ UNCHANGED uses => uses' \in Seq(Declarations!Use) /\ Len(uses') <= 3 /\ Len(uses') = Len(uses)
         /\ UNCHANGED uses => \A i \in DOMAIN uses' : i \in DOMAIN uses /\ uses'[i].name = uses[i].name
         /\ UNCHANGED body => body' \in Declarations!Body
         /\ UNCHANGED body => \A i \in DOMAIN body' : i \in DOMAIN body /\ body'[i] = body[i]
  BY DEF TypeOK

LEMMA TopCounted ==
  ASSUME TypeOK, tokens \in Seq(Token), UsesCounted, stack # << >>, Top.kind = "com"
  PROVE  Counted(Top.expects, Len(uses))
  BY TopIs DEF UsesCounted

LEMMA PassPunctuationKeeps ==
  ASSUME TokensInv, PassPunctuation
  PROVE  TokensInv'
<1>1. /\ TypeOK /\ tokens \in Seq(Token) /\ UsesCounted
      /\ outcome = "running" /\ stack # << >> /\ Top.kind = "com"
      /\ At(itr) = Top.expects /\ Top.expects \in {"->", ":", "<"}
      /\ UNCHANGED <<parserVars, tokens, declared>> /\ UNCHANGED uses /\ UNCHANGED body /\ itr' = itr + 1
  BY DEF TokensInv, PassPunctuation, ReadsPunctuation, In, Advance
<1>2. PICK s \in Punctuation : At(itr) = s[1] /\ stack' = Expecting(s[2])
  BY DEF PassPunctuation, Advance
<1>3. /\ s[2] \in {"receiver", "channel", "type"}
      /\ s[2] = "receiver" => At(itr) = "->"
      /\ s[2] = "channel" => At(itr) = ":"
      /\ s[2] = "type" => At(itr) = "<"
  BY <1>2 DEF Punctuation
<1>4. itr \in DOMAIN tokens /\ At(itr) \notin {".", "end", RightBrace, "(", ")"} /\ At(itr) \notin Name
  BY <1>1, AtText, NamesApart, Braces
<1>5. SameCalls /\ stack'[Len(stack)].expects = s[2]
  BY <1>1, <1>2, <1>3, ExpectingSame
<1>6. stack'[Len(stack)].kind = "com"
  BY <1>1, <1>5, TopIs DEF SameCalls
<1>7. Counted(Top.expects, Len(uses)) /\ Counted(s[2], Len(uses'))
  BY <1>1, <1>3, TopCounted DEF Counted
<1>8. Follows(stack'[Len(stack)], At(itr))
  BY <1>3, <1>5, <1>6 DEF Follows
<1>. QED
  BY <1>1, <1>3, <1>4, <1>5, <1>7, <1>8, KeptItems, QuietStep

LEMMA ReadChannelKeeps ==
  ASSUME TokensInv, ReadChannel
  PROVE  TokensInv'
<1>1. /\ TypeOK /\ tokens \in Seq(Token) /\ UsesCounted
      /\ outcome = "running" /\ stack # << >> /\ Top.kind = "com" /\ Top.expects = "channel"
      /\ resolve(At(itr), "Channel") /\ stack' = Expecting("<")
      /\ UNCHANGED <<parserVars, tokens, declared>> /\ UNCHANGED body /\ itr' = itr + 1
      /\ uses' = Append(uses, [name |-> At(itr), index |-> "none"])
  BY DEF TokensInv, ReadChannel, ReadsChannel, In, Advance
<1>2. itr \in DOMAIN tokens /\ At(itr) \in Name /\ At(itr) \in DOMAIN table
  BY <1>1, ResolvedName
<1>3. At(itr) \notin {".", "end", RightBrace, "(", ")"} /\ At(itr) # NoName
  BY <1>2, NamesApart, TokenParserAssumption DEF Declarations!ParserAssumption
<1>4. SameCalls /\ stack'[Len(stack)].expects = "<" /\ stack'[Len(stack)].kind = "com"
  <2>1. SameCalls /\ stack'[Len(stack)].expects = "<"
    BY <1>1, ExpectingSame
  <2>. QED
    BY <1>1, <2>1, TopIs DEF SameCalls
<1>5. Len(uses) = 2 /\ uses \in Seq(Declarations!Use)
  BY <1>1, TopCounted DEF Counted, TypeOK
<1>. DEFINE use == [name |-> At(itr), index |-> "none"]
<1>6. use \in Declarations!Use /\ use.name = At(itr) /\ uses' = Append(uses, use)
  BY <1>1, <1>2 DEF Declarations!Use
<1>. HIDE DEF use
<1>7. /\ uses' \in Seq(Declarations!Use) /\ Len(uses') = 3
      /\ \A i \in DOMAIN uses' : (i \in DOMAIN uses /\ uses'[i] = uses[i]) \/ uses'[i] = use
  BY <1>5, <1>6, Appended
<1>8. Counted("<", Len(uses')) /\ Follows(stack'[Len(stack)], At(itr))
  BY <1>4, <1>7 DEF Counted, Follows
<1>. QED
  BY <1>1, <1>2, <1>3, <1>4, <1>6, <1>7, <1>8, KeptItems, QuietStep

LEMMA ReadTypeKeeps ==
  ASSUME TokensInv, ReadType
  PROVE  TokensInv'
<1>1. /\ TypeOK /\ tokens \in Seq(Token) /\ UsesCounted /\ ReadLast
      /\ outcome = "running" /\ stack # << >> /\ Top.kind = "com" /\ Top.expects = "type"
      /\ Is(itr, "Identifier") /\ stack' = Expecting(">")
      /\ UNCHANGED <<parserVars, tokens, declared>> /\ UNCHANGED uses /\ UNCHANGED body /\ itr' = itr + 1
  BY DEF TokensInv, ReadType, ReadsType, In, Advance
<1>2. itr \in DOMAIN tokens /\ At(itr) \in Name
  BY <1>1, AtText
<1>3. At(itr) \notin {".", "end", RightBrace, "(", ")"}
  BY <1>2, NamesApart
<1>4. At(itr - 1) = "<"
  BY <1>1 DEF ReadLast, Follows
<1>5. SameCalls /\ stack'[Len(stack)].expects = ">" /\ stack'[Len(stack)].kind = "com"
  <2>1. SameCalls /\ stack'[Len(stack)].expects = ">"
    BY <1>1, ExpectingSame
  <2>. QED
    BY <1>1, <2>1, TopIs DEF SameCalls
<1>6. Counted(">", Len(uses')) /\ Follows(stack'[Len(stack)], At(itr))
  BY <1>1, <1>2, <1>5, TopCounted DEF Counted, Follows
<1>. QED
  BY <1>1, <1>2, <1>3, <1>4, <1>5, <1>6, KeptItems, QuietStep

(* An expression is read inside its scope. *)
LEMMA InExpr ==
  ASSUME TypeOK, tokens \in Seq(Token), ScopesEnd, stack # << >>, Top.kind = "expr"
  PROVE  /\ itr <= Top.end /\ Top.end \in DOMAIN tokens
         /\ itr # Top.end => itr < Top.end
         /\ Top.end \in Nat /\ itr \in DOMAIN tokens
<1>1. Len(stack) \in DOMAIN stack /\ Top = stack[Len(stack)] /\ Top.end \in Nat /\ Top.end \in 1 .. Len(tokens)
  BY TopIs
<1>2. itr <= Top.end
  BY <1>1 DEF ScopesEnd
<1>3. itr \in Nat /\ itr > 0 /\ Len(tokens) \in Nat /\ DOMAIN tokens = 1 .. Len(tokens)
  BY CallsAre
<1>. QED
  BY <1>1, <1>2, <1>3

LEMMA ReadAtomKeeps ==
  ASSUME TokensInv, ReadAtom
  PROVE  TokensInv'
<1>1. /\ TypeOK /\ tokens \in Seq(Token) /\ UsesCounted /\ ReadLast /\ ScopesEnd
      /\ outcome = "running" /\ stack # << >> /\ Top.kind = "expr" /\ Top.expects = "operand"
      /\ itr # Top.end /\ (Is(itr, "Identifier") \/ Is(itr, "Literal"))
      /\ stack' = Expecting("operator")
      /\ UNCHANGED <<parserVars, tokens, declared>> /\ UNCHANGED uses /\ UNCHANGED body /\ itr' = itr + 1
  BY DEF TokensInv, ReadAtom, ReadsAtom, Operand, In, Advance
<1>2. itr \in DOMAIN tokens /\ At(itr) \in Name \cup Literals
  BY <1>1, AtText
<1>3. At(itr) \notin {".", "end", RightBrace, "(", ")"}
  BY <1>2, NamesApart, Braces DEF Literals
<1>4. At(itr - 1) # "Participant"
  BY <1>1 DEF ReadLast, Follows
<1>5. SameCalls /\ stack'[Len(stack)].expects = "operator" /\ stack'[Len(stack)].kind = "expr"
  <2>1. SameCalls /\ stack'[Len(stack)].expects = "operator"
    BY <1>1, ExpectingSame
  <2>. QED
    BY <1>1, <2>1, TopIs DEF SameCalls
<1>6. Follows(stack'[Len(stack)], At(itr))
  BY <1>5 DEF Follows
<1>7. itr < Top.end
  BY <1>1, InExpr
<1>. QED
  BY <1>1, <1>2, <1>3, <1>4, <1>5, <1>6, <1>7, KeptItems, QuietStep

LEMMA PassSignKeeps ==
  ASSUME TokensInv, PassSign
  PROVE  TokensInv'
<1>1. /\ TypeOK /\ tokens \in Seq(Token) /\ UsesCounted /\ ScopesEnd
      /\ outcome = "running" /\ stack # << >> /\ Top.kind = "expr"
      /\ itr # Top.end /\ At(itr) \in {"+", "-"}
      /\ stack' = Expecting("operand")
      /\ UNCHANGED <<parserVars, tokens, declared>> /\ UNCHANGED uses /\ UNCHANGED body /\ itr' = itr + 1
  BY DEF TokensInv, PassSign, ReadsSign, Operator, In, Advance
<1>2. itr < Top.end /\ itr \in DOMAIN tokens
  BY <1>1, InExpr
<1>3. At(itr) \notin {".", "end", RightBrace, "(", ")"} /\ At(itr) \notin Name
  BY <1>1, NamesApart, Braces
<1>4. SameCalls /\ stack'[Len(stack)].expects = "operand" /\ stack'[Len(stack)].kind = "expr"
  <2>1. SameCalls /\ stack'[Len(stack)].expects = "operand"
    BY <1>1, ExpectingSame
  <2>. QED
    BY <1>1, <2>1, TopIs DEF SameCalls
<1>5. Follows(stack'[Len(stack)], At(itr))
  BY <1>1, <1>4 DEF Follows
<1>. QED
  BY <1>1, <1>2, <1>3, <1>4, <1>5, KeptItems, QuietStep

LEMMA IndexedUses ==
  ASSUME TypeOK, NEW x \in {"none", "plain"} \cup Name, uses' = IndexedBy(x)
  PROVE  /\ uses' \in Seq(Declarations!Use) /\ Len(uses') <= 3 /\ Len(uses') = Len(uses)
         /\ \A i \in DOMAIN uses' : i \in DOMAIN uses /\ uses'[i].name = uses[i].name
<1>1. uses \in Seq(Declarations!Use) /\ Len(uses) <= 3
  BY DEF TypeOK
<1>. DEFINE With(u) == [u EXCEPT !.index = x]
<1>2. uses' = [uses EXCEPT ![Len(uses)] = With(uses[Len(uses)])]
  BY DEF IndexedBy
<1>3. \A u \in Declarations!Use : With(u) \in Declarations!Use /\ With(u).name = u.name
  BY DEF Declarations!Use
<1>. HIDE DEF With
<1>4. CASE Len(uses) \in DOMAIN uses
  <2>1. With(uses[Len(uses)]) \in Declarations!Use /\ With(uses[Len(uses)]).name = uses[Len(uses)].name
    BY <1>1, <1>3, <1>4
  <2>2. uses' \in Seq(Declarations!Use) /\ Len(uses') = Len(uses) /\ DOMAIN uses' = DOMAIN uses
    BY <1>1, <1>2, <1>4, <2>1
  <2>3. \A i \in DOMAIN uses : uses'[i] = IF i = Len(uses) THEN With(uses[Len(uses)]) ELSE uses[i]
    BY <1>1, <1>2, <1>4
  <2>. QED
    BY <1>1, <2>1, <2>2, <2>3
<1>5. CASE Len(uses) \notin DOMAIN uses
  <2>1. uses' = uses
    BY <1>1, <1>2, <1>5
  <2>. QED
    BY <1>1, <2>1
<1>. QED
  BY <1>4, <1>5

(* min(I) and max(I) leave no parenthesis open, nor end the scope. *)
LEMMA ExtremeInside ==
  ASSUME TypeOK, tokens \in Seq(Token), CallsInOrder, ScopesEnd, stack # << >>, Top.kind = "expr",
         itr # Top.end, At(itr) \in {"min", "max"}, At(itr + 1) = "(", At(itr + 2) \in Name,
         At(itr + 3) = ")"
  PROVE  /\ itr + 4 <= Top.end
         /\ \A q \in itr .. itr + 3 : Depth(itr, q) >= 0
         /\ Depth(itr, itr + 3) = 0
         /\ \A q \in itr .. itr + 3 : At(q) \notin {".", "end", RightBrace}
<1>1. /\ itr \in Nat /\ itr > 0 /\ Len(stack) \in DOMAIN stack /\ Top = stack[Len(stack)]
      /\ Top.end \in Nat /\ itr < Top.end
  BY TopIs, CallsAre, InExpr
<1>2. At(itr + 2) \notin {"(", ")", "]", ".", "end", RightBrace}
  BY NamesApart
<1>3. /\ Weight(itr) = 0 /\ Weight(itr + 1) = 1 /\ Weight(itr + 2) = 0 /\ Weight(itr + 3) = 0 - 1
  BY <1>2 DEF Weight
<1>4. /\ Depth(itr, itr) = 0
      /\ Depth(itr, itr + 1) = 1
      /\ Depth(itr, itr + 2) = 1
      /\ Depth(itr, itr + 3) = 0
  <2>1. /\ Depth(itr, itr) = Weight(itr)
        /\ Depth(itr + 1, itr + 1) = Weight(itr + 1)
        /\ Depth(itr + 2, itr + 2) = Weight(itr + 2)
        /\ Depth(itr + 3, itr + 3) = Weight(itr + 3)
    BY <1>1, DepthSplit
  <2>2. Depth(itr, itr + 1) = Depth(itr, itr) + Depth(itr + 1, itr + 1)
    BY <1>1, DepthSplit
  <2>3. Depth(itr, itr + 2) = Depth(itr, itr + 1) + Depth(itr + 2, itr + 2)
    <3>1. itr \in Nat /\ itr + 1 \in Nat /\ itr + 2 \in Nat /\ itr <= itr + 1 /\ itr + 1 < itr + 2
          /\ (itr + 1) + 1 = itr + 2
      BY <1>1
    <3>. QED
      BY <3>1, DepthSplit
  <2>4. Depth(itr, itr + 3) = Depth(itr, itr + 2) + Depth(itr + 3, itr + 3)
    <3>1. itr \in Nat /\ itr + 2 \in Nat /\ itr + 3 \in Nat /\ itr <= itr + 2 /\ itr + 2 < itr + 3
          /\ (itr + 2) + 1 = itr + 3
      BY <1>1
    <3>. QED
      BY <3>1, DepthSplit
  <2>. QED
    BY <1>3, <2>1, <2>2, <2>3, <2>4
<1>5. \A q \in itr .. itr + 3 : q = itr \/ q = itr + 1 \/ q = itr + 2 \/ q = itr + 3
  BY <1>1
<1>6. \A q \in itr .. itr + 3 : Depth(itr, q) >= 0
  BY <1>4, <1>5
<1>7. \A q \in itr .. itr + 3 : At(q) \notin {".", "end", RightBrace}
  BY <1>2, <1>5, Braces
<1>8. At(Top.end) \in {"]", ")"}
  BY <1>1 DEF ScopesEnd
<1>9. Top.end # itr + 1 /\ Top.end # itr + 2
  BY <1>2, <1>8
<1>10. Top.end # itr + 3
  <2>. SUFFICES ASSUME Top.end = itr + 3 PROVE FALSE
    OBVIOUS
  <2>1. At(stack[Len(stack)].end) # "]" /\ stack[Len(stack)].kind = "expr"
    BY <1>1
  <2>2. PICK p \in 1 .. itr - 1 : Balances(p, itr + 3)
    <3>1. InParens(Len(stack))
      BY <1>1, <2>1 DEF ScopesEnd
    <3>. QED
      BY <1>1, <3>1 DEF ScopesEnd
  <2>3. p \in Nat /\ itr - 1 \in Nat /\ p <= itr - 1 /\ itr - 1 < itr + 3 /\ (itr - 1) + 1 = itr
        /\ itr + 3 \in Nat
    BY <1>1, <2>2
  <2>4. Depth(p, itr + 3) = Depth(p, itr - 1) + Depth(itr, itr + 3)
    BY <2>3, DepthSplit
  <2>5. Depth(p, itr + 3) = 0 /\ Depth(p, itr - 1) > 0
    <3>1. itr - 1 \in p .. (itr + 3) - 1
      BY <2>3
    <3>. QED
      BY <2>2, <3>1 DEF Balances
  <2>6. Depth(p, itr - 1) \in Int
    BY <2>3, DepthSplit
  <2>. QED
    BY <1>4, <2>4, <2>5, <2>6
<1>11. itr + 4 <= Top.end
  BY <1>1, <1>9, <1>10
<1>. QED
  BY <1>4, <1>6, <1>7, <1>11

LEMMA ReadExtremeKeeps ==
  ASSUME TokensInv, ReadExtreme
  PROVE  TokensInv'
<1>1. /\ TypeOK /\ tokens \in Seq(Token) /\ UsesCounted /\ ReadLast /\ ScopesEnd /\ CallsInOrder /\ Scopes
      /\ Doomed \/ TextDeclares
      /\ outcome = "running" /\ stack # << >> /\ Top.kind = "expr" /\ Top.expects = "operand"
      /\ itr # Top.end /\ At(itr) \in {"min", "max"} /\ At(itr + 1) = "("
      /\ resolve(At(itr + 2), "Index") /\ At(itr + 3) = ")"
      /\ stack' = Expecting("operator") /\ itr' = itr + 4 /\ uses' = IndexedBy(At(itr + 2))
      /\ UNCHANGED <<parserVars, tokens, declared>> /\ UNCHANGED body
  BY DEF TokensInv, Scopes, ReadExtreme, ReadsExtreme, Operand, In
<1>2. At(itr + 2) \in Name /\ At(itr + 2) # "Participant"
  BY <1>1, ResolvedName, NamesApart
<1>3. /\ itr' <= Top.end
      /\ \A q \in itr .. itr + 3 : Depth(itr, q) >= 0
      /\ Depth(itr, itr + 3) = 0
      /\ \A q \in itr .. itr + 3 : At(q) \notin {".", "end", RightBrace}
  BY <1>1, <1>2, ExtremeInside
<1>4. /\ itr \in Nat /\ itr' \in Nat /\ itr < itr' /\ itr' - 1 = itr + 3 /\ itr' - 2 = itr + 2
      /\ Top.end \in Nat /\ Top.end \in 1 .. Len(tokens) /\ Len(tokens) \in Nat
      /\ UNCHANGED tokens /\ UNCHANGED table
  BY <1>1, CallsAre, TopIs DEF parserVars
<1>5. SameCalls /\ stack'[Len(stack)].expects = "operator" /\ stack'[Len(stack)].kind = "expr"
  <2>1. SameCalls /\ stack'[Len(stack)].expects = "operator"
    BY <1>1, ExpectingSame
  <2>. QED
    BY <1>1, <2>1, TopIs DEF SameCalls
<1>6. ScopesEnd' /\ Inside' /\ (Doomed => Doomed')
  <2>1. /\ \A q \in itr .. itr' - 1 : Depth(itr, q) >= 0
        /\ Depth(itr, itr' - 1) = 0
        /\ \A q \in itr .. itr' - 1 : At(q) \notin {".", "end", RightBrace}
    BY <1>3, <1>4
  <2>. QED
    BY <1>1, <1>3, <1>4, <1>5, <2>1, ReadOn, DoomedStays
<1>7. TextDeclares => TextDeclares'
  <2>1. At(itr - 1) # "Participant"
    BY <1>1 DEF ReadLast, Follows
  <2>2. ASSUME NEW q \in itr - 1 .. itr' - 2, q > 0, tokens[q] = "Participant" PROVE FALSE
    <3>1. q = itr - 1 \/ q = itr \/ q = itr + 1 \/ q = itr + 2
      <4>1. q \in itr - 1 .. itr + 2 /\ itr \in Nat
        BY <1>4
      <4>. QED
        BY <4>1
    <3>2. q \in DOMAIN tokens
      BY <1>1, <1>3, <1>4, <2>2
    <3>3. At(q) = "Participant"
      BY <2>2, <3>2 DEF At
    <3>. QED
      BY <1>1, <1>2, <2>1, <3>1, <3>3
  <2>. QED
    BY <1>1, <1>4, <2>2, SameTable, TextOn
<1>8. CallsInOrder' /\ UsesCounted'
  <2>1. At(itr + 2) \in {"none", "plain"} \cup Name
    BY <1>2
  <2>2. Len(uses') = Len(uses)
    BY <1>1, <2>1, IndexedUses
  <2>. QED
    BY <1>1, <1>5, <2>2, OrderStays, CountedStays
<1>9. ReadLast'
  <2>1. /\ stack' \in Seq(Call) /\ Len(stack') > 0 /\ Len(stack') = Len(stack)
    BY <1>1, <1>5, TopIs DEF SameCalls
  <2>2. Follows(stack'[Len(stack')], At(itr' - 1))
    BY <1>5, <2>1 DEF Follows
  <2>. QED
    BY <1>4, <2>1, <2>2, LastAfter
<1>10. /\ uses' \in Seq(Declarations!Use) /\ Len(uses') <= 3
       /\ \A i \in DOMAIN uses' : i \in DOMAIN uses /\ uses'[i].name = uses[i].name
  <2>1. At(itr + 2) \in {"none", "plain"} \cup Name
    BY <1>2
  <2>. QED
    BY <1>1, <2>1, IndexedUses
<1>11. itr' <= Len(tokens) + 1 /\ stack' \in Seq(Call)
  BY <1>3, <1>4, <1>5 DEF SameCalls
<1>. QED
  BY <1>1, <1>4, <1>6, <1>7, <1>8, <1>9, <1>10, <1>11, KeptItems, RunsOn

----------------------------------------------------------------------------
(***************************************************************************)
(* The two steps that read what may end a list or a communication.         *)
(***************************************************************************)
LEMMA NoExprEnds ==
  ASSUME Scopes, stack # << >>, Top.kind # "expr", SameCalls, UNCHANGED tokens
  PROVE  ScopesEnd'
<1>1. TypeOK /\ tokens \in Seq(Token) /\ CallsInOrder /\ ScopesEnd
  BY DEF Scopes
<1>2. \A f \in DOMAIN stack : stack[f].kind # "expr"
  BY <1>1, NotDoomed
<1>3. DOMAIN stack' = DOMAIN stack
  BY DEF SameCalls
<1>4. ASSUME NEW f \in DOMAIN stack
      PROVE  /\ stack'[f].end \in 2 .. Len(tokens)
             /\ stack'[f].kind = "list" => At(stack'[f].end) \in {"end", RightBrace}
             /\ stack'[f].kind = "com" => At(stack'[f].end) \in {".", "end", RightBrace}
             /\ stack'[f].kind # "expr"
             /\ ~InParens(f)'
  BY <1>1, <1>2 DEF ScopesEnd, SameCalls, InParens
<1>. QED
  BY <1>3, <1>4, SameText DEF ScopesEnd

LEMMA PassSeparatorKeeps ==
  ASSUME TokensInv, PassSeparator
  PROVE  TokensInv'
<1>1. /\ TypeOK /\ tokens \in Seq(Token) /\ UsesCounted /\ CallsInOrder /\ Scopes /\ Inside
      /\ Doomed \/ TextDeclares
      /\ outcome = "running" /\ stack # << >> /\ Top.kind = "list"
      /\ itr # Top.end /\ At(itr) \in {".", "end"}
      /\ UNCHANGED <<parserVars, tokens, declared>> /\ UNCHANGED uses /\ UNCHANGED body /\ UNCHANGED stack
      /\ itr' = itr + 1
  BY DEF TokensInv, Scopes, PassSeparator, ReadsSeparator, InList, In, Advance
<1>2. /\ itr \in DOMAIN tokens /\ At(itr) \notin Name
      /\ itr \in Nat /\ itr' \in Nat /\ itr < itr' /\ itr' <= Len(tokens) + 1
      /\ UNCHANGED tokens /\ UNCHANGED table
      /\ DOMAIN stack = 1 .. Len(stack) /\ Len(stack) \in Nat /\ Len(stack) \in DOMAIN stack
      /\ Top = stack[Len(stack)] /\ \A f \in DOMAIN stack : stack[f].end \in Nat
  BY <1>1, AtText, NamesApart, CallsAre, TopIs DEF parserVars
<1>3. SameCalls
  BY <1>1, UnchangedSame
<1>4. ScopesEnd'
  BY <1>1, <1>3, NoExprEnds
<1>5. ~Doomed /\ \A f \in DOMAIN stack : stack[f].kind = "list"
  <2>1. ~Doomed
    BY <1>1, NotDoomed
  <2>2. \A f \in DOMAIN stack : f = Len(stack) \/ f < Len(stack)
    BY <1>2
  <2>. QED
    BY <1>1, <1>2, <2>1, <2>2 DEF CallsInOrder
<1>6. Inside'
  <2>1. CASE Passed
    <3>1. PICK h \in DOMAIN stack : stack[h].kind = "list" /\ stack[h].end < itr /\ Received(stack[h].end)
      BY <2>1 DEF Passed
    <3>2. stack[h].end < itr'
      BY <1>2, <3>1
    <3>. QED
      BY <1>1, <3>1, <3>2, SameText DEF Passed, Inside
  <2>2. CASE Nesting
    <3>1. ASSUME NEW f \in DOMAIN stack PROVE itr' <= stack[f].end
      <4>1. itr <= Top.end
        BY <1>2, <1>5, <2>2 DEF Nesting
      <4>2. f = Len(stack) \/ (f < Len(stack) /\ Top.end < stack[f].end)
        BY <1>2, <1>5, <2>2 DEF Nesting
      <4>3. stack[f].end \in Nat /\ Top.end \in Nat
        BY <1>2
      <4>. QED
        BY <1>1, <1>2, <4>1, <4>2, <4>3
    <3>2. \A g, f \in DOMAIN stack : g < f => stack[f].end < stack[g].end
      BY <1>5, <2>2 DEF Nesting
    <3>3. Nesting'
      BY <1>1, <1>5, <3>1, <3>2 DEF Nesting
    <3>. QED
      BY <3>3 DEF Inside
  <2>. QED
    BY <1>1, <2>1, <2>2 DEF Inside
<1>7. CallsInOrder' /\ UsesCounted'
  <2>1. stack[Len(stack)].kind = "list" /\ Top.kind # "com" /\ Top.kind # "expr"
    BY <1>1, <1>2
  <2>. QED
    BY <1>1, <1>3, <2>1, OrderStays, CountedStays
<1>8. ReadLast'
  <2>1. /\ stack' \in Seq(Call) /\ Len(stack') > 0 /\ Len(stack') = Len(stack)
    BY <1>1, <1>3, TopIs DEF SameCalls
  <2>2. Follows(stack'[Len(stack')], At(itr' - 1))
    BY <1>1, <1>2, <2>1 DEF Follows
  <2>. QED
    BY <1>2, <2>1, <2>2, LastAfter
<1>9. TextDeclares'
  BY <1>1, <1>2, <1>5, SameTable, TextOneOn
<1>10. stack' \in Seq(Call)
  BY <1>3 DEF SameCalls
<1>. QED
  BY <1>1, <1>2, <1>4, <1>6, <1>7, <1>8, <1>9, <1>10, KeptItems, RunsOn

LEMMA ReadReceiverKeeps ==
  ASSUME TokensInv, ReadReceiver
  PROVE  TokensInv'
<1>1. /\ TypeOK /\ tokens \in Seq(Token) /\ UsesCounted /\ CallsInOrder /\ Scopes /\ Inside /\ ReadLast
      /\ Doomed \/ TextDeclares
      /\ outcome = "running" /\ stack # << >> /\ Top.kind = "com" /\ Top.expects = "receiver"
      /\ itr \in DOMAIN tokens /\ stack' = Expecting(":")
      /\ UNCHANGED <<parserVars, tokens, declared>> /\ UNCHANGED body
      /\ itr' = itr + 1 /\ uses' = Append(uses, [name |-> Receiver, index |-> "none"])
  BY DEF TokensInv, Scopes, ReadReceiver, ReadsReceiver, In, Advance
<1>2. /\ At(itr - 1) = "->"
      /\ itr \in Nat /\ itr' \in Nat /\ itr < itr' /\ itr' <= Len(tokens) + 1 /\ Len(tokens) \in Nat
      /\ UNCHANGED tokens /\ UNCHANGED table
      /\ DOMAIN stack = 1 .. Len(stack) /\ Len(stack) \in Nat /\ Len(stack) \in DOMAIN stack
      /\ Top = stack[Len(stack)] /\ \A f \in DOMAIN stack : stack[f].end \in Nat
  BY <1>1, AtText, CallsAre, TopIs DEF parserVars, ReadLast, Follows
<1>3. SameCalls /\ stack'[Len(stack)].expects = ":" /\ stack'[Len(stack)].kind = "com"
  <2>1. SameCalls /\ stack'[Len(stack)].expects = ":"
    BY <1>1, ExpectingSame
  <2>. QED
    BY <1>1, <2>1, TopIs DEF SameCalls
<1>4. ScopesEnd'
  BY <1>1, <1>2, <1>3, NoExprEnds
<1>5. ~Doomed /\ \A f \in DOMAIN stack : stack[f].kind # "expr"
  BY <1>1, NotDoomed
<1>6. Inside'
  <2>1. CASE \E h \in DOMAIN stack : stack[h].kind = "list" /\ stack[h].end < itr' /\ Received(stack[h].end)
    BY <1>2, <1>3, <2>1, SameText DEF Passed, Inside, SameCalls
  <2>2. CASE ~\E h \in DOMAIN stack : stack[h].kind = "list" /\ stack[h].end < itr' /\ Received(stack[h].end)
    <3>1. \A e \in Nat : itr <= e => itr' <= e \/ (e < itr' /\ Received(e))
      <4>. TAKE e \in Nat
      <4>. HAVE itr <= e
      <4>1. itr = e \/ itr' <= e
        BY <1>1, <1>2
      <4>2. itr = e => e < itr' /\ Received(e)
        BY <1>2 DEF Received
      <4>. QED
        BY <4>1, <4>2
    <3>2. Nesting
      <4>1. ~Passed
        <5>1. \A e \in Nat : e < itr => e < itr'
          BY <1>2
        <5>. QED
          BY <1>2, <2>2, <5>1 DEF Passed
      <4>. QED
        BY <1>1, <4>1 DEF Inside
    <3>3. \A f \in DOMAIN stack :
            /\ stack[f].kind = "list" => itr' <= stack[f].end
            /\ stack[f].kind = "com" => itr' <= stack[f].end \/ Received(stack[f].end)
      BY <1>2, <1>5, <2>2, <3>1, <3>2 DEF Nesting
    <3>4. \A g, f \in DOMAIN stack : g < f =>
            /\ stack[f].kind = "list" => stack[f].end < stack[g].end
            /\ stack[f].kind = "com" => stack[f].end <= stack[g].end
      BY <3>2 DEF Nesting
    <3>5. Nesting'
      <4>1. DOMAIN stack' = DOMAIN stack
        BY <1>3 DEF SameCalls
      <4>2. \A f \in DOMAIN stack : /\ stack'[f].kind = stack[f].kind
                                    /\ stack'[f].end = stack[f].end
        BY <1>3 DEF SameCalls
      <4>. QED
        BY <1>2, <1>5, <3>3, <3>4, <4>1, <4>2, SameText DEF Nesting
    <3>. QED
      BY <3>5 DEF Inside
  <2>. QED
    BY <2>1, <2>2
<1>7. TextDeclares'
  BY <1>1, <1>2, <1>5, SameTable, TextOneOn
<1>8. Receiver \in Name \cup {NoName}
  BY <1>1, ResolvedName DEF Receiver
<1>. DEFINE use == [name |-> Receiver, index |-> "none"]
<1>9. use \in Declarations!Use /\ use.name = Receiver /\ uses' = Append(uses, use)
  BY <1>1, <1>8 DEF Declarations!Use
<1>. HIDE DEF use
<1>10. Len(uses) = 1 /\ uses \in Seq(Declarations!Use)
  BY <1>1, TopCounted DEF Counted, TypeOK
<1>11. /\ uses' \in Seq(Declarations!Use) /\ Len(uses') = 2
       /\ \A i \in DOMAIN uses' : (i \in DOMAIN uses /\ uses'[i] = uses[i]) \/ uses'[i] = use
  BY <1>9, <1>10, Appended
<1>12. CallsInOrder' /\ UsesCounted'
  <2>1. Counted(stack'[Len(stack)].expects, Len(uses'))
    BY <1>3, <1>11 DEF Counted
  <2>2. Top.kind # "expr" /\ stack'[Len(stack)].expects \in {"->", "receiver", ":", "channel", "<", "type", ">"}
    BY <1>1, <1>3
  <2>. QED
    BY <1>1, <1>3, <2>1, <2>2, OrderStays, CountedStays
<1>13. ReadLast'
  <2>1. /\ stack' \in Seq(Call) /\ Len(stack') > 0 /\ Len(stack') = Len(stack)
    BY <1>1, <1>3, TopIs DEF SameCalls
  <2>2. Follows(stack'[Len(stack')], At(itr' - 1))
    BY <1>3, <2>1 DEF Follows
  <2>. QED
    BY <1>2, <2>1, <2>2, LastAfter
<1>14. /\ Receiver = NoName => SomeUndeclared'
       /\ Receiver # NoName => resolve(Receiver, "Participant")
  <2>1. Receiver # NoName => resolve(Receiver, "Participant")
    BY DEF Receiver
  <2>2. ASSUME Receiver = NoName PROVE SomeUndeclared'
    <3>1. itr - 1 \in DOMAIN tokens /\ tokens[itr - 1] = "->" /\ tokens[itr] = At(itr)
      BY <1>1, <1>2, AtText
    <3>2. itr - 1 \in 1 .. itr' - 1 /\ itr - 1 < Len(tokens) /\ (itr - 1) + 1 = itr
      BY <1>1, <1>2, <3>1
    <3>3. ~resolve(At(itr), "Participant")
      <4>1. NoName \notin Name
        BY TokenParserAssumption DEF Declarations!ParserAssumption
      <4>. QED
        BY <1>1, <2>2, <4>1, ResolvedName DEF Receiver
    <3>4. UndeclaredReceiver(itr - 1)
      BY <3>1, <3>2, <3>3 DEF UndeclaredReceiver
    <3>5. PICK p \in 1 .. itr' - 1 : p < Len(tokens) /\ UndeclaredReceiver(p)
      BY <3>2, <3>4
    <3>6. UndeclaredReceiver(p)'
      BY <1>2, <3>5 DEF UndeclaredReceiver, DeclaredBefore, resolve, Declarations!resolve
    <3>. QED
      BY <1>2, <3>5, <3>6 DEF SomeUndeclared
  <2>. QED
    BY <2>1, <2>2
<1>15. \A i \in DOMAIN uses' :
         \/ i \in DOMAIN uses /\ uses'[i].name = uses[i].name
         \/ uses'[i].name = NoName /\ SomeUndeclared'
         \/ uses'[i].name # NoName /\ resolve(uses'[i].name, "Participant")
  BY <1>9, <1>11, <1>14
<1>16. stack' \in Seq(Call)
  BY <1>3 DEF SameCalls
<1>. QED
  BY <1>1, <1>2, <1>4, <1>6, <1>7, <1>11, <1>12, <1>13, <1>15, <1>16, KeptItems, RunsOn

----------------------------------------------------------------------------
(***************************************************************************)
(* The steps that begin a call.                                            *)
(***************************************************************************)
LEMMA PushStep ==
  ASSUME TokensInv, outcome = "running", stack # << >>, UNCHANGED <<parserVars, tokens, declared>>,
         NEW c \in Call, Pushed(c),
         \/ /\ c.kind = "list" /\ Top.kind = "list"
         \/ /\ c.kind = "com" /\ Top.kind = "list" /\ c.expects = "->" /\ Len(uses') = 1
         \/ /\ c.kind = "expr" /\ c.expects = "operand" /\ Len(uses') = Len(uses)
            /\ \/ /\ Top.kind = "com"
                  /\ stack'[Len(stack)].expects = Top.expects /\ Top.expects \in {"->", ":", "<"}
               \/ Top.kind = "expr" /\ stack'[Len(stack)].expects = "operator",
         itr' \in Nat, itr < itr', itr' <= c.end,
         \A p \in itr .. itr' - 1 : At(p) \notin {".", "end", RightBrace},
         c.kind = "list" => At(c.end) \in {"end", RightBrace},
         c.kind = "com" => At(c.end) \in {".", "end", RightBrace},
         c.kind = "expr" => At(c.end) \in {"]", ")"},
         c.kind = "expr" /\ Top.kind # "expr" => At(c.end) = "]",
         Top.kind = "expr" => /\ c.end < Top.end
                              /\ \E p \in 1 .. itr' - 1 : Balances(p, c.end),
         itr <= Top.end => c.end < Top.end \/ (c.kind = "com" /\ c.end <= Top.end),
         Doomed => Doomed', TextDeclares => TextDeclares',
         Follows(c, At(itr' - 1)),
         uses' \in Seq(Declarations!Use), Len(uses') <= 3, body' \in Declarations!Body,
         \A i \in DOMAIN uses' :
           \/ i \in DOMAIN uses /\ uses'[i].name = uses[i].name
           \/ uses'[i].name = NoName /\ SomeUndeclared'
           \/ /\ uses'[i].name # NoName
              /\ resolve(uses'[i].name, "Participant") \/ resolve(uses'[i].name, "Channel"),
         \A i \in DOMAIN body' :
           \/ i \in DOMAIN body /\ body'[i] = body[i]
           \/ body'[i].tag = "ref" /\ resolve(body'[i].name, "Global")
           \/ body'[i].tag = "com" /\ (body'[i].to.name = NoName => UsesNull(uses))
           \/ body'[i].tag \in {"open", "close"}
  PROVE  TokensInv'
<1>1. /\ TypeOK /\ tokens \in Seq(Token) /\ CallsInOrder /\ UsesCounted /\ Scopes
      /\ Doomed \/ TextDeclares
  BY DEF TokensInv, Scopes
<1>2. /\ UNCHANGED tokens /\ itr \in Nat /\ itr > 0 /\ c.end \in 1 .. Len(tokens) /\ Len(tokens) \in Nat
      /\ Len(stack) \in Nat
  <2>1. DOMAIN tokens = 1 .. Len(tokens)
    BY <1>1, CallsAre
  <2>. QED
    BY <1>1, <2>1, CallsAre DEF parserVars, Call
<1>3. CallsInOrder'
  BY <1>1, OrderPushed
<1>4. UsesCounted'
  <2>1. c.kind = "com" /\ Len(uses') = 1 /\ c.expects = "->" => Counted(c.expects, Len(uses'))
    BY DEF Counted
  <2>. QED
    BY <1>1, <2>1, CountedPushed
<1>5. c.end > 1 /\ itr' <= Len(tokens) + 1
  BY <1>2
<1>6. ScopesEnd' /\ Inside'
  BY <1>1, <1>2, <1>3, <1>5, ScopesPushed
<1>7. ReadLast'
  <2>1. stack' \in Seq(Call) /\ Len(stack') > 0 /\ stack'[Len(stack')] = c
    BY <1>2 DEF Pushed
  <2>. QED
    BY <1>2, <2>1, LastAfter
<1>8. stack' \in Seq(Call)
  BY DEF Pushed
<1>. QED
  BY <1>1, <1>2, <1>3, <1>4, <1>5, <1>6, <1>7, <1>8, RunsOn

LEMMA StopIs ==
  ASSUME TypeOK, tokens \in Seq(Token), stack # << >>, NEW t, Stops(t) # {}
  PROVE  /\ Min(Stops(t)) \in itr .. Len(tokens) /\ Min(Stops(t)) \in DOMAIN tokens
         /\ Min(Stops(t)) = Top.end \/ At(Min(Stops(t))) = t
         /\ itr <= Top.end => Min(Stops(t)) <= Top.end
<1>1. /\ itr \in Nat /\ itr > 0 /\ Len(tokens) \in Nat /\ DOMAIN tokens = 1 .. Len(tokens)
      /\ Top.end \in Nat /\ Top.end \in 1 .. Len(tokens)
  BY CallsAre, TopIs
<1>2. Stops(t) \subseteq Nat
  BY <1>1 DEF Stops
<1>3. Min(Stops(t)) \in Stops(t) /\ \A x \in Stops(t) : Min(Stops(t)) <= x
  BY <1>2, MinIs
<1>4. itr <= Top.end => Top.end \in Stops(t)
  BY <1>1 DEF Stops
<1>5. Min(Stops(t)) \in itr .. Len(tokens) /\ (Min(Stops(t)) = Top.end \/ At(Min(Stops(t))) = t)
  BY <1>3 DEF Stops
<1>6. Min(Stops(t)) \in DOMAIN tokens
  BY <1>1, <1>5
<1>. QED
  BY <1>3, <1>4, <1>5, <1>6

LEMMA FrameIs ==
  ASSUME NEW k \in {"list", "com", "expr"}, NEW e \in DOMAIN tokens,
         NEW x \in {"item", "->", "operand"}, NEW n \in Name \cup {NoName}
  PROVE  /\ Frame(k, e, x, n) \in Call
         /\ Frame(k, e, x, n).kind = k /\ Frame(k, e, x, n).end = e
         /\ Frame(k, e, x, n).expects = x /\ Frame(k, e, x, n).name = n
  BY DEF Frame, Call

LEMMA BeginCommunicationKeeps ==
  ASSUME TokensInv, BeginCommunication
  PROVE  TokensInv'
<1>1. /\ TypeOK /\ tokens \in Seq(Token) /\ CallsInOrder /\ ScopesEnd
      /\ outcome = "running" /\ stack # << >> /\ Top.kind = "list" /\ itr # Top.end
      /\ resolve(At(itr), "Participant") /\ Stops(".") # {}
      /\ stack' = Append(stack, Frame("com", Min(Stops(".")), "->", NoName))
      /\ UNCHANGED <<parserVars, tokens, declared>> /\ UNCHANGED body
      /\ itr' = itr + 1 /\ uses' = <<[name |-> At(itr), index |-> "none"]>>
  BY DEF TokensInv, BeginCommunication, ReadsSender, InList, In, Advance
<1>2. /\ At(itr) \in Name /\ At(itr) \in DOMAIN table /\ itr \in DOMAIN tokens
      /\ At(itr) \notin {".", "end", RightBrace} /\ At(itr) # NoName
      /\ itr \in Nat /\ itr' \in Nat /\ itr < itr' /\ itr .. itr' - 1 = {itr}
      /\ UNCHANGED tokens /\ UNCHANGED table
      /\ Len(stack) \in DOMAIN stack /\ Top = stack[Len(stack)]
  BY <1>1, ResolvedName, NamesApart, CallsAre, TopIs, TokenParserAssumption
     DEF Declarations!ParserAssumption, parserVars
<1>. DEFINE e == Min(Stops("."))
            c == Frame("com", e, "->", NoName)
<1>3. /\ e \in itr .. Len(tokens) /\ e \in DOMAIN tokens
      /\ e = Top.end \/ At(e) = "."
      /\ itr <= Top.end => e <= Top.end
  BY <1>1, StopIs
<1>. HIDE DEF e
<1>4. c \in Call /\ c.kind = "com" /\ c.end = e /\ c.expects = "->"
  BY <1>3, FrameIs
<1>5. stack' = Append(stack, c)
  BY <1>1 DEF e
<1>. HIDE DEF c
<1>6. Pushed(c)
  BY <1>1, <1>4, <1>5, PushedCall
<1>7. itr' <= e /\ At(e) \in {".", "end", RightBrace}
  <2>1. At(Top.end) \in {"end", RightBrace}
    BY <1>1, <1>2 DEF ScopesEnd
  <2>2. e # itr
    BY <1>1, <1>2, <1>3
  <2>. QED
    BY <1>1, <1>2, <1>3, <2>1, <2>2
<1>8. ~Doomed
  BY <1>1, NotDoomed
<1>9. TextDeclares => TextDeclares'
  BY <1>1, <1>2, SameTable, TextOneOn
<1>. DEFINE use == [name |-> At(itr), index |-> "none"]
<1>10. use \in Declarations!Use /\ use.name = At(itr) /\ uses' = <<use>>
  BY <1>1, <1>2 DEF Declarations!Use
<1>. HIDE DEF use
<1>11. /\ uses' \in Seq(Declarations!Use) /\ Len(uses') = 1
       /\ \A i \in DOMAIN uses' : uses'[i].name = At(itr)
  BY <1>10
<1>12. Follows(c, At(itr' - 1))
  BY <1>4 DEF Follows
<1>13. \A p \in itr .. itr' - 1 : At(p) \notin {".", "end", RightBrace}
  BY <1>2
<1>14. \A i \in DOMAIN uses' : uses'[i].name # NoName /\ resolve(uses'[i].name, "Participant")
  BY <1>1, <1>2, <1>11
<1>15. /\ itr' <= c.end
       /\ c.kind = "com" => At(c.end) \in {".", "end", RightBrace}
       /\ itr <= Top.end => c.end < Top.end \/ (c.kind = "com" /\ c.end <= Top.end)
  BY <1>3, <1>4, <1>7
<1>16. /\ body' \in Declarations!Body
       /\ \A i \in DOMAIN body' : i \in DOMAIN body /\ body'[i] = body[i]
  BY <1>1, KeptItems
<1>. QED
  BY <1>1, <1>2, <1>4, <1>6, <1>8, <1>9, <1>11, <1>12, <1>13, <1>14, <1>15, <1>16, PushStep, SMTT(30)

LEMMA ClosingIs ==
  ASSUME TypeOK, tokens \in Seq(Token), stack # << >>, NEW open, NEW close, NEW p \in Nat,
         Closings(open, close, p) # {}
  PROVE  /\ Min(Closings(open, close, p)) \in p + 1 .. Len(tokens)
         /\ Min(Closings(open, close, p)) \in DOMAIN tokens
         /\ At(Min(Closings(open, close, p))) = close
         /\ p <= Top.end => Min(Closings(open, close, p)) < Top.end
<1>1. /\ Len(tokens) \in Nat /\ DOMAIN tokens = 1 .. Len(tokens)
      /\ Top.end \in Nat /\ Top.end \in 1 .. Len(tokens)
  BY CallsAre, TopIs
<1>. DEFINE last == IF p <= Top.end THEN Top.end - 1 ELSE Len(tokens)
<1>2. last \in Int /\ last <= Len(tokens) /\ (p <= Top.end => last = Top.end - 1)
  BY <1>1
<1>3. Closings(open, close, p) \subseteq {q \in p + 1 .. last : At(q) = close}
  BY DEF Closings
<1>. HIDE DEF last
<1>4. Closings(open, close, p) \subseteq Nat
  BY <1>2, <1>3
<1>5. Min(Closings(open, close, p)) \in Closings(open, close, p)
  BY <1>4, MinIs
<1>. DEFINE e == Min(Closings(open, close, p))
<1>6. e \in p + 1 .. last /\ At(e) = close
  BY <1>3, <1>5
<1>. HIDE DEF e
<1>7. /\ e \in p + 1 .. Len(tokens) /\ e \in DOMAIN tokens
      /\ p <= Top.end => e < Top.end
  BY <1>1, <1>2, <1>6
<1>. QED
  BY <1>6, <1>7 DEF e

(* The head of a foreach. *)
LEMMA HeadIs ==
  ASSUME TypeOK, tokens \in Seq(Token), ReadsForEach
  PROVE  /\ itr \in Nat /\ Brace \in Nat /\ itr + 6 <= Brace
         /\ At(itr) = "foreach" /\ At(itr + 2) \in Name /\ At(IndexAt) \in Name
         /\ Bound \in {":", "<", ">"}
         /\ \A p \in itr .. Brace : At(p) \notin {".", "end", RightBrace, "Participant"}
<1>1. /\ itr \in Nat /\ At(itr) = "foreach" /\ At(itr + 1) = "(" /\ Is(itr + 2, "Identifier")
      /\ Bound # ":" =>
           /\ <<Bound, At(itr + 4)>> \in {<<"<", "max">>, <<">", "min">>}
           /\ At(itr + 5) = "(" /\ At(itr + 7) = ")"
      /\ resolve(At(IndexAt), "Index")
      /\ At(Brace - 1) = ")" /\ At(Brace) = LeftBrace
  BY CallsAre DEF ReadsForEach, ReadsIteration
<1>2. At(itr + 2) \in Name /\ At(IndexAt) \in Name
  BY <1>1, AtText, ResolvedName
<1>3. \A n \in Name : n \notin {".", "end", RightBrace, "Participant"}
  BY NamesApart
<1>4. CASE Bound = ":"
  <2>1. IndexAt = itr + 4 /\ Brace = itr + 6 /\ Brace - 1 = itr + 5 /\ At(itr + 3) = ":"
    BY <1>1, <1>4 DEF IndexAt, Brace, Bound
  <2>2. /\ At(itr) = "foreach" /\ At(itr + 1) = "(" /\ At(itr + 2) \in Name /\ At(itr + 3) = ":"
        /\ At(itr + 4) \in Name /\ At(itr + 5) = ")" /\ At(itr + 6) = LeftBrace
    BY <1>1, <1>2, <2>1
  <2>3. \A p \in itr .. itr + 6 :
          p = itr \/ p = itr + 1 \/ p = itr + 2 \/ p = itr + 3 \/ p = itr + 4 \/ p = itr + 5 \/ p = itr + 6
    BY <1>1
  <2>4. \A p \in itr .. itr + 6 : At(p) \notin {".", "end", RightBrace, "Participant"}
    BY <1>3, <2>2, <2>3, Braces
  <2>. QED
    BY <1>1, <1>2, <1>4, <2>1, <2>4
<1>5. CASE Bound # ":"
  <2>1. IndexAt = itr + 6 /\ Brace = itr + 9 /\ Brace - 1 = itr + 8
    BY <1>1, <1>5 DEF IndexAt, Brace
  <2>2. Bound \in {"<", ">"} /\ At(itr + 3) \in {"<", ">"} /\ At(itr + 4) \in {"max", "min"}
    BY <1>1, <1>5 DEF Bound
  <2>3. /\ At(itr) = "foreach" /\ At(itr + 1) = "(" /\ At(itr + 2) \in Name
        /\ At(itr + 5) = "(" /\ At(itr + 6) \in Name
        /\ At(itr + 7) = ")" /\ At(itr + 8) = ")" /\ At(itr + 9) = LeftBrace
    BY <1>1, <1>2, <1>5, <2>1
  <2>4. \A p \in itr .. itr + 9 :
          \/ p = itr \/ p = itr + 1 \/ p = itr + 2 \/ p = itr + 3 \/ p = itr + 4 \/ p = itr + 5
          \/ p = itr + 6 \/ p = itr + 7 \/ p = itr + 8 \/ p = itr + 9
    BY <1>1
  <2>5. \A p \in itr .. itr + 9 : At(p) \notin {".", "end", RightBrace, "Participant"}
    BY <1>3, <2>2, <2>3, <2>4, Braces
  <2>. QED
    BY <1>1, <1>2, <2>1, <2>2, <2>5
<1>. QED
  BY <1>4, <1>5

LEMMA BeginForEachKeeps ==
  ASSUME TokensInv, BeginForEach
  PROVE  TokensInv'
<1>1. /\ TypeOK /\ tokens \in Seq(Token) /\ CallsInOrder /\ ScopesEnd
      /\ outcome = "running" /\ stack # << >> /\ Top.kind = "list" /\ itr # Top.end
      /\ ReadsForEach /\ Closings(LeftBrace, RightBrace, Brace) # {}
      /\ stack' = Append(stack, Frame("list", Min(Closings(LeftBrace, RightBrace, Brace)), "item", NoName))
      /\ UNCHANGED <<parserVars, tokens, declared>> /\ UNCHANGED uses
      /\ itr' = Brace + 1
      /\ body' = Append(body, [tag |-> "open", var |-> At(itr + 2), over |-> At(IndexAt), bound |-> Bound])
  BY DEF TokensInv, BeginForEach, ReadsForEach, ReadsIteration, InList, In
<1>2. /\ itr \in Nat /\ Brace \in Nat /\ itr + 6 <= Brace
      /\ At(itr) = "foreach" /\ At(itr + 2) \in Name /\ At(IndexAt) \in Name
      /\ Bound \in {":", "<", ">"}
      /\ \A p \in itr .. Brace : At(p) \notin {".", "end", RightBrace, "Participant"}
  BY <1>1, HeadIs
<1>3. /\ itr' \in Nat /\ itr < itr' /\ itr' - 1 = Brace
      /\ UNCHANGED tokens /\ UNCHANGED table
      /\ Len(stack) \in DOMAIN stack /\ Top = stack[Len(stack)] /\ Top.end \in Nat
  BY <1>1, <1>2, CallsAre, TopIs DEF parserVars
<1>. DEFINE e == Min(Closings(LeftBrace, RightBrace, Brace))
            c == Frame("list", e, "item", NoName)
<1>4. /\ e \in Brace + 1 .. Len(tokens) /\ e \in DOMAIN tokens /\ At(e) = RightBrace
      /\ Brace <= Top.end => e < Top.end
  BY <1>1, <1>2, ClosingIs
<1>. HIDE DEF e
<1>5. c \in Call /\ c.kind = "list" /\ c.end = e /\ c.expects = "item"
  BY <1>4, FrameIs
<1>6. stack' = Append(stack, c)
  BY <1>1 DEF e
<1>. HIDE DEF c
<1>7. Pushed(c)
  BY <1>1, <1>5, <1>6, PushedCall
<1>8. \A p \in itr .. itr' - 1 : At(p) \notin {".", "end", RightBrace, "Participant"}
  BY <1>2, <1>3
<1>9. itr <= Top.end => e < Top.end
  <2>1. At(Top.end) \in {"end", RightBrace}
    BY <1>1, <1>3 DEF ScopesEnd
  <2>2. Top.end \notin itr .. Brace
    BY <1>2, <2>1
  <2>3. itr <= Top.end => Brace <= Top.end
    BY <1>2, <1>3, <2>2
  <2>. QED
    BY <1>4, <2>3
<1>10. ~Doomed
  BY <1>1, NotDoomed
<1>11. TextDeclares => TextDeclares'
  <2>1. ASSUME NEW q \in itr - 1 .. itr' - 2, q > 0, tokens[q] = "Participant", tokens[q + 1] \in Name
        PROVE  FALSE
    <3>1. q \in itr - 1 .. Brace - 1 /\ q \in Nat
      <4>1. itr' - 2 = Brace - 1
        BY <1>1, <1>2
      <4>2. q \in itr - 1 .. Brace - 1
        BY <4>1
      <4>. QED
        BY <1>2, <2>1, <4>2
    <3>2. q + 1 <= Brace /\ Brace < e /\ e <= Len(tokens)
      BY <1>2, <1>4, <3>1
    <3>3. q \in DOMAIN tokens /\ q + 1 \in DOMAIN tokens
      <4>1. DOMAIN tokens = 1 .. Len(tokens) /\ Len(tokens) \in Nat /\ e \in Nat
        BY <1>1, <1>4, CallsAre
      <4>. QED
        BY <1>2, <2>1, <3>1, <3>2, <4>1
    <3>4. At(q) = "Participant" /\ At(q + 1) \in Name
      BY <2>1, <3>3 DEF At
    <3>5. q = itr - 1 \/ q \in itr .. Brace
      BY <1>2, <3>1
    <3>6. q + 1 = itr
      BY <1>2, <3>4, <3>5
    <3>. QED
      BY <1>2, <3>4, <3>6, NamesApart
  <2>. QED
    BY <1>1, <1>3, <2>1, SameTable, TextOn
<1>. DEFINE item == [tag |-> "open", var |-> At(itr + 2), over |-> At(IndexAt), bound |-> Bound]
<1>12. item \in Declarations!Open /\ item.tag = "open" /\ body' = Append(body, item)
  BY <1>1, <1>2 DEF Declarations!Open
<1>. HIDE DEF item
<1>13. /\ body' \in Declarations!Body
       /\ \A i \in DOMAIN body' : \/ i \in DOMAIN body /\ body'[i] = body[i]
                                  \/ body'[i].tag \in {"open", "close"}
  <2>1. body \in Declarations!Body
    BY <1>1 DEF TypeOK
  <2>. QED
    BY <1>12, <2>1, Appended DEF Declarations!Body
<1>14. Follows(c, At(itr' - 1))
  BY <1>5 DEF Follows
<1>15. /\ itr' <= c.end /\ At(c.end) \in {"end", RightBrace}
       /\ itr <= Top.end => c.end < Top.end
  BY <1>1, <1>2, <1>4, <1>5, <1>9
<1>16. /\ uses' \in Seq(Declarations!Use) /\ Len(uses') <= 3
       /\ \A i \in DOMAIN uses' : i \in DOMAIN uses /\ uses'[i].name = uses[i].name
  BY <1>1, KeptItems
<1>. QED
  BY <1>1, <1>3, <1>5, <1>7, <1>8, <1>10, <1>11, <1>13, <1>14, <1>15, <1>16, PushStep

(* The call for what is in brackets. *)
LEMMA IndexBegins ==
  ASSUME TokensInv, BeginIndexExpr
  PROVE  /\ uses # << >>
         /\ \E c \in Call :
              /\ c.kind = "expr" /\ c.expects = "operand" /\ c.name = table[Last(uses).name].index
              /\ itr' <= c.end /\ (itr <= Top.end => c.end < Top.end) /\ At(c.end) = "]"
              /\ Pushed(c) /\ stack'[Len(stack)].expects = Top.expects
<1>1. /\ TypeOK /\ tokens \in Seq(Token) /\ CallsInOrder /\ ScopesEnd /\ Resolved
      /\ outcome = "running" /\ stack # << >> /\ Top.kind = "com" /\ Top.expects \in {"->", ":", "<"}
      /\ At(itr) = "[" /\ Stops("]") # {} /\ At(Min(Stops("]"))) = "]"
      /\ Last(uses).name # NoName
      /\ stack' = Append(stack, Frame("expr", Min(Stops("]")), "operand", table[Last(uses).name].index))
      /\ UNCHANGED <<parserVars, tokens, declared>> /\ UNCHANGED body
      /\ itr' = itr + 1 /\ uses' = IndexedBy("plain")
  BY DEF TokensInv, BeginIndexExpr, ReadsIndexExpr, OpensBracket, In, Advance
<1>2. /\ itr \in DOMAIN tokens /\ At(itr) \notin {".", "end", RightBrace} /\ At(itr) \notin Name
      /\ itr \in Nat /\ itr' \in Nat /\ itr < itr' /\ itr .. itr' - 1 = {itr} /\ itr' - 1 = itr
      /\ UNCHANGED tokens /\ UNCHANGED table
      /\ Len(stack) \in DOMAIN stack /\ Top = stack[Len(stack)] /\ Top.end \in Nat
  BY <1>1, AtText, Braces, NamesApart, CallsAre, TopIs DEF parserVars
<1>3. table[Last(uses).name].index \in Name /\ uses # << >>
  <2>1. uses \in Seq(Declarations!Use) /\ Len(uses) > 0
    <3>1. Counted(Top.expects, Len(uses))
      BY <1>1, TopCounted DEF TokensInv
    <3>2. Len(uses) \in {1, 2, 3}
      BY <1>1, <3>1 DEF Counted
    <3>3. uses \in Seq(Declarations!Use)
      BY <1>1 DEF TypeOK
    <3>4. Len(uses) = 1 \/ Len(uses) = 2 \/ Len(uses) = 3
      BY <3>2
    <3>5. \A n : n = 1 \/ n = 2 \/ n = 3 => n > 0
      OBVIOUS
    <3>. QED
      BY <3>3, <3>4, <3>5, Zenon
  <2>2. Len(uses) \in DOMAIN uses /\ Last(uses) = uses[Len(uses)]
    BY <2>1 DEF Last
  <2>3. PICK tag \in {"Participant", "Channel"} : resolve(Last(uses).name, tag)
    BY <1>1, <2>2 DEF Resolved
  <2>4. /\ Last(uses).name \in DOMAIN table
        /\ table[Last(uses).name].tag \in {"Participant", "Channel"}
    BY <2>3 DEF resolve, Declarations!resolve
  <2>5. table[Last(uses).name] \in Declarations!Node
    BY <1>1, <2>4 DEF TypeOK
  <2>. QED
    BY <2>1, <2>4, <2>5 DEF Declarations!Node
<1>. DEFINE e == Min(Stops("]"))
            c == Frame("expr", e, "operand", table[Last(uses).name].index)
<1>4. /\ e \in itr .. Len(tokens) /\ e \in DOMAIN tokens /\ At(e) = "]"
      /\ itr <= Top.end => e <= Top.end
  BY <1>1, StopIs
<1>. HIDE DEF e
<1>5. c \in Call /\ c.kind = "expr" /\ c.end = e /\ c.expects = "operand"
      /\ c.name = table[Last(uses).name].index
  BY <1>3, <1>4, FrameIs
<1>6. stack' = Append(stack, c)
  BY <1>1 DEF e
<1>. HIDE DEF c
<1>7. Pushed(c) /\ stack'[Len(stack)].expects = Top.expects
  BY <1>1, <1>2, <1>5, <1>6, PushedCall
<1>8. itr' <= c.end /\ (itr <= Top.end => c.end < Top.end)
  <2>1. At(Top.end) \in {".", "end", RightBrace}
    BY <1>1, <1>2 DEF ScopesEnd
  <2>2. e # itr /\ e # Top.end
    BY <1>1, <1>4, <2>1, Braces
  <2>. QED
    BY <1>1, <1>2, <1>4, <1>5, <2>2
<1>9. At(c.end) = "]"
  BY <1>4, <1>5
<1>. QED
  BY <1>3, <1>5, <1>7, <1>8, <1>9

LEMMA BeginIndexExprKeeps ==
  ASSUME TokensInv, BeginIndexExpr
  PROVE  TokensInv'
<1>1. /\ TypeOK /\ tokens \in Seq(Token) /\ CallsInOrder /\ ScopesEnd /\ Resolved
      /\ outcome = "running" /\ stack # << >> /\ Top.kind = "com" /\ Top.expects \in {"->", ":", "<"}
      /\ At(itr) = "[" /\ Stops("]") # {} /\ At(Min(Stops("]"))) = "]"
      /\ Last(uses).name # NoName
      /\ stack' = Append(stack, Frame("expr", Min(Stops("]")), "operand", table[Last(uses).name].index))
      /\ UNCHANGED <<parserVars, tokens, declared>> /\ UNCHANGED body
      /\ itr' = itr + 1 /\ uses' = IndexedBy("plain")
  BY DEF TokensInv, BeginIndexExpr, ReadsIndexExpr, OpensBracket, In, Advance
<1>2. /\ itr \in DOMAIN tokens /\ At(itr) \notin {".", "end", RightBrace} /\ At(itr) \notin Name
      /\ itr \in Nat /\ itr' \in Nat /\ itr < itr' /\ itr .. itr' - 1 = {itr} /\ itr' - 1 = itr
      /\ UNCHANGED tokens /\ UNCHANGED table
      /\ Len(stack) \in DOMAIN stack /\ Top = stack[Len(stack)] /\ Top.end \in Nat
  BY <1>1, AtText, Braces, NamesApart, CallsAre, TopIs DEF parserVars
<1>7. PICK c \in Call :
        /\ c.kind = "expr" /\ c.expects = "operand" /\ c.name = table[Last(uses).name].index
        /\ itr' <= c.end /\ (itr <= Top.end => c.end < Top.end) /\ At(c.end) = "]"
        /\ Pushed(c) /\ stack'[Len(stack)].expects = Top.expects
  BY IndexBegins
<1>9. ~Doomed
  BY <1>1, NotDoomed
<1>10. TextDeclares => TextDeclares'
  BY <1>1, <1>2, SameTable, TextOneOn
<1>11. /\ uses' \in Seq(Declarations!Use) /\ Len(uses') <= 3 /\ Len(uses') = Len(uses)
       /\ \A i \in DOMAIN uses' : i \in DOMAIN uses /\ uses'[i].name = uses[i].name
  BY <1>1, IndexedUses
<1>12. Follows(c, At(itr' - 1))
  BY <1>1, <1>2, <1>7 DEF Follows
<1>13. \A p \in itr .. itr' - 1 : At(p) \notin {".", "end", RightBrace}
  BY <1>2
<1>14. /\ body' \in Declarations!Body
       /\ \A i \in DOMAIN body' : i \in DOMAIN body /\ body'[i] = body[i]
  BY <1>1, KeptItems
<1>. QED
  BY <1>1, <1>2, <1>7, <1>9, <1>10, <1>11, <1>12, <1>13, <1>14, PushStep

(* The call for what is in parentheses. *)
LEMMA ParenBegins ==
  ASSUME TokensInv, BeginParen
  PROVE  /\ Doomed => Doomed'
         /\ \E c \in Call :
              /\ c.kind = "expr" /\ c.expects = "operand" /\ c.name = Top.name
              /\ itr' <= c.end /\ c.end < Top.end /\ At(c.end) = ")" /\ Balances(itr, c.end)
              /\ Pushed(c) /\ stack'[Len(stack)].expects = "operator"
<1>1. /\ TypeOK /\ tokens \in Seq(Token) /\ CallsInOrder /\ ScopesEnd
      /\ outcome = "running" /\ stack # << >> /\ Top.kind = "expr" /\ itr # Top.end
      /\ At(itr) = "(" /\ Closings("(", ")", itr) # {}
      /\ stack' = Append(Expecting("operator"),
                         Frame("expr", Min(Closings("(", ")", itr)), "operand", Top.name))
      /\ UNCHANGED <<parserVars, tokens, declared>> /\ UNCHANGED body /\ UNCHANGED uses
      /\ itr' = itr + 1
  BY DEF TokensInv, BeginParen, ReadsParen, Operand, In, Advance
<1>2. /\ itr \in DOMAIN tokens /\ At(itr) \notin {".", "end", RightBrace} /\ At(itr) \notin Name
      /\ itr \in Nat /\ itr > 0 /\ itr' \in Nat /\ itr < itr' /\ itr .. itr' - 1 = {itr} /\ itr' - 1 = itr
      /\ UNCHANGED tokens /\ UNCHANGED table
      /\ DOMAIN stack = 1 .. Len(stack) /\ Len(stack) \in Nat
      /\ Len(stack) \in DOMAIN stack /\ Top = stack[Len(stack)] /\ Top \in Call
      /\ Top.end \in Nat /\ Top.end \in DOMAIN tokens /\ itr <= Top.end
      /\ \A f \in DOMAIN stack : stack[f].end \in Nat
  BY <1>1, AtText, Braces, NamesApart, CallsAre, TopIs, InExpr DEF parserVars
<1>. DEFINE e == Min(Closings("(", ")", itr))
            c == Frame("expr", e, "operand", Top.name)
<1>3. e \in itr + 1 .. Top.end - 1 /\ Balances(itr, e)
  BY <1>1, <1>2, FirstBalance
<1>4. e \in DOMAIN tokens /\ e < Top.end /\ itr' <= e /\ At(e) = ")"
  <2>1. e \in 1 .. Len(tokens)
    <3>1. Len(tokens) \in Nat /\ DOMAIN tokens = 1 .. Len(tokens)
      BY <1>1, CallsAre
    <3>. QED
      BY <1>2, <1>3, <3>1
  <2>2. DOMAIN tokens = 1 .. Len(tokens)
    BY <1>1, CallsAre
  <2>. QED
    BY <1>1, <1>2, <1>3, <2>1, <2>2 DEF Balances
<1>. HIDE DEF e
<1>5. c \in Call /\ c.kind = "expr" /\ c.end = e /\ c.expects = "operand" /\ c.name = Top.name
  <2>1. Top.name \in Name \cup {NoName}
    BY <1>2 DEF Call
  <2>. QED
    BY <1>4, <2>1, FrameIs
<1>6. stack' = Append(Expecting("operator"), c)
  BY <1>1 DEF e
<1>. HIDE DEF c
<1>7. Pushed(c) /\ stack'[Len(stack)].expects = "operator"
  BY <1>1, <1>5, <1>6, PushedOn
<1>8. ASSUME Doomed PROVE Doomed'
  <2>1. PICK d \in DOMAIN stack :
          /\ stack[d].kind = "expr"
          /\ \E q \in itr .. stack[d].end - 1 : Depth(itr, q) + (Len(stack) - d) < 0
    BY <1>8 DEF Doomed
  <2>2. PICK q \in itr .. stack[d].end - 1 : Depth(itr, q) + (Len(stack) - d) < 0
    BY <2>1
  <2>3. d \in Nat /\ d <= Len(stack) /\ stack[d].end \in Nat /\ q \in Nat /\ itr <= q
    BY <1>2, <2>2
  <2>4. Depth(itr, itr) = 1
    BY <1>1, <1>2, DepthSplit DEF Weight
  <2>5. itr < q /\ itr + 1 <= q
    <3>1. q # itr
      BY <1>2, <2>2, <2>3, <2>4
    <3>. QED
      BY <1>2, <2>3, <3>1
  <2>6. Depth(itr, q) = 1 + Depth(itr', q) /\ Depth(itr', q) \in Int
    <3>1. itr <= itr /\ Depth(itr, q) = Depth(itr, itr) + Depth(itr + 1, q)
      BY <1>2, <2>3, <2>5, DepthSplit
    <3>2. Depth(itr + 1, q) \in Int
      <4>1. itr + 1 \in Nat
        BY <1>2
      <4>. QED
        BY <2>3, <2>5, <4>1, DepthSplit
    <3>. QED
      BY <1>1, <2>4, <3>1, <3>2
  <2>7. Len(stack') = Len(stack) + 1 /\ d \in DOMAIN stack'
        /\ stack'[d].kind = stack[d].kind /\ stack'[d].end = stack[d].end
    BY <1>2, <1>7, <2>3 DEF Pushed
  <2>8. Depth(itr', q) + (Len(stack') - d) < 0 /\ q \in itr' .. stack[d].end - 1
    BY <1>1, <1>2, <2>2, <2>3, <2>5, <2>6, <2>7
  <2>9. Depth(itr, q)' = Depth(itr', q)
    BY <1>2, SameText
  <2>. QED
    BY <2>1, <2>7, <2>8, <2>9 DEF Doomed
<1>9. Balances(itr, c.end) /\ itr' <= c.end /\ c.end < Top.end /\ At(c.end) = ")"
  BY <1>3, <1>4, <1>5
<1>. QED
  BY <1>5, <1>7, <1>8, <1>9

LEMMA BeginParenKeeps ==
  ASSUME TokensInv, BeginParen
  PROVE  TokensInv'
<1>1. /\ TypeOK /\ tokens \in Seq(Token) /\ CallsInOrder /\ ScopesEnd
      /\ outcome = "running" /\ stack # << >> /\ Top.kind = "expr" /\ itr # Top.end
      /\ At(itr) = "(" /\ Closings("(", ")", itr) # {}
      /\ stack' = Append(Expecting("operator"),
                         Frame("expr", Min(Closings("(", ")", itr)), "operand", Top.name))
      /\ UNCHANGED <<parserVars, tokens, declared>> /\ UNCHANGED body /\ UNCHANGED uses
      /\ itr' = itr + 1
  BY DEF TokensInv, BeginParen, ReadsParen, Operand, In, Advance
<1>2. /\ itr \in DOMAIN tokens /\ At(itr) \notin {".", "end", RightBrace} /\ At(itr) \notin Name
      /\ itr \in Nat /\ itr > 0 /\ itr' \in Nat /\ itr < itr' /\ itr .. itr' - 1 = {itr} /\ itr' - 1 = itr
      /\ UNCHANGED tokens /\ UNCHANGED table
      /\ DOMAIN stack = 1 .. Len(stack) /\ Len(stack) \in Nat
      /\ Len(stack) \in DOMAIN stack /\ Top = stack[Len(stack)] /\ Top \in Call
      /\ Top.end \in Nat /\ Top.end \in DOMAIN tokens /\ itr <= Top.end
      /\ \A f \in DOMAIN stack : stack[f].end \in Nat
  BY <1>1, AtText, Braces, NamesApart, CallsAre, TopIs, InExpr DEF parserVars
<1>7. PICK c \in Call :
        /\ c.kind = "expr" /\ c.expects = "operand" /\ c.name = Top.name
        /\ itr' <= c.end /\ c.end < Top.end /\ At(c.end) = ")" /\ Balances(itr, c.end)
        /\ Pushed(c) /\ stack'[Len(stack)].expects = "operator"
  BY ParenBegins
<1>8. Doomed => Doomed'
  BY ParenBegins
<1>9. TextDeclares => TextDeclares'
  BY <1>1, <1>2, SameTable, TextOneOn
<1>10. /\ uses' \in Seq(Declarations!Use) /\ Len(uses') <= 3 /\ Len(uses') = Len(uses)
       /\ \A i \in DOMAIN uses' : i \in DOMAIN uses /\ uses'[i].name = uses[i].name
  BY <1>1, KeptItems
<1>11. Follows(c, At(itr' - 1))
  BY <1>1, <1>2, <1>7 DEF Follows
<1>12. \A p \in itr .. itr' - 1 : At(p) \notin {".", "end", RightBrace}
  BY <1>2
<1>13. /\ body' \in Declarations!Body
       /\ \A i \in DOMAIN body' : i \in DOMAIN body /\ body'[i] = body[i]
  BY <1>1, KeptItems
<1>14. /\ At(c.end) = ")" /\ itr' <= c.end /\ c.end < Top.end
       /\ \E p \in 1 .. itr' - 1 : Balances(p, c.end)
  <2>1. itr \in 1 .. itr' - 1
    BY <1>2
  <2>. QED
    BY <1>7, <2>1
<1>. QED
  BY <1>1, <1>2, <1>7, <1>8, <1>9, <1>10, <1>11, <1>12, <1>13, <1>14, PushStep, Zenon

----------------------------------------------------------------------------
(***************************************************************************)
(* The steps in which a call returns.                                      *)
(***************************************************************************)
LEMMA PopStep ==
  ASSUME TokensInv, outcome = "running", stack # << >>, Len(stack) > 1,
         UNCHANGED <<parserVars, tokens, declared>>, Popped,
         itr' \in Nat, itr < itr', itr' <= Len(tokens) + 1,
         Top.kind = "expr" => itr' <= Top.end + 1 /\ Len(uses') = Len(uses),
         Top.kind = "list" => itr <= Top.end,
         Nesting => \A f \in 1 .. Len(stack) - 1 :
                      /\ stack[f].kind = "list" => itr' <= stack[f].end \/ Doomed'
                      /\ stack[f].kind = "com" => itr' <= stack[f].end \/ Received(stack[f].end),
         Doomed' \/ TextDeclares',
         uses' \in Seq(Declarations!Use), Len(uses') <= 3, body' \in Declarations!Body,
         \A i \in DOMAIN uses' : i \in DOMAIN uses /\ uses'[i].name = uses[i].name,
         \A i \in DOMAIN body' :
           \/ i \in DOMAIN body /\ body'[i] = body[i]
           \/ body'[i].tag = "com" /\ (body'[i].to.name = NoName => UsesNull(uses))
           \/ body'[i].tag \in {"open", "close"}
  PROVE  TokensInv'
<1>1. /\ TypeOK /\ tokens \in Seq(Token) /\ CallsInOrder /\ UsesCounted /\ Scopes
      /\ UNCHANGED tokens
  BY DEF TokensInv, Scopes, parserVars
<1>2. /\ DOMAIN stack = 1 .. Len(stack) /\ Len(stack) \in Nat /\ Len(stack) \in DOMAIN stack
      /\ Top = stack[Len(stack)] /\ Top \in Call
  BY <1>1, CallsAre, TopIs
<1>3. CallsInOrder'
  BY <1>1, OrderPopped
<1>4. UsesCounted'
  BY <1>1, CountedPopped
<1>5. ScopesEnd' /\ Inside'
  BY <1>1, ScopesPopped
<1>. DEFINE below == Len(stack) - 1
<1>6. /\ below \in DOMAIN stack /\ below < Len(stack) /\ below \in 1 .. Len(stack) - 1
      /\ below = Len(stack) - 1 /\ below > 0
  BY <1>2
<1>7. /\ stack' \in Seq(Call) /\ Len(stack') = below /\ stack'[below] = stack[below]
  BY <1>6 DEF Popped
<1>. HIDE DEF below
<1>8. /\ stack[below].kind = "com" => stack[below].expects \in {"->", ":", "<"}
      /\ stack[below].kind = "expr" => stack[below].expects = "operator"
  BY <1>1, <1>6 DEF CallsInOrder
<1>9. Follows(stack[below], At(itr' - 1))
  BY <1>8 DEF Follows
<1>10. ReadLast'
  BY <1>1, <1>6, <1>7, <1>9, LastAfter
<1>. QED
  BY <1>1, <1>3, <1>4, <1>5, <1>7, <1>10, RunsOn

LEMMA EndForEachKeeps ==
  ASSUME TokensInv, EndForEach
  PROVE  TokensInv'
<1>1. /\ TypeOK /\ tokens \in Seq(Token) /\ CallsInOrder /\ ScopesEnd
      /\ Doomed \/ TextDeclares
      /\ outcome = "running" /\ stack # << >> /\ Top.kind = "list" /\ itr = Top.end /\ Len(stack) > 1
      /\ stack' = Front(stack) /\ itr' = itr + 1 /\ body' = Append(body, [tag |-> "close"])
      /\ UNCHANGED <<parserVars, tokens, declared>> /\ UNCHANGED uses
  BY DEF TokensInv, EndForEach, In, Advance
<1>2. /\ DOMAIN stack = 1 .. Len(stack) /\ Len(stack) \in Nat /\ Len(stack) \in DOMAIN stack
      /\ Top = stack[Len(stack)] /\ \A f \in DOMAIN stack : stack[f].end \in Nat
      /\ itr \in Nat /\ itr \in 1 .. Len(tokens) /\ Len(tokens) \in Nat /\ DOMAIN tokens = 1 .. Len(tokens)
      /\ UNCHANGED tokens /\ UNCHANGED table
  BY <1>1, CallsAre, TopIs DEF parserVars
<1>3. itr' \in Nat /\ itr < itr' /\ itr' <= Len(tokens) + 1 /\ itr <= Top.end
  BY <1>1, <1>2
<1>4. Popped
  BY <1>1, PoppedCall
<1>5. ~Doomed
  BY <1>1, NotDoomed
<1>6. ASSUME Nesting, NEW f \in 1 .. Len(stack) - 1
      PROVE  stack[f].kind = "list" /\ itr' <= stack[f].end
  <2>1. f \in DOMAIN stack /\ f < Len(stack)
    BY <1>2
  <2>2. stack[f].kind = "list" /\ Top.end < stack[f].end /\ stack[f].end \in Nat
    BY <1>1, <1>2, <1>6, <2>1 DEF CallsInOrder, Nesting
  <2>. QED
    BY <1>1, <1>2, <2>2
<1>7. TextDeclares'
  <2>1. At(itr) \in {"end", RightBrace}
    BY <1>1, <1>2 DEF ScopesEnd
  <2>2. At(itr) \notin Name /\ itr \in DOMAIN tokens
    BY <1>2, <2>1, NamesApart
  <2>. QED
    BY <1>1, <1>2, <1>5, <2>2, SameTable, TextOneOn
<1>. DEFINE item == [tag |-> "close"]
<1>8. item \in Declarations!Close /\ item.tag = "close" /\ body' = Append(body, item)
  BY <1>1 DEF Declarations!Close
<1>. HIDE DEF item
<1>9. /\ body' \in Declarations!Body
      /\ \A i \in DOMAIN body' : \/ i \in DOMAIN body /\ body'[i] = body[i]
                                 \/ body'[i].tag \in {"open", "close"}
  <2>1. body \in Declarations!Body
    BY <1>1 DEF TypeOK
  <2>. QED
    BY <1>8, <2>1, Appended DEF Declarations!Body
<1>10. /\ uses' \in Seq(Declarations!Use) /\ Len(uses') <= 3
       /\ \A i \in DOMAIN uses' : i \in DOMAIN uses /\ uses'[i].name = uses[i].name
  BY <1>1, KeptItems
<1>. QED
  BY <1>1, <1>3, <1>4, <1>6, <1>7, <1>9, <1>10, PopStep

(* Below a communication there is a list. *)
LEMMA ListBelow ==
  ASSUME TypeOK, tokens \in Seq(Token), CallsInOrder, stack # << >>, Top.kind \in {"com", "expr"}
  PROVE  Len(stack) > 1
<1>1. Len(stack) \in DOMAIN stack /\ Top = stack[Len(stack)] /\ Len(stack) > 0 /\ Len(stack) \in Nat
  BY CallsAre, TopIs
<1>2. Len(stack) # 1
  BY <1>1 DEF CallsInOrder
<1>3. \A n \in Nat : n > 0 /\ n # 1 => n > 1
  OBVIOUS
<1>. QED
  BY <1>1, <1>2, <1>3, Zenon

LEMMA EndCommunicationKeeps ==
  ASSUME TokensInv, EndCommunication
  PROVE  TokensInv'
<1>1. /\ TypeOK /\ tokens \in Seq(Token) /\ CallsInOrder /\ ScopesEnd /\ UsesCounted /\ ReadLast
      /\ Doomed \/ TextDeclares
      /\ outcome = "running" /\ stack # << >> /\ Top.kind = "com" /\ Top.expects = ">" /\ At(itr) = ">"
      /\ stack' = Front(stack) /\ itr' = itr + 1 /\ body' = Append(body, Communication)
      /\ UNCHANGED <<parserVars, tokens, declared>> /\ uses' = << >>
  BY DEF TokensInv, EndCommunication, ReadsComEnd, In, Advance
<1>2. /\ DOMAIN stack = 1 .. Len(stack) /\ Len(stack) \in Nat /\ Len(stack) \in DOMAIN stack
      /\ Top = stack[Len(stack)] /\ \A f \in DOMAIN stack : stack[f].end \in Nat
      /\ itr \in Nat /\ itr \in DOMAIN tokens /\ Len(tokens) \in Nat /\ DOMAIN tokens = 1 .. Len(tokens)
      /\ UNCHANGED tokens /\ UNCHANGED table
      /\ At(itr) \notin Name /\ At(itr) \notin {"end", RightBrace}
  BY <1>1, CallsAre, TopIs, AtText, NamesApart, Braces DEF parserVars
<1>3. itr' \in Nat /\ itr < itr' /\ itr' <= Len(tokens) + 1 /\ Len(stack) > 1
  BY <1>1, <1>2, ListBelow
<1>4. Popped
  BY <1>1, PoppedCall
<1>5. ~Doomed
  BY <1>1, NotDoomed
<1>6. ASSUME Nesting, NEW f \in 1 .. Len(stack) - 1
      PROVE  stack[f].kind = "list" /\ itr' <= stack[f].end
  <2>1. f \in DOMAIN stack /\ f < Len(stack)
    BY <1>2
  <2>2. stack[f].kind = "list" /\ itr <= stack[f].end /\ stack[f].end \in Nat
    BY <1>1, <1>2, <1>5, <1>6, <2>1 DEF CallsInOrder, Nesting
  <2>3. itr # stack[f].end
    BY <1>1, <1>2, <2>1, <2>2 DEF ScopesEnd
  <2>. QED
    BY <1>1, <1>2, <2>2, <2>3
<1>7. TextDeclares'
  BY <1>1, <1>2, <1>5, SameTable, TextOneOn
<1>8. /\ Len(uses) = 3 /\ uses \in Seq(Declarations!Use) /\ At(itr - 1) \in Name
      /\ body \in Declarations!Body
  BY <1>1, TopCounted DEF Counted, TypeOK, ReadLast, Follows
<1>9. 1 \in DOMAIN uses /\ 2 \in DOMAIN uses /\ 3 \in DOMAIN uses
  BY <1>8
<1>10. /\ Communication \in Declarations!Com
       /\ Communication.tag = "com" /\ Communication.to = uses[2]
  BY <1>8, <1>9 DEF Communication, Declarations!Com
<1>11. Communication.to.name = NoName => UsesNull(uses)
  BY <1>9, <1>10 DEF UsesNull
<1>12. /\ body' \in Declarations!Body
       /\ \A i \in DOMAIN body' : (i \in DOMAIN body /\ body'[i] = body[i]) \/ body'[i] = Communication
  BY <1>1, <1>8, <1>10, Appended DEF Declarations!Body
<1>13. uses' \in Seq(Declarations!Use) /\ Len(uses') <= 3 /\ DOMAIN uses' = {}
  BY <1>1
<1>14. \A i \in DOMAIN body' :
         \/ i \in DOMAIN body /\ body'[i] = body[i]
         \/ body'[i].tag = "com" /\ (body'[i].to.name = NoName => UsesNull(uses))
  BY <1>10, <1>11, <1>12
<1>. QED
  BY <1>1, <1>3, <1>4, <1>6, <1>7, <1>12, <1>13, <1>14, PopStep

LEMMA EndIndexExprKeeps ==
  ASSUME TokensInv, EndIndexExpr
  PROVE  TokensInv'
<1>1. /\ TypeOK /\ tokens \in Seq(Token) /\ CallsInOrder /\ ScopesEnd
      /\ Doomed \/ TextDeclares
      /\ outcome = "running" /\ stack # << >> /\ Top.kind = "expr" /\ itr = Top.end
      /\ stack[Len(stack) - 1].kind # "expr"
      /\ stack' = Front(stack) /\ itr' = itr + 1
      /\ UNCHANGED <<parserVars, tokens, declared>> /\ UNCHANGED uses /\ UNCHANGED body
  BY DEF TokensInv, EndIndexExpr, ReadsIndexEnd, Complete, Operator, Nested, In, Advance
<1>2. /\ DOMAIN stack = 1 .. Len(stack) /\ Len(stack) \in Nat /\ Len(stack) \in DOMAIN stack
      /\ Top = stack[Len(stack)] /\ \A f \in DOMAIN stack : stack[f].end \in Nat
      /\ itr \in Nat /\ itr \in DOMAIN tokens /\ Len(tokens) \in Nat /\ DOMAIN tokens = 1 .. Len(tokens)
      /\ UNCHANGED tokens /\ UNCHANGED table /\ Len(stack) > 1
      /\ Len(stack) - 1 \in DOMAIN stack /\ Len(stack) - 1 < Len(stack)
  <2>1. Len(stack) > 1
    BY <1>1, ListBelow
  <2>. QED
    BY <1>1, <2>1, CallsAre, TopIs, InExpr DEF parserVars
<1>3. itr' \in Nat /\ itr < itr' /\ itr' <= Len(tokens) + 1 /\ itr' <= Top.end + 1
  BY <1>1, <1>2
<1>4. Popped
  BY <1>1, PoppedCall
<1>5. At(itr) = "]" /\ At(itr) \notin Name
  <2>1. ~InParens(Len(stack))
    BY <1>1 DEF InParens
  <2>2. At(itr) = "]"
    BY <1>1, <1>2, <2>1 DEF ScopesEnd
  <2>. QED
    BY <2>2, NamesApart
<1>6. ASSUME NEW f \in 1 .. Len(stack) - 1 PROVE stack[f].kind # "expr"
  <2>1. f \in DOMAIN stack /\ (f = Len(stack) - 1 \/ f < Len(stack) - 1)
    <3>1. \A n \in Nat : \A i \in 1 .. n - 1 : i \in 1 .. n /\ (i = n - 1 \/ i < n - 1)
      OBVIOUS
    <3>. QED
      BY <1>2, <3>1, Zenon
  <2>2. f < Len(stack) - 1 => stack[Len(stack) - 1].kind = "expr" \/ stack[f].kind # "expr"
    BY <1>2, <2>1 DEF CallsInOrder, TokensInv
  <2>. QED
    BY <1>1, <2>1, <2>2
<1>7. ~Doomed
  <2>1. ASSUME NEW d \in DOMAIN stack, stack[d].kind = "expr", NEW q \in itr .. stack[d].end - 1
        PROVE  FALSE
    <3>1. d = Len(stack) \/ d \in 1 .. Len(stack) - 1
      BY <1>2
    <3>2. stack[d].end = itr
      BY <1>1, <1>2, <1>6, <2>1, <3>1
    <3>. QED
      BY <1>2, <2>1, <3>2
  <2>. QED
    BY <2>1 DEF Doomed
<1>8. ASSUME Nesting, NEW f \in 1 .. Len(stack) - 1
      PROVE  /\ stack[f].kind = "list" => itr' <= stack[f].end
             /\ stack[f].kind = "com" => itr' <= stack[f].end \/ Received(stack[f].end)
  <2>1. f \in DOMAIN stack /\ stack[f].end \in Nat
    BY <1>2
  <2>2. stack[f].kind \in {"list", "com"} => itr # stack[f].end
    BY <1>1, <1>5, <2>1, Braces DEF ScopesEnd
  <2>3. /\ stack[f].kind = "list" => itr <= stack[f].end
        /\ stack[f].kind = "com" => itr <= stack[f].end \/ Received(stack[f].end)
    BY <1>7, <1>8, <2>1 DEF Nesting
  <2>. QED
    BY <1>1, <1>2, <2>1, <2>2, <2>3
<1>9. TextDeclares'
  BY <1>1, <1>2, <1>5, <1>7, SameTable, TextOneOn
<1>10. /\ uses' \in Seq(Declarations!Use) /\ Len(uses') <= 3 /\ Len(uses') = Len(uses)
       /\ \A i \in DOMAIN uses' : i \in DOMAIN uses /\ uses'[i].name = uses[i].name
       /\ body' \in Declarations!Body
       /\ \A i \in DOMAIN body' : i \in DOMAIN body /\ body'[i] = body[i]
  BY <1>1, KeptItems
<1>. QED
  BY <1>1, <1>2, <1>3, <1>4, <1>8, <1>9, <1>10, PopStep

(***************************************************************************)
(* The token that is passed behind an expression in parentheses.  If it is *)
(* not their own ")", the caller's expression has a ")" too many to come.  *)
(***************************************************************************)
LEMMA ParenDoomed ==
  ASSUME Scopes, stack # << >>, Top.kind = "expr", Nested, Len(stack) > 1, Popped, UNCHANGED tokens,
         itr' = itr + 1, itr # Top.end
  PROVE  Doomed'
<1>. USE DEF Scopes
<1>. DEFINE d == Len(stack) - 1
<1>1. /\ itr \in Nat /\ itr < Top.end /\ Top = stack[Len(stack)] /\ Len(stack) \in DOMAIN stack
      /\ Len(stack) \in Nat /\ DOMAIN stack = 1 .. Len(stack)
      /\ d \in DOMAIN stack /\ d \in 1 .. Len(stack) - 1 /\ d < Len(stack) /\ stack[d].kind = "expr"
      /\ \A f \in DOMAIN stack : stack[f].end \in Nat
  BY CallsAre, TopIs, InExpr DEF Nested
<1>2. /\ Len(stack') = d /\ d \in DOMAIN stack' /\ stack'[d] = stack[d] /\ d \in Nat
  BY <1>1 DEF Popped
<1>3. PICK p \in 1 .. itr - 1 : Balances(p, Top.end)
  <2>1. InParens(Len(stack))
    BY <1>1 DEF InParens
  <2>. QED
    BY <1>1, <2>1 DEF ScopesEnd
<1>4. Top.end < stack[d].end
  BY <1>1 DEF ScopesEnd
<1>. HIDE DEF d
<1>5. p \in Nat /\ p <= itr /\ itr < Top.end /\ Top.end \in Nat /\ itr \in p .. Top.end - 1
  BY <1>1, <1>3
<1>6. /\ Depth(p, Top.end) = Depth(p, itr) + Depth(itr + 1, Top.end)
      /\ Depth(p, itr) \in Int
  <2>1. itr \in Nat
    BY <1>1
  <2>. QED
    BY <1>5, <2>1, DepthSplit, Zenon
<1>7. Depth(itr + 1, Top.end) \in Int
  <2>1. itr + 1 \in Nat /\ itr + 1 <= Top.end
    BY <1>1, <1>5
  <2>. QED
    BY <1>5, <2>1, DepthSplit
<1>8. Depth(p, itr) > 0 /\ Depth(p, Top.end) = 0
  BY <1>3, <1>5 DEF Balances
<1>9. Depth(itr', Top.end) < 0
  BY <1>6, <1>7, <1>8
<1>. DEFINE q == Top.end
<1>10. q \in itr' .. stack[d].end - 1 /\ Depth(itr', q) + (d - d) < 0
  <2>1. stack[d].end \in Nat
    BY <1>1
  <2>2. Depth(itr', Top.end) \in Int
    BY <1>7
  <2>. QED
    BY <1>1, <1>2, <1>4, <1>5, <1>9, <2>1, <2>2
<1>11. PICK r \in itr' .. stack[d].end - 1 : Depth(itr', r) + (d - d) < 0
  BY <1>10
<1>12. PICK n \in DOMAIN stack' : n = Len(stack') /\ stack'[n].kind = "expr" /\ stack'[n].end = stack[d].end
                                /\ n = d
  BY <1>1, <1>2
<1>13. Depth(itr, r)' = Depth(itr', r)
  BY SameText
<1>. QED
  BY <1>2, <1>11, <1>12, <1>13 DEF Doomed

(* If it is, what doomed the callers does so still. *)
LEMMA ParenStaysDoomed ==
  ASSUME Scopes, stack # << >>, Top.kind = "expr", Popped, UNCHANGED tokens,
         itr' = itr + 1, itr = Top.end, At(itr) = ")", Doomed
  PROVE  Doomed'
<1>. USE DEF Scopes
<1>1. /\ itr \in Nat /\ Top = stack[Len(stack)] /\ Len(stack) \in DOMAIN stack
      /\ Len(stack) \in Nat /\ DOMAIN stack = 1 .. Len(stack)
      /\ \A f \in DOMAIN stack : stack[f].end \in Nat
  BY CallsAre, TopIs
<1>2. PICK d \in DOMAIN stack :
        /\ stack[d].kind = "expr"
        /\ \E q \in itr .. stack[d].end - 1 : Depth(itr, q) + (Len(stack) - d) < 0
  BY DEF Doomed
<1>3. PICK q \in itr .. stack[d].end - 1 : Depth(itr, q) + (Len(stack) - d) < 0
  BY <1>2
<1>4. d # Len(stack)
  BY <1>1, <1>3
<1>5. d \in Nat /\ d \in 1 .. Len(stack) - 1 /\ d < Len(stack) /\ q \in Nat /\ itr <= q
  BY <1>1, <1>3, <1>4
<1>6. Depth(itr, itr) = 0 - 1
  BY <1>1, DepthSplit DEF Weight
<1>7. itr < q
  <2>1. q # itr
    BY <1>1, <1>3, <1>5, <1>6
  <2>. QED
    BY <1>1, <1>5, <2>1
<1>8. Depth(itr, q) = Depth(itr, itr) + Depth(itr + 1, q)
  <2>1. itr \in Nat /\ q \in Nat /\ itr <= itr /\ itr < q
    BY <1>1, <1>5, <1>7
  <2>. QED
    BY <2>1, DepthSplit, Zenon
<1>9. itr + 1 \in Nat /\ itr + 1 <= q
  BY <1>1, <1>5, <1>7
<1>10. Depth(itr + 1, q) \in Int
  BY <1>5, <1>9, DepthSplit
<1>11. Len(stack') = Len(stack) - 1 /\ d \in DOMAIN stack' /\ stack'[d] = stack[d]
  BY <1>5 DEF Popped
<1>12. Depth(itr', q) + (Len(stack') - d) < 0
  <2>1. Depth(itr + 1, q) + ((Len(stack) - 1) - d) < 0
    BY <1>1, <1>3, <1>5, <1>6, <1>8, <1>10
  <2>. QED
    BY <1>11, <2>1
<1>13. q \in itr' .. stack[d].end - 1
  BY <1>1, <1>3, <1>9
<1>14. Depth(itr, q)' = Depth(itr', q)
  BY SameText
<1>. QED
  BY <1>2, <1>11, <1>12, <1>13, <1>14 DEF Doomed

LEMMA EndParenKeeps ==
  ASSUME TokensInv, EndParen
  PROVE  TokensInv'
<1>1. /\ TypeOK /\ tokens \in Seq(Token) /\ CallsInOrder /\ ScopesEnd /\ Scopes
      /\ Doomed \/ TextDeclares
      /\ outcome = "running" /\ stack # << >> /\ Top.kind = "expr" /\ Nested
      /\ itr = Top.end \/ ~Is(itr, "Symbol")
      /\ stack' = Front(stack) /\ itr' = itr + 1
      /\ UNCHANGED <<parserVars, tokens, declared>> /\ UNCHANGED uses /\ UNCHANGED body
  BY DEF TokensInv, Scopes, EndParen, Complete, Operator, In, Advance
<1>2. /\ DOMAIN stack = 1 .. Len(stack) /\ Len(stack) \in Nat /\ Len(stack) \in DOMAIN stack
      /\ Top = stack[Len(stack)] /\ \A f \in DOMAIN stack : stack[f].end \in Nat
      /\ itr \in Nat /\ itr \in DOMAIN tokens /\ Len(tokens) \in Nat /\ DOMAIN tokens = 1 .. Len(tokens)
      /\ UNCHANGED tokens /\ UNCHANGED table /\ Len(stack) > 1 /\ itr <= Top.end
  BY <1>1, CallsAre, TopIs, InExpr, ListBelow DEF parserVars
<1>3. itr' \in Nat /\ itr < itr' /\ itr' <= Len(tokens) + 1 /\ itr' <= Top.end + 1
  BY <1>1, <1>2
<1>4. Popped
  BY <1>1, PoppedCall
<1>5. CASE itr = Top.end
  <2>1. At(itr) = ")" /\ At(itr) \notin Name
    <3>1. InParens(Len(stack))
      BY <1>1, <1>2 DEF InParens, Nested
    <3>2. \E p \in 1 .. itr - 1 : Balances(p, itr)
      BY <1>1, <1>2, <1>5, <3>1 DEF ScopesEnd
    <3>. QED
      BY <3>2, NamesApart DEF Balances
  <2>2. Doomed => Doomed'
    BY <1>1, <1>2, <1>4, <1>5, <2>1, ParenStaysDoomed
  <2>3. TextDeclares => TextDeclares'
    BY <1>1, <1>2, <2>1, SameTable, TextOneOn
  <2>4. ASSUME Nesting, NEW f \in 1 .. Len(stack) - 1
        PROVE  /\ stack[f].kind = "list" => itr' <= stack[f].end \/ Doomed'
               /\ stack[f].kind = "com" => itr' <= stack[f].end \/ Received(stack[f].end)
    <3>1. f \in DOMAIN stack /\ stack[f].end \in Nat
      BY <1>2
    <3>2. stack[f].kind \in {"list", "com"} => itr # stack[f].end
      BY <1>1, <2>1, <3>1, Braces DEF ScopesEnd
    <3>3. /\ stack[f].kind = "list" => itr <= stack[f].end \/ Doomed'
          /\ stack[f].kind = "com" => itr <= stack[f].end \/ Received(stack[f].end)
      BY <2>2, <2>4, <3>1 DEF Nesting
    <3>. QED
      BY <1>1, <1>2, <3>1, <3>2, <3>3
  <2>5. Doomed' \/ TextDeclares'
    BY <1>1, <2>2, <2>3
  <2>6. /\ uses' \in Seq(Declarations!Use) /\ Len(uses') <= 3 /\ Len(uses') = Len(uses)
        /\ \A i \in DOMAIN uses' : i \in DOMAIN uses /\ uses'[i].name = uses[i].name
        /\ body' \in Declarations!Body
        /\ \A i \in DOMAIN body' : i \in DOMAIN body /\ body'[i] = body[i]
    BY <1>1, KeptItems
  <2>. QED
    BY <1>1, <1>2, <1>3, <1>4, <2>4, <2>5, <2>6, PopStep
<1>6. CASE itr # Top.end
  <2>1. Doomed'
    BY <1>1, <1>2, <1>4, <1>6, ParenDoomed
  <2>2. ASSUME Nesting, NEW f \in 1 .. Len(stack) - 1, stack[f].kind = "com"
        PROVE  itr' <= stack[f].end \/ Received(stack[f].end)
    <3>1. f \in DOMAIN stack /\ f < Len(stack) /\ stack[f].end \in Nat /\ Top.end \in Nat
      BY <1>2
    <3>2. Top.end < stack[f].end \/ ComReceived
      BY <1>1, <1>2, <2>2, <3>1 DEF Nesting
    <3>3. ComReceived => Received(stack[f].end)
      <4>1. ASSUME NEW g \in DOMAIN stack, stack[g].kind = "com" PROVE g = f
        <5>1. ~(g < f) /\ ~(f < g)
          BY <1>1, <2>2, <3>1, <4>1 DEF CallsInOrder
        <5>. QED
          BY <1>2, <3>1, <4>1, <5>1
      <4>. QED
        BY <4>1 DEF ComReceived
    <3>4. Top.end < stack[f].end => itr' <= stack[f].end
      BY <1>1, <1>2, <3>1
    <3>. QED
      BY <3>2, <3>3, <3>4
  <2>3. /\ uses' \in Seq(Declarations!Use) /\ Len(uses') <= 3 /\ Len(uses') = Len(uses)
        /\ \A i \in DOMAIN uses' : i \in DOMAIN uses /\ uses'[i].name = uses[i].name
        /\ body' \in Declarations!Body
        /\ \A i \in DOMAIN body' : i \in DOMAIN body /\ body'[i] = body[i]
    BY <1>1, KeptItems
  <2>. QED
    BY <1>1, <1>2, <1>3, <1>4, <2>1, <2>2, <2>3, PopStep
<1>. QED
  BY <1>5, <1>6

----------------------------------------------------------------------------
(***************************************************************************)
(* Declarations.                                                           *)
(***************************************************************************)
LEMMA BeginGlobalTypeKeeps ==
  ASSUME TokensInv, BeginGlobalType
  PROVE  TokensInv'
<1>1. /\ TypeOK /\ tokens \in Seq(Token) /\ CallsInOrder /\ ReadLast
      /\ Doomed \/ TextDeclares
      /\ outcome = "running" /\ stack = << >> /\ Is(itr, "Identifier") /\ Is(itr + 1, "Symbol")
      /\ GlobalEnds(itr + 2) # {}
      /\ stack' = <<Frame("list", Min(GlobalEnds(itr + 2)), "item", At(itr))>>
      /\ body' = << >> /\ itr' = itr + 2
      /\ UNCHANGED <<parserVars, tokens, declared>> /\ UNCHANGED uses
  BY DEF TokensInv, BeginGlobalType, ReadsGlobalType, Outer
<1>2. /\ itr \in Nat /\ itr > 0 /\ itr \in DOMAIN tokens /\ itr + 1 \in DOMAIN tokens
      /\ At(itr) \in Name /\ At(itr + 1) \in Symbols
      /\ Len(tokens) \in Nat /\ DOMAIN tokens = 1 .. Len(tokens)
      /\ UNCHANGED tokens /\ UNCHANGED table
  BY <1>1, AtText, CallsAre DEF parserVars
<1>3. itr' \in Nat /\ itr < itr' /\ itr' <= Len(tokens) + 1
  BY <1>1, <1>2
<1>. DEFINE e == Min(GlobalEnds(itr + 2))
            c == Frame("list", e, "item", At(itr))
<1>4. e \in itr + 2 .. Len(tokens) /\ At(e) = "end"
  <2>1. GlobalEnds(itr + 2) \subseteq {q \in itr + 2 .. Len(tokens) : At(q) = "end"}
    BY DEF GlobalEnds
  <2>2. GlobalEnds(itr + 2) \subseteq Nat
    BY <1>2, <2>1
  <2>3. e \in GlobalEnds(itr + 2)
    BY <1>1, <2>2, MinIs
  <2>. QED
    BY <2>1, <2>3
<1>. HIDE DEF e
<1>5. e \in DOMAIN tokens /\ e \in 2 .. Len(tokens) /\ itr' <= e
  BY <1>1, <1>2, <1>4
<1>6. c \in Call /\ c.kind = "list" /\ c.end = e /\ c.expects = "item" /\ c.name = At(itr)
  BY <1>2, <1>5, FrameIs
<1>7. stack' = <<c>>
  BY <1>1 DEF e
<1>. HIDE DEF c
<1>8. stack' \in Seq(Call) /\ DOMAIN stack' = {1} /\ stack'[1] = c /\ Len(stack') = 1
  BY <1>6, <1>7
<1>9. CallsInOrder' /\ UsesCounted'
  BY <1>2, <1>6, <1>8 DEF CallsInOrder, UsesCounted
<1>10. ReadLast'
  <2>1. Follows(stack'[Len(stack')], At(itr' - 1))
    BY <1>6, <1>8 DEF Follows
  <2>. QED
    BY <1>2, <1>8, <2>1, LastAfter
<1>11. ScopesEnd'
  BY <1>2, <1>4, <1>5, <1>6, <1>8, SameText DEF ScopesEnd, InParens
<1>12. Inside'
  BY <1>5, <1>6, <1>8 DEF Inside, Nesting
<1>13. ~Doomed
  BY <1>1, NotDoomed
<1>14. TextDeclares'
  <2>1. ASSUME NEW q \in itr - 1 .. itr' - 2, q > 0, tokens[q] = "Participant" PROVE FALSE
    <3>1. itr' - 2 = itr
      BY <1>1, <1>2
    <3>2. q \in itr - 1 .. itr
      BY <3>1
    <3>3. q = itr - 1 \/ q = itr
      BY <1>2, <3>2
    <3>4. At(itr) # "Participant"
      BY <1>2, NamesApart
    <3>5. q \in DOMAIN tokens /\ At(q) = "Participant"
      BY <1>2, <2>1, <3>3, AtText DEF At
    <3>6. q = itr - 1 /\ itr # 1
      BY <1>2, <2>1, <3>3, <3>4, <3>5
    <3>7. At(itr - 1) \in {"end", RightBrace}
      BY <1>1, <3>6 DEF ReadLast
    <3>. QED
      BY <3>5, <3>6, <3>7, Braces
  <2>. QED
    BY <1>1, <1>2, <1>3, <1>13, <2>1, SameTable, TextOn
<1>15. /\ uses' \in Seq(Declarations!Use) /\ Len(uses') <= 3
       /\ \A i \in DOMAIN uses' : i \in DOMAIN uses /\ uses'[i].name = uses[i].name
  BY <1>1, KeptItems
<1>16. body' \in Declarations!Body /\ DOMAIN body' = {}
  BY <1>1 DEF Declarations!Body
<1>. QED
  BY <1>1, <1>3, <1>8, <1>9, <1>10, <1>11, <1>12, <1>14, <1>15, <1>16, RunsOn

LEMMA DeclareStep ==
  ASSUME TokensInv, outcome = "running", ~Doomed, NEW d \in Declarations!Declaration,
         NEW node \in Declarations!Node, NEW next \in Nat, Declare(d, node, next),
         itr < next, next <= Len(tokens) + 1, stack' = << >>, body' = body,
         node.tag = "Global" => node.body = body,
         At(next - 1) \in {"end", RightBrace},
         DOMAIN table' = DOMAIN table \cup {d.name} => TextDeclares'
  PROVE  TokensInv'
<1>1. /\ TypeOK /\ tokens \in Seq(Token) /\ TextDeclares /\ NullsHaveCause /\ Resolved
      /\ table' = Declarations!Insert(table, d.name, node)
      /\ declared' = Append(declared, d) /\ itr' = next
      /\ UNCHANGED <<file, outcome, tokens, uses>>
  BY DEF TokensInv, Declare, Declarations!addDeclaration
<1>2. /\ Grows /\ DOMAIN table' = DOMAIN table \cup {d.name}
      /\ d.name \notin DOMAIN table => table'[d.name] = node
  BY <1>1, InsertGrows
<1>3. d.name \in Name
  BY DEF Declarations!Declaration
<1>4. DOMAIN table' \subseteq Name
  BY <1>1, <1>2, <1>3 DEF TypeOK
<1>5. table' \in [DOMAIN table' -> Declarations!Node]
  <2>1. table' = [n \in DOMAIN table' |-> table'[n]]
    BY <1>1 DEF Declarations!Insert
  <2>2. \A n \in DOMAIN table' : table'[n] \in Declarations!Node
    BY <1>1, <1>2 DEF TypeOK, Grows
  <2>. QED
    BY <2>1, <2>2
<1>6. declared' \in Seq(Declarations!Declaration)
  BY <1>1 DEF TypeOK
<1>7. itr \in Nat /\ Len(tokens) \in Nat /\ next \in 1 .. Len(tokens) + 1 /\ itr <= next
  BY <1>1, CallsAre
<1>8. TypeOK'
  <2>1. Call' = Call /\ (Len(tokens) + 1)' = Len(tokens) + 1
    BY <1>1 DEF Call
  <2>2. stack' \in Seq(Call)
    OBVIOUS
  <2>3. /\ uses' \in Seq(Declarations!Use) /\ Len(uses') <= 3 /\ body' \in Declarations!Body
        /\ outcome' \in {"running", "parsed", "failed", "crashed"}
    BY <1>1 DEF TypeOK
  <2>. QED
    BY <1>1, <1>4, <1>5, <1>6, <1>7, <2>1, <2>2, <2>3 DEF TypeOK
<1>9. NullsHaveCause' /\ Resolved'
  BY <1>1, <1>4, <1>7, SettledDeclared
<1>10. TextDeclares'
  BY <1>2
<1>11. DOMAIN stack' = {} /\ stack' = << >>
  OBVIOUS
<1>12. CallsInOrder' /\ UsesCounted' /\ ScopesEnd' /\ Inside'
  BY <1>11 DEF CallsInOrder, UsesCounted, ScopesEnd, Inside, Nesting
<1>13. ReadLast'
  <2>1. At(itr - 1)' = At(next - 1)
    BY <1>1 DEF At
  <2>. QED
    BY <1>11, <2>1, Braces DEF ReadLast
<1>. QED
  BY <1>1, <1>8, <1>9, <1>10, <1>12, <1>13 DEF TokensInv

LEMMA IndexDeclKeeps ==
  ASSUME TokensInv, parseIndexDecl
  PROVE  TokensInv'
<1>. DEFINE d == [tag |-> "Index", name |-> At(itr + 1)]
            node == [tag |-> "Index"]
<1>1. /\ TypeOK /\ tokens \in Seq(Token) /\ CallsInOrder /\ TextDeclares
      /\ outcome = "running" /\ stack = << >> /\ ~Doomed
      /\ At(itr) = "Index" /\ Is(itr + 1, "Identifier") /\ At(itr + 2) = LeftBrace
      /\ Is(itr + 3, "Literal") /\ At(itr + 4) = "." /\ At(itr + 5) = "." /\ Is(itr + 6, "Literal")
      /\ At(itr + 7) = RightBrace
      /\ Declare(d, node, itr + 8)
      /\ UNCHANGED stack /\ UNCHANGED body
  <2>1. TypeOK /\ tokens \in Seq(Token) /\ CallsInOrder /\ stack = << >>
    BY DEF TokensInv, parseIndexDecl, ReadsIndexDecl, Outer
  <2>2. ~Doomed
    BY <2>1, NotDoomed
  <2>. QED
    BY <2>1, <2>2 DEF TokensInv, parseIndexDecl, ReadsIndexDecl, Outer
<1>2. At(itr + 1) \in Name /\ itr + 7 \in DOMAIN tokens
  BY <1>1, AtText, Braces
<1>3. /\ itr \in Nat /\ itr > 0 /\ Len(tokens) \in Nat /\ DOMAIN tokens = 1 .. Len(tokens)
      /\ itr + 8 \in Nat /\ itr < itr + 8 /\ itr + 8 <= Len(tokens) + 1 /\ (itr + 8) - 1 = itr + 7
  <2>1. itr \in Nat /\ itr > 0 /\ Len(tokens) \in Nat /\ DOMAIN tokens = 1 .. Len(tokens)
    BY <1>1, CallsAre
  <2>. QED
    BY <1>2, <2>1
<1>4. d \in Declarations!Declaration /\ d.name = At(itr + 1)
  BY <1>2 DEF Declarations!Declaration
<1>5. node \in Declarations!Node /\ node.tag # "Global"
  BY DEF Declarations!Node
<1>. HIDE DEF node, d
<1>6. UNCHANGED tokens /\ itr' = itr + 8 /\ itr' - 2 = itr + 6 /\ table' = Declarations!Insert(table, d.name, node)
  BY <1>1, <1>3 DEF Declare, Declarations!addDeclaration
<1>7. Grows
  BY <1>6, InsertGrows
<1>8. ASSUME DOMAIN table' = DOMAIN table \cup {d.name} PROVE TextDeclares'
  <2>1. ASSUME NEW q \in itr - 1 .. itr' - 2, q > 0, tokens[q] = "Participant", tokens[q + 1] \in Name
        PROVE  FALSE
    <3>1. q \in itr - 1 .. itr + 6
      BY <1>6
    <3>2. \/ q = itr - 1 \/ q = itr \/ q = itr + 1 \/ q = itr + 2 \/ q = itr + 3 \/ q = itr + 4
          \/ q = itr + 5 \/ q = itr + 6
      BY <1>3, <3>1
    <3>3. q \in DOMAIN tokens /\ q + 1 \in DOMAIN tokens
      BY <1>2, <1>3, <2>1, <3>2
    <3>4. At(q) = "Participant" /\ At(q + 1) \in Name
      BY <2>1, <3>3 DEF At
    <3>5. /\ At(itr + 1) # "Participant" /\ At(itr + 2) # "Participant"
          /\ At(itr + 3) # "Participant" /\ At(itr + 6) # "Participant"
      BY <1>1, <1>2, NamesApart, Braces, AtText DEF Literals
    <3>6. q = itr - 1 /\ q + 1 = itr
      BY <1>1, <1>3, <3>2, <3>4, <3>5
    <3>. QED
      BY <1>1, <3>4, <3>6, NamesApart
  <2>2. itr' \in Nat /\ itr < itr'
    BY <1>3, <1>6
  <2>. QED
    BY <1>1, <1>6, <1>7, <2>1, <2>2, TextOn
<1>9. At((itr + 8) - 1) \in {"end", RightBrace}
  BY <1>1, <1>3
<1>. QED
  BY <1>1, <1>3, <1>4, <1>5, <1>8, <1>9, DeclareStep

LEMMA IndexedKeeps ==
  ASSUME TokensInv, NEW tag \in {"Participant", "Channel"}, parseIndexed(tag)
  PROVE  TokensInv'
<1>. DEFINE d == [tag |-> tag, name |-> At(itr + 1), index |-> IndexArg]
            node == [tag |-> tag, index |-> Declarations!IndexOf(IndexArg)]
<1>1. /\ TypeOK /\ tokens \in Seq(Token) /\ CallsInOrder /\ TextDeclares
      /\ outcome = "running" /\ stack = << >> /\ ~Doomed
      /\ At(itr) = tag /\ Is(itr + 1, "Identifier") /\ At(itr + 2) = LeftBrace
      /\ Is(itr + 3, "Literal") \/ Is(itr + 3, "Identifier")
      /\ Declarations!IndexGiven(IndexArg)
      /\ At(itr + 4) = RightBrace
      /\ Declare(d, node, itr + 5)
      /\ UNCHANGED stack /\ UNCHANGED body
  <2>1. TypeOK /\ tokens \in Seq(Token) /\ CallsInOrder /\ stack = << >>
    BY DEF TokensInv, parseIndexed, ReadsIndexed, Outer
  <2>2. ~Doomed
    BY <2>1, NotDoomed
  <2>. QED
    BY <2>1, <2>2 DEF TokensInv, parseIndexed, ReadsIndexed, Outer
<1>2. At(itr + 1) \in Name /\ itr + 4 \in DOMAIN tokens /\ At(itr + 3) \in Name \cup Literals
  BY <1>1, AtText, Braces
<1>3. /\ itr \in Nat /\ itr > 0 /\ Len(tokens) \in Nat /\ DOMAIN tokens = 1 .. Len(tokens)
      /\ itr + 5 \in Nat /\ itr < itr + 5 /\ itr + 5 <= Len(tokens) + 1 /\ (itr + 5) - 1 = itr + 4
  <2>1. itr \in Nat /\ itr > 0 /\ Len(tokens) \in Nat /\ DOMAIN tokens = 1 .. Len(tokens)
    BY <1>1, CallsAre
  <2>. QED
    BY <1>2, <2>1
<1>4. IndexArg \in Declarations!IndexArg /\ Declarations!IndexOf(IndexArg) \in Name
  <2>1. CASE Is(itr + 3, "Literal")
    <3>1. IndexArg = <<"literal", At(itr + 3)>>
      BY <2>1 DEF IndexArg
    <3>2. At(itr + 3) \in {"1", "10"}
      BY <1>1, <3>1 DEF Declarations!IndexGiven
    <3>3. UnaryIndex \in Name
      BY TokenParserAssumption DEF Declarations!ParserAssumption
    <3>. QED
      BY <3>1, <3>2, <3>3 DEF Declarations!IndexArg, Declarations!IndexOf
  <2>2. CASE ~Is(itr + 3, "Literal")
    <3>1. IndexArg = <<"name", At(itr + 3)>>
      BY <2>2 DEF IndexArg
    <3>2. At(itr + 3) \in Name
      BY <1>1, <2>2, AtText
    <3>. QED
      BY <3>1, <3>2 DEF Declarations!IndexArg, Declarations!IndexOf
  <2>. QED
    BY <2>1, <2>2
<1>5. d \in Declarations!Declaration /\ d.name = At(itr + 1)
  BY <1>2, <1>4 DEF Declarations!Declaration
<1>6. node \in Declarations!Node /\ node.tag # "Global"
  BY <1>4 DEF Declarations!Node
<1>. HIDE DEF node, d
<1>7. UNCHANGED tokens /\ itr' = itr + 5 /\ itr' - 2 = itr + 3 /\ table' = Declarations!Insert(table, d.name, node)
  BY <1>1, <1>3 DEF Declare, Declarations!addDeclaration
<1>8. Grows
  BY <1>7, InsertGrows
<1>9. ASSUME DOMAIN table' = DOMAIN table \cup {d.name} PROVE TextDeclares'
  <2>1. ASSUME NEW q \in itr - 1 .. itr' - 2, q > 0, tokens[q] = "Participant", tokens[q + 1] \in Name
        PROVE  tokens[q + 1] \in DOMAIN table'
    <3>1. q \in itr - 1 .. itr + 3
      BY <1>7
    <3>2. q = itr - 1 \/ q = itr \/ q = itr + 1 \/ q = itr + 2 \/ q = itr + 3
      BY <1>3, <3>1
    <3>3. q \in DOMAIN tokens /\ q + 1 \in DOMAIN tokens
      BY <1>2, <1>3, <2>1, <3>2
    <3>4. At(q) = "Participant" /\ At(q + 1) \in Name /\ At(q + 1) = tokens[q + 1]
      BY <2>1, <3>3 DEF At
    <3>5. At(itr + 1) # "Participant" /\ At(itr + 2) # "Participant" /\ At(itr + 3) # "Participant"
      BY <1>1, <1>2, NamesApart, Braces DEF Literals
    <3>6. At(itr) \notin Name
      BY <1>1, NamesApart
    <3>7. q = itr
      <4>1. q # itr - 1
        BY <1>3, <3>4, <3>6
      <4>. QED
        BY <3>2, <3>4, <3>5, <4>1
    <3>. QED
      BY <1>5, <1>9, <3>4, <3>7
  <2>2. itr' \in Nat /\ itr < itr'
    BY <1>3, <1>7
  <2>. QED
    BY <1>1, <1>7, <1>8, <2>1, <2>2, TextOn
<1>10. At((itr + 5) - 1) \in {"end", RightBrace}
  BY <1>1, <1>3
<1>. QED
  BY <1>1, <1>3, <1>5, <1>6, <1>9, <1>10, DeclareStep

LEMMA EndGlobalTypeKeeps ==
  ASSUME TokensInv, EndGlobalType
  PROVE  TokensInv'
<1>. DEFINE d == [tag |-> "Global", name |-> Top.name, body |-> body]
            node == [tag |-> "Global", body |-> body]
<1>1. /\ TypeOK /\ tokens \in Seq(Token) /\ CallsInOrder /\ ScopesEnd
      /\ Doomed \/ TextDeclares
      /\ outcome = "running" /\ stack # << >> /\ Top.kind = "list" /\ itr = Top.end /\ Len(stack) = 1
      /\ Declare(d, node, itr + 1)
      /\ stack' = << >> /\ UNCHANGED body
  BY DEF TokensInv, EndGlobalType, In
<1>2. /\ Top = stack[1] /\ 1 \in DOMAIN stack /\ itr \in 1 .. Len(tokens)
      /\ itr \in Nat /\ itr > 0 /\ Len(tokens) \in Nat /\ DOMAIN tokens = 1 .. Len(tokens)
      /\ itr + 1 \in Nat /\ itr < itr + 1 /\ itr + 1 <= Len(tokens) + 1 /\ (itr + 1) - 1 = itr
      /\ itr \in DOMAIN tokens
  <2>1. Len(stack) \in DOMAIN stack /\ Top = stack[Len(stack)] /\ Top.end \in 1 .. Len(tokens)
    BY <1>1, TopIs
  <2>2. Top = stack[1] /\ 1 \in DOMAIN stack /\ itr \in 1 .. Len(tokens)
    BY <1>1, <2>1
  <2>3. Len(tokens) \in Nat /\ DOMAIN tokens = 1 .. Len(tokens)
    BY <1>1, CallsAre
  <2>. QED
    BY <2>2, <2>3
<1>3. ~Doomed
  BY <1>1, NotDoomed
<1>4. Top.name \in Name /\ body \in Declarations!Body
  BY <1>1, <1>2 DEF CallsInOrder, TypeOK
<1>5. d \in Declarations!Declaration /\ d.name = Top.name
  BY <1>4 DEF Declarations!Declaration
<1>6. node \in Declarations!Node /\ node.body = body
  BY <1>4 DEF Declarations!Node
<1>7. At(itr) \in {"end", RightBrace}
  BY <1>1, <1>2 DEF ScopesEnd
<1>. HIDE DEF node, d
<1>8. UNCHANGED tokens /\ itr' = itr + 1 /\ table' = Declarations!Insert(table, d.name, node)
  BY <1>1 DEF Declare, Declarations!addDeclaration
<1>9. Grows
  BY <1>8, InsertGrows
<1>10. TextDeclares'
  BY <1>1, <1>2, <1>3, <1>7, <1>8, <1>9, NamesApart, TextOneOn
<1>11. At((itr + 1) - 1) \in {"end", RightBrace}
  BY <1>2, <1>7
<1>12. body' = body
  BY <1>1
<1>. QED
  BY <1>1, <1>2, <1>3, <1>5, <1>6, <1>10, <1>11, <1>12, DeclareStep

----------------------------------------------------------------------------
(***************************************************************************)
(* Crashes.                                                                *)
(***************************************************************************)
Caused ==
  \/ \E p \in 1 .. Len(tokens) - 1 : UndeclaredReceiver(p)
  \/ Is(Len(tokens), "Identifier")

LEMMA NullsCaused ==
  ASSUME TokensInv, Nulls
  PROVE  Caused
<1>1. PICK p \in 1 .. itr - 1 : p < Len(tokens) /\ UndeclaredReceiver(p)
  BY DEF TokensInv, NullsHaveCause, SomeUndeclared
<1>2. p \in 1 .. Len(tokens) - 1
  <2>1. itr \in Nat /\ Len(tokens) \in Nat
    BY CallsAre DEF TokensInv
  <2>. QED
    BY <1>1, <2>1
<1>. QED
  BY <1>1, <1>2 DEF Caused

(* A scope is only left behind when its end was read as a receiver. *)
LEMMA BehindCaused ==
  ASSUME TokensInv, stack # << >>, Top.kind \in {"list", "com"}, Top.end < itr
  PROVE  Caused
<1>1. tokens \in Seq(Token) /\ TypeOK /\ CallsInOrder /\ ScopesEnd /\ Inside
  BY DEF TokensInv
<1>2. /\ Len(stack) \in DOMAIN stack /\ Top = stack[Len(stack)]
      /\ Top.end \in Nat /\ itr \in Nat /\ ~(itr <= Top.end)
  BY <1>1, TopIs, CallsAre
<1>3. ~Doomed
  BY <1>1, <1>2, NotDoomed
<1>4. PICK f \in DOMAIN stack : stack[f].kind \in {"list", "com"} /\ Received(stack[f].end)
  <2>1. CASE Passed
    BY <2>1 DEF Passed
  <2>2. CASE Nesting
    BY <1>2, <1>3, <2>2 DEF Nesting
  <2>. QED
    BY <1>1, <2>1, <2>2 DEF Inside
<1>5. stack[f].end \in 2 .. Len(tokens) /\ At(stack[f].end) \in {".", "end", RightBrace}
  BY <1>1, <1>4 DEF ScopesEnd
<1>6. PICK p \in 1 .. Len(tokens) - 1 : p + 1 = stack[f].end /\ p = stack[f].end - 1
  <2>1. Len(tokens) \in Nat
    BY <1>1, CallsAre
  <2>. QED
    BY <1>5, <2>1
<1>7. tokens[p] = "->" /\ tokens[p + 1] \in {".", "end", RightBrace}
  <2>1. At(p) = "->" /\ At(p + 1) \in {".", "end", RightBrace}
    BY <1>4, <1>5, <1>6 DEF Received
  <2>2. p \in DOMAIN tokens /\ p + 1 \in DOMAIN tokens
    BY <1>1, <1>6, CallsAre
  <2>. QED
    BY <2>1, <2>2 DEF At
<1>8. ~resolve(tokens[p + 1], "Participant")
  BY <1>1, <1>7, NamesApart DEF resolve, Declarations!resolve, TypeOK
<1>. QED
  BY <1>7, <1>8 DEF Caused, UndeclaredReceiver

(* A search that starts inside the scope meets its end. *)
LEMMA SearchBehind ==
  ASSUME TokensInv, stack # << >>, NEW t, Stops(t) = {}
  PROVE  Top.end < itr
<1>1. /\ Top.end \in 1 .. Len(tokens) /\ itr \in Nat /\ Len(tokens) \in Nat
  BY TopIs, CallsAre DEF TokensInv
<1>2. itr <= Top.end => Top.end \in itr .. Len(tokens)
  BY <1>1
<1>. QED
  BY <1>1, <1>2 DEF Stops

LEMMA NullIndexedCaused ==
  ASSUME TokensInv, NullIndexed
  PROVE  Caused
<1>1. /\ TypeOK /\ tokens \in Seq(Token) /\ UsesCounted
      /\ stack # << >> /\ Top.kind = "com" /\ Top.expects \in {"->", ":", "<"}
      /\ Last(uses).name = NoName
  BY DEF TokensInv, NullIndexed, ReadsIndexExpr, OpensBracket, In
<1>2. Len(uses) \in {1, 2, 3}
  BY <1>1, TopCounted DEF Counted
<1>3. Len(uses) \in DOMAIN uses /\ Last(uses) = uses[Len(uses)]
  <2>1. uses \in Seq(Declarations!Use)
    BY <1>1 DEF TypeOK
  <2>. QED
    BY <1>2, <2>1 DEF Last
<1>. QED
  BY <1>1, <1>3, NullsCaused DEF Nulls, UsesNull

LEMMA NullPrintedCaused ==
  ASSUME TokensInv, NullPrinted
  PROVE  Caused
<1>1. TypeOK /\ Resolved
  BY DEF TokensInv
<1>2. \A g \in Declarations!Globals : Declarations!Refs(g) \subseteq Declarations!Globals
  <2>. SUFFICES ASSUME NEW g \in Declarations!Globals, NEW n \in Declarations!Refs(g)
                PROVE  n \in Declarations!Globals
    OBVIOUS
  <2>1. g \in DOMAIN table /\ table[g].tag = "Global"
    BY DEF Declarations!Globals
  <2>2. PICK i \in DOMAIN table[g].body : table[g].body[i].tag = "ref" /\ n = table[g].body[i].name
    BY DEF Declarations!Refs, Declarations!ToSet
  <2>3. resolve(n, "Global")
    BY <1>1, <2>1, <2>2 DEF Resolved, RefsResolve
  <2>. QED
    BY <2>3 DEF resolve, Declarations!resolve, Declarations!Globals
<1>3. Declarations!ReachesNull(At(itr + 2))
  BY DEF NullPrinted
<1>4. PICK g \in Declarations!Globals : Declarations!NoReceiver(g)
  BY <1>2, <1>3 DEF Declarations!ReachesNull
<1>5. g \in DOMAIN table /\ table[g].tag = "Global"
  BY DEF Declarations!Globals
<1>6. HasNull(table[g].body)
  BY <1>4 DEF Declarations!NoReceiver, Declarations!Coms, Declarations!ToSet, HasNull
<1>. QED
  BY <1>5, <1>6, NullsCaused DEF Nulls

LEMMA ReadsBeyondCaused ==
  ASSUME TokensInv, ReadsBeyond
  PROVE  Caused
<1>1. TypeOK /\ tokens \in Seq(Token)
  BY DEF TokensInv
<1>2. itr \in Nat /\ Len(tokens) \in Nat
  BY <1>1, CallsAre
<1>3. CASE NameLast
  BY <1>3 DEF NameLast, Caused
<1>4. CASE LabelsLast
  <2>1. Len(tokens) \in itr + 3 .. Len(tokens)
    BY <1>2, <1>4 DEF LabelsLast
  <2>. QED
    BY <1>4, <2>1 DEF LabelsLast, Caused
<1>5. CASE (In("list") \/ In("com")) /\ itr > Len(tokens)
  <2>1. stack # << >> /\ Top.kind \in {"list", "com"}
    BY <1>5 DEF In
  <2>2. Top.end \in 1 .. Len(tokens)
    BY <1>1, <2>1, TopIs
  <2>3. Top.end < itr
    BY <1>2, <1>5, <2>2
  <2>. QED
    BY <2>1, <2>3, BehindCaused
<1>6. CASE SearchesOn
  <2>1. stack # << >> /\ Top.kind \in {"list", "com"}
    BY <1>6 DEF SearchesOn, ReadsSender, OpensBracket, ReadsIteration, InList, In
  <2>2. itr > Top.end \/ Stops(".") = {} \/ Stops("]") = {}
    BY <1>6 DEF SearchesOn
  <2>3. Top.end < itr
    <3>1. Top.end \in Nat
      BY <1>1, <2>1, TopIs
    <3>2. CASE Stops(".") = {}
      BY <2>1, <3>2, SearchBehind
    <3>3. CASE Stops("]") = {}
      BY <2>1, <3>3, SearchBehind
    <3>4. CASE itr > Top.end
      BY <1>2, <3>1, <3>4
    <3>. QED
      BY <2>2, <3>2, <3>3, <3>4
  <2>. QED
    BY <2>1, <2>3, BehindCaused
<1>. QED
  BY <1>3, <1>4, <1>5, <1>6 DEF ReadsBeyond

----------------------------------------------------------------------------
(***************************************************************************)
(* The steps that only end the parse.                                      *)
(***************************************************************************)
LEMMA StopKeeps ==
  ASSUME TokensInv, UNCHANGED <<file, keys, table, tokens, itr, stack, uses, body, declared>>,
         outcome' = outcome \/ outcome' \in {"parsed", "failed", "crashed"},
         outcome' = "crashed" => outcome = "crashed" \/ Caused
  PROVE  TokensInv'
<1>1. /\ UNCHANGED table /\ UNCHANGED tokens /\ UNCHANGED itr /\ UNCHANGED stack /\ UNCHANGED uses
      /\ UNCHANGED body /\ UNCHANGED declared
  OBVIOUS
<1>2. /\ tokens \in Seq(Token) /\ TypeOK /\ CallsInOrder /\ UsesCounted /\ ReadLast /\ ScopesEnd
      /\ Inside /\ (Doomed \/ TextDeclares) /\ NullsHaveCause /\ Resolved
      /\ outcome = "crashed" => CrashOnlyForCause
  BY DEF TokensInv
<1>3. TypeOK'
  <2>1. Call' = Call
    BY <1>1 DEF Call
  <2>. QED
    BY <1>1, <1>2, <2>1 DEF TypeOK
<1>4. CallsInOrder' /\ UsesCounted'
  BY <1>1, <1>2 DEF CallsInOrder, UsesCounted
<1>5. ReadLast'
  BY <1>1, <1>2 DEF ReadLast, At, Top, Last, Follows
<1>6. ScopesEnd'
  BY <1>1, <1>2, SameText DEF ScopesEnd, InParens
<1>7. Passed' = Passed /\ Doomed' = Doomed /\ ComReceived' = ComReceived
  BY <1>1, SameText DEF Passed, Doomed, ComReceived
<1>8. Inside'
  BY <1>1, <1>2, <1>7, SameText DEF Inside, Nesting
<1>9. Doomed' \/ TextDeclares'
  BY <1>1, <1>2, <1>7 DEF TextDeclares
<1>10. \A n, tag : resolve(n, tag)' = resolve(n, tag)
  BY <1>1 DEF resolve, Declarations!resolve
<1>11. \A p : UndeclaredReceiver(p)' = UndeclaredReceiver(p)
  BY <1>1, <1>10 DEF UndeclaredReceiver, DeclaredBefore, resolve, Declarations!resolve
<1>12. NullsHaveCause'
  BY <1>1, <1>2, <1>11 DEF NullsHaveCause, Nulls, UsesNull, HasNull, SomeUndeclared
<1>13. Resolved'
  BY <1>1, <1>2 DEF Resolved, RefsResolve, resolve, Declarations!resolve
<1>14. CrashOnlyForCause'
  BY <1>1, <1>2, <1>11 DEF CrashOnlyForCause, Caused, Is
<1>. QED
  BY <1>1, <1>2, <1>3, <1>4, <1>5, <1>6, <1>8, <1>9, <1>12, <1>13, <1>14 DEF TokensInv

LEMMA EndsKeep ==
  ASSUME TokensInv, Finish \/ Throw \/ Crash
  PROVE  TokensInv'
<1>1. CASE Finish
  BY <1>1, StopKeeps DEF Finish, Stop
<1>2. CASE Throw
  BY <1>2, StopKeeps DEF Throw, Stop
<1>3. CASE Crash
  <2>1. Caused
    BY <1>3, NullIndexedCaused, NullPrintedCaused, ReadsBeyondCaused DEF Crash
  <2>. QED
    BY <1>3, <2>1, StopKeeps DEF Crash, Stop
<1>. QED
  BY <1>1, <1>2, <1>3

----------------------------------------------------------------------------
LEMMA InitInv ==
  ASSUME Init
  PROVE  TokensInv
<1>1. /\ keys = <<UnaryIndex>> /\ table = [n \in {UnaryIndex} |-> [tag |-> "Index"]]
      /\ outcome = "running" /\ itr = 1 /\ stack = << >> /\ uses = << >> /\ body = << >>
      /\ declared = << >>
  BY DEF Init
<1>2. tokens \in Seq(Token)
  BY TokenParserAssumption DEF Init
<1>3. DOMAIN stack = {} /\ DOMAIN uses = {} /\ DOMAIN body = {} /\ Len(tokens) \in Nat
  BY <1>1, <1>2
<1>4. DOMAIN table = {UnaryIndex} /\ table[UnaryIndex] = [tag |-> "Index"]
  BY <1>1
<1>5. TypeOK
  <2>1. UnaryIndex \in Name
    BY TokenParserAssumption DEF Declarations!ParserAssumption
  <2>2. [tag |-> "Index"] \in Declarations!Node
    BY DEF Declarations!Node
  <2>3. DOMAIN table \subseteq Name /\ table \in [DOMAIN table -> Declarations!Node]
    BY <1>1, <1>4, <2>1, <2>2
  <2>4. itr \in 1 .. Len(tokens) + 1
    BY <1>1, <1>3
  <2>5. stack \in Seq(Call) /\ uses \in Seq(Declarations!Use) /\ Len(uses) <= 3
        /\ declared \in Seq(Declarations!Declaration)
    BY <1>1
  <2>6. body \in Declarations!Body
    BY <1>1 DEF Declarations!Body
  <2>. QED
    BY <1>1, <2>3, <2>4, <2>5, <2>6 DEF TypeOK
<1>6. CallsInOrder /\ UsesCounted /\ ReadLast /\ ScopesEnd /\ Inside
  BY <1>1, <1>3 DEF CallsInOrder, UsesCounted, ReadLast, ScopesEnd, Inside, Nesting
<1>7. TextDeclares
  BY <1>1 DEF TextDeclares
<1>8. \A n \in DOMAIN table : table[n].tag # "Global"
  BY <1>4
<1>9. NullsHaveCause /\ Resolved
  BY <1>3, <1>8 DEF NullsHaveCause, Nulls, UsesNull, HasNull, Resolved, RefsResolve
<1>. QED
  BY <1>1, <1>2, <1>5, <1>6, <1>7, <1>9 DEF TokensInv

LEMMA StepInv ==
  ASSUME TokensInv, [Next \/ Done]_vars
  PROVE  TokensInv'
<1>1. CASE Next
  <2>1. ASSUME parseIndexDecl \/ parseParticipantDecl \/ parseChannelDecl PROVE TokensInv'
    BY <2>1, IndexDeclKeeps, IndexedKeeps DEF parseParticipantDecl, parseChannelDecl
  <2>2. ASSUME BeginGlobalType \/ EndGlobalType PROVE TokensInv'
    BY <2>2, BeginGlobalTypeKeeps, EndGlobalTypeKeeps
  <2>3. ASSUME PassSeparator \/ AddGlobalType \/ BeginForEach \/ EndForEach PROVE TokensInv'
    BY <2>3, PassSeparatorKeeps, AddGlobalTypeKeeps, BeginForEachKeeps, EndForEachKeeps
  <2>4. ASSUME BeginCommunication \/ PassPunctuation \/ ReadReceiver \/ ReadChannel \/ ReadType
                 \/ EndCommunication
        PROVE  TokensInv'
    BY <2>4, BeginCommunicationKeeps, PassPunctuationKeeps, ReadReceiverKeeps, ReadChannelKeeps,
       ReadTypeKeeps, EndCommunicationKeeps
  <2>5. ASSUME BeginIndexExpr \/ ReadAtom \/ ReadExtreme \/ BeginParen \/ PassSign \/ EndParen
                 \/ EndIndexExpr
        PROVE  TokensInv'
    BY <2>5, BeginIndexExprKeeps, ReadAtomKeeps, ReadExtremeKeeps, BeginParenKeeps, PassSignKeeps,
       EndParenKeeps, EndIndexExprKeeps
  <2>6. ASSUME Finish \/ Throw \/ Crash PROVE TokensInv'
    BY <2>6, EndsKeep
  <2>. QED
    BY <1>1, <2>1, <2>2, <2>3, <2>4, <2>5, <2>6 DEF Next
<1>2. CASE UNCHANGED vars
  BY <1>2, StopKeeps DEF vars
<1>. QED
  BY <1>1, <1>2 DEF Done

LEMMA TokensInvariant == Spec => []TokensInv
<1>1. Init => TokensInv
  BY InitInv
<1>2. TokensInv /\ [Next \/ Done]_vars => TokensInv'
  BY StepInv
<1>. QED
  BY <1>1, <1>2, PTL DEF Spec

LEMMA InsideNested ==
  ASSUME TokensInv
  PROVE  ScopesNested
<1>1. tokens \in Seq(Token) /\ TypeOK /\ CallsInOrder /\ ScopesEnd /\ Inside
  BY DEF TokensInv
<1>2. SUFFICES ASSUME ~EndReceived
               PROVE  \A f \in DOMAIN stack :
                        /\ itr <= stack[f].end
                        /\ \A g \in 1 .. f - 1 :
                             /\ stack[f].end <= stack[g].end
                             /\ stack[f].end = stack[g].end => stack[f].kind = "com"
  BY DEF ScopesNested
<1>3. \A f \in DOMAIN stack : ~Received(stack[f].end)
  <2>. SUFFICES ASSUME NEW f \in DOMAIN stack PROVE tokens[stack[f].end - 1] = At(stack[f].end - 1)
    BY <1>2 DEF EndReceived, Received
  <2>1. stack[f].end \in 2 .. Len(tokens)
    BY <1>1 DEF ScopesEnd
  <2>2. stack[f].end - 1 \in DOMAIN tokens
    BY <1>1, <2>1, CallsAre
  <2>. QED
    BY <2>2 DEF At
<1>4. Nesting /\ ~ComReceived
  BY <1>1, <1>3 DEF Inside, Passed, ComReceived
<1>5. \A g, f \in DOMAIN stack : g < f =>
        /\ stack[f].end <= stack[g].end
        /\ stack[f].end = stack[g].end => stack[f].kind = "com"
  <2>. SUFFICES ASSUME NEW g \in DOMAIN stack, NEW f \in DOMAIN stack, g < f
                PROVE  /\ stack[f].end <= stack[g].end
                       /\ stack[f].end = stack[g].end => stack[f].kind = "com"
    OBVIOUS
  <2>1. stack[f].end \in Nat /\ stack[g].end \in Nat /\ stack[f].kind \in {"list", "com", "expr"}
    BY <1>1, CallsAre DEF Call
  <2>2. CASE stack[f].kind = "com"
    BY <1>4, <2>2 DEF Nesting
  <2>3. CASE stack[f].kind \in {"list", "expr"}
    <3>1. stack[f].end < stack[g].end
      BY <1>4, <2>3 DEF Nesting
    <3>. QED
      BY <2>1, <3>1
  <2>. QED
    BY <2>1, <2>2, <2>3
<1>6. \A f \in DOMAIN stack : itr <= stack[f].end
  <2>. SUFFICES ASSUME NEW f \in DOMAIN stack PROVE itr <= stack[f].end
    OBVIOUS
  <2>1. stack[f].kind \in {"list", "com", "expr"}
    BY <1>1, CallsAre DEF Call
  <2>2. CASE stack[f].kind \in {"com", "expr"}
    BY <1>1, <1>3, <1>4, <2>2 DEF Nesting, ScopesEnd
  <2>3. CASE stack[f].kind = "list"
    <3>1. ASSUME Doomed PROVE itr <= stack[f].end
      <4>0. PICK d \in DOMAIN stack : stack[d].kind = "expr"
        BY <3>1 DEF Doomed
      <4>1. stack[d].kind = "expr" /\ itr <= stack[d].end
        BY <1>1, <4>0 DEF ScopesEnd
      <4>2. f < d
        <5>1. ~(d < f)
          BY <1>1, <2>3, <4>1 DEF CallsInOrder
        <5>. QED
          BY <1>1, <2>3, <4>1, <5>1, CallsAre
      <4>3. stack[d].end <= stack[f].end
        BY <1>5, <4>2
      <4>. QED
        BY <1>1, <4>1, <4>3, CallsAre
    <3>. QED
      BY <1>4, <2>3, <3>1 DEF Nesting
  <2>. QED
    BY <2>1, <2>2, <2>3
<1>7. \A f \in DOMAIN stack : \A g \in 1 .. f - 1 : g \in DOMAIN stack /\ g < f
  BY <1>1, CallsAre
<1>. QED
  BY <1>5, <1>6, <1>7

(***************************************************************************)
(* Whatever the tokens are, the iterator stays inside the list or one      *)
(* behind it, the calls read what they should and what is put into the     *)
(* table is well formed (PchorParser::parse and the functions it calls).   *)
(***************************************************************************)
THEOREM TypesHold == Spec => []TypeOK
<1>1. TokensInv => TypeOK
  BY DEF TokensInv
<1>. QED
  BY <1>1, TokensInvariant, PTL

(***************************************************************************)
(* Every call reads inside its own scope, and that lies in its caller's,   *)
(* unless the token that ends one was read as a receiver (line 736).  The  *)
(* step over the end of a parenthesis (line 986) is no second exception:   *)
(* where it passes something else, the index expression never ends.        *)
(***************************************************************************)
THEOREM ScopesAreNested == Spec => []ScopesNested
<1>1. TokensInv => ScopesNested
  BY InsideNested
<1>. QED
  BY <1>1, TokensInvariant, PTL

(***************************************************************************)
(* No tokens crash the parser, but with a receiver that was not declared   *)
(* before its use (line 736) or an identifier at the very end (lines 386   *)
(* and 420).                                                               *)
(***************************************************************************)
THEOREM CrashesHaveCause == Spec => []CrashOnlyForCause
<1>1. TokensInv => CrashOnlyForCause
  BY DEF TokensInv, CrashOnlyForCause
<1>. QED
  BY <1>1, TokensInvariant, PTL

----------------------------------------------------------------------------
(***************************************************************************)
(* Index expressions.  What stands between the bracket at a and b is the   *)
(* beginning of one, with extremes of the index i.                         *)
(***************************************************************************)
Prefix(a, b, i) ==
  /\ a \in Nat /\ a > 1 /\ b \in Nat /\ a <= b
  /\ At(a) = "["
  /\ \A p \in a .. b - 1 : Joins(p, i)
  /\ \A p \in a .. b : At(p) # "]" /\ Depth(a, p) >= 0

(* What was read last where an operand or an operator comes next. *)
Due(what, p) ==
  /\ what = "operand" => At(p) \in {"[", "(", "+", "-"}
  /\ what = "operator" => At(p) = ")" \/ Value(p)

LEMMA PrefixStarts ==
  ASSUME NEW a \in Nat, a > 1, At(a) = "["
  PROVE  \A i : Prefix(a, a, i) /\ Depth(a, a) = 0 /\ ~Extremes(a, a)
<1>1. Depth(a, a) = 0
  BY DepthSplit DEF Weight
<1>. QED
  BY <1>1 DEF Prefix, Extremes

LEMMA PrefixGrows ==
  ASSUME NEW a, NEW b, NEW i, Prefix(a, b, i), Joins(b, i), At(b + 1) # "]",
         Depth(a, b) + Weight(b + 1) >= 0
  PROVE  /\ Prefix(a, b + 1, i) /\ Depth(a, b + 1) = Depth(a, b) + Weight(b + 1)
         /\ Depth(a, b) \in Int
         /\ Extremes(a, b + 1) <=> Extremes(a, b) \/ At(b + 1) \in {"min", "max"}
<1>1. a \in Nat /\ a > 1 /\ b \in Nat /\ b + 1 \in Nat /\ a <= b /\ b < b + 1
  BY DEF Prefix
<1>2. /\ Depth(a, b + 1) = Depth(a, b) + Depth(b + 1, b + 1)
      /\ Depth(b + 1, b + 1) = Weight(b + 1)
      /\ Depth(a, b) \in Int
  BY <1>1, DepthSplit, Zenon
<1>3. \A p \in a .. b + 1 : p \in a .. b \/ p = b + 1
  BY <1>1
<1>4. \A p \in a .. (b + 1) - 1 : p \in a .. b - 1 \/ p = b
  BY <1>1
<1>5. Prefix(a, b + 1, i)
  BY <1>1, <1>2, <1>3, <1>4 DEF Prefix
<1>6. b + 1 \in a .. b + 1 /\ \A p \in a .. b : p \in a .. b + 1
  BY <1>1
<1>. QED
  BY <1>2, <1>3, <1>5, <1>6 DEF Extremes

(* Text read does not change. *)
LEMMA SameExpr ==
  ASSUME UNCHANGED tokens
  PROVE  /\ \A p, i : Joins(p, i)' <=> Joins(p, i)
         /\ \A p : Value(p)' <=> Value(p)
         /\ \A what, p : Due(what, p)' <=> Due(what, p)
         /\ \A a, b : Extremes(a, b)' <=> Extremes(a, b)
         /\ \A a, b, i : Prefix(a, b, i)' <=> Prefix(a, b, i)
<1>1. \A p : At(p)' = At(p)
  BY DEF At
<1>2. \A p : Value(p)' <=> Value(p)
  BY <1>1 DEF Value, Is
<1>3. \A p, i : Joins(p, i)' <=> Joins(p, i)
  BY <1>1, <1>2 DEF Joins
<1>4. \A a, b, i : Prefix(a, b, i)' <=> Prefix(a, b, i)
  BY <1>1, <1>3, SameText DEF Prefix
<1>. QED
  BY <1>1, <1>2, <1>3, <1>4 DEF Due, Extremes

----------------------------------------------------------------------------
(***************************************************************************)
(* What has been read of the index of what was used last, while calls read *)
(* it: as many parentheses are open as there are calls inside them.        *)
(***************************************************************************)
IndexHere == table[Last(uses).name].index

Within(a) ==
  /\ Prefix(a, itr - 1, IndexHere)
  /\ At(a - 1) = Last(uses).name
  /\ Last(uses).index = IF Extremes(a, itr - 1) THEN IndexHere ELSE "plain"
  /\ Due(Top.expects, itr - 1)
  /\ \A c \in DOMAIN stack : stack[c].kind = "com" => Depth(a, itr - 1) = Len(stack) - c - 1

OfIndex == \A f \in DOMAIN stack : stack[f].kind = "expr" => stack[f].name = IndexHere

Unindexed == In("com") /\ Top.expects \in {"->", ":", "<"} /\ Last(uses).index = "none"

ExprInv ==
  /\ In("expr") => /\ uses # << >> /\ Last(uses).index # "none" /\ Last(uses).name # NoName
                   /\ OfIndex
                   /\ Doomed \/ \E a : Within(a)
  /\ Unindexed => Last(uses).name = NoName \/ At(itr - 1) = Last(uses).name
  /\ IndexesWellFormed

LEMMA ValueIs ==
  ASSUME tokens \in Seq(Token), NEW p, Value(p)
  PROVE  /\ At(p) \notin {"[", "]", "(", ")", "+", "-", "min", "max"}
         /\ Weight(p) = 0
<1>1. At(p) \in Name \/ At(p) \in Literals
  BY AtText DEF Value
<1>2. At(p) \notin {"[", "]", "(", ")", "+", "-", "min", "max"}
  BY <1>1, NamesApart DEF Literals
<1>. QED
  BY <1>2 DEF Weight

LEMMA JoinsOperand ==
  ASSUME tokens \in Seq(Token), NEW p, Due("operand", p), Value(p + 1) \/ At(p + 1) \in {"(", "min", "max"}
  PROVE  \A i : Joins(p, i)
<1>1. At(p) \in {"[", "(", "+", "-"}
  BY DEF Due
<1>2. ~Value(p)
  BY <1>1, ValueIs
<1>. QED
  BY <1>1, <1>2 DEF Joins

LEMMA JoinsOperator ==
  ASSUME tokens \in Seq(Token), NEW p, Due("operator", p), At(p + 1) \in {"+", "-", ")", "]"}
  PROVE  \A i : Joins(p, i)
<1>1. At(p) = ")" \/ Value(p)
  BY DEF Due
<1>2. At(p) \notin {"[", "(", "+", "-", "min", "max"}
  BY <1>1, ValueIs
<1>. QED
  BY <1>2 DEF Joins

(* The communication whose index is read, and nothing but the expression above it. *)
LEMMA ComBelow ==
  ASSUME TypeOK, tokens \in Seq(Token), CallsInOrder, stack # << >>, Top.kind = "expr"
  PROVE  \E c \in DOMAIN stack : c < Len(stack) /\ stack[c].kind = "com"
<1>1. /\ DOMAIN stack = 1 .. Len(stack) /\ Len(stack) \in Nat /\ Len(stack) \in DOMAIN stack
      /\ stack[Len(stack)].kind = "expr"
  BY CallsAre, TopIs
<1>. DEFINE S == {f \in DOMAIN stack : stack[f].kind = "expr"}
<1>2. S \subseteq Nat /\ Len(stack) \in S
  BY <1>1
<1>3. PICK f \in S : \A x \in S : f <= x
  BY <1>2, Least
<1>4. f \in DOMAIN stack /\ stack[f].kind = "expr" /\ f # 1 /\ f <= Len(stack)
  BY <1>1, <1>3 DEF CallsInOrder
<1>5. f - 1 \in DOMAIN stack /\ f - 1 < f /\ f - 1 < Len(stack)
  BY <1>1, <1>4
<1>6. f - 1 \notin S
  BY <1>1, <1>3, <1>4, <1>5
<1>7. stack[f - 1].kind \in {"com", "expr"}
  BY <1>4, <1>5 DEF CallsInOrder
<1>. QED
  BY <1>5, <1>6, <1>7

LEMMA WeightInt == \A p : Weight(p) \in Int
  BY DEF Weight

(* One token more, when every token read opens or closes as many calls as parentheses. *)
LEMMA WithinOn ==
  ASSUME tokens \in Seq(Token), itr \in Nat, NEW a, Within(a), UNCHANGED <<tokens, table, uses>>,
         itr' = itr + 1, Joins(itr - 1, IndexHere), At(itr) \notin {"]", "min", "max"},
         stack' \in Seq(Call), Len(stack') > 0, Len(stack) \in Nat,
         Due(stack'[Len(stack')].expects, itr),
         Len(stack') = Len(stack) + Weight(itr), Depth(a, itr - 1) + Weight(itr) >= 0,
         \A c \in DOMAIN stack' : stack'[c].kind = "com" => c \in DOMAIN stack /\ stack[c].kind = "com",
         DOMAIN stack = 1 .. Len(stack)
  PROVE  Within(a)'
<1>. DEFINE i == IndexHere
            b == itr - 1
<1>1. Prefix(a, b, i)
  BY DEF Within
<1>2. b + 1 = itr /\ itr' - 1 = itr
  OBVIOUS
<1>3. Joins(b, i) /\ At(b + 1) # "]" /\ Depth(a, b) + Weight(b + 1) >= 0
  BY <1>2
<1>. HIDE DEF i, b
<1>4. /\ Prefix(a, b + 1, i) /\ Depth(a, b + 1) = Depth(a, b) + Weight(b + 1)
      /\ Depth(a, b) \in Int
      /\ Extremes(a, b + 1) <=> Extremes(a, b) \/ At(b + 1) \in {"min", "max"}
  BY <1>1, <1>3, PrefixGrows
<1>5. /\ Prefix(a, itr, i) /\ Depth(a, itr) = Depth(a, b) + Weight(itr)
      /\ Extremes(a, itr) <=> Extremes(a, b)
  BY <1>2, <1>4
<1>6. IndexHere' = i
  BY DEF IndexHere, i, Last
<1>7. Last(uses)' = Last(uses)
  BY DEF Last
<1>8. Top' = stack'[Len(stack')]
  BY TopAfter
<1>9. \A c \in DOMAIN stack : stack[c].kind = "com" => Depth(a, b) = Len(stack) - c - 1
  BY DEF Within, b
<1>10. \A c \in DOMAIN stack' : stack'[c].kind = "com" => Depth(a, itr) = Len(stack') - c - 1
  <2>. SUFFICES ASSUME NEW c \in DOMAIN stack', stack'[c].kind = "com"
                PROVE  Depth(a, itr) = Len(stack') - c - 1
    OBVIOUS
  <2>1. c \in Nat /\ Depth(a, b) = Len(stack) - c - 1
    BY <1>9
  <2>2. Weight(itr) \in Int
    BY WeightInt
  <2>. QED
    BY <1>5, <2>1, <2>2
<1>11. At(a - 1) = Last(uses).name /\ Last(uses).index = IF Extremes(a, b) THEN i ELSE "plain"
  BY DEF Within, i, b
<1>12. At(a - 1)' = At(a - 1)
  BY DEF At
<1>13. Prefix(a, itr - 1, IndexHere)'
  BY <1>2, <1>5, <1>6, SameExpr
<1>14. Extremes(a, itr - 1)' <=> Extremes(a, b)
  BY <1>2, <1>5, SameExpr
<1>15. Due(Top.expects, itr - 1)'
  BY <1>2, <1>8, SameExpr
<1>16. Depth(a, itr - 1)' = Depth(a, itr)
  BY <1>2, SameText
<1>. QED
  BY <1>6, <1>7, <1>10, <1>11, <1>12, <1>13, <1>14, <1>15, <1>16 DEF Within

(* There is nothing to say outside of a communication. *)
LEMMA Elsewhere ==
  ASSUME ~In("expr")', ~In("com")'
  PROVE  ExprInv'
  BY DEF ExprInv, Unindexed, IndexesWellFormed, IndexedAlready

LEMMA ExprGoesOn ==
  ASSUME In("expr")', uses' # << >>, Last(uses)'.index # "none", Last(uses)'.name # NoName, OfIndex',
         Doomed' \/ \E a : Within(a)'
  PROVE  ExprInv'
<1>1. ~In("com")'
  BY DEF In
<1>. QED
  BY <1>1 DEF ExprInv, Unindexed, IndexesWellFormed, IndexedAlready

LEMMA ExprToken ==
  ASSUME TokensInv, ExprInv, In("expr"), UNCHANGED <<tokens, table, uses, outcome>>, itr' = itr + 1,
         stack' \in Seq(Call), Len(stack') > 0, stack'[Len(stack')].kind = "expr",
         Doomed => Doomed',
         \A f \in DOMAIN stack' :
           /\ stack'[f].kind = "com" => f \in DOMAIN stack /\ stack[f].kind = "com"
           /\ stack'[f].kind = "expr" => stack'[f].name = IndexHere,
         \/ Doomed'
         \/ /\ At(itr) \notin {"]", "min", "max"} /\ Len(stack') = Len(stack) + Weight(itr)
            /\ Due(stack'[Len(stack')].expects, itr)
            /\ \A a : Within(a) => /\ Joins(itr - 1, IndexHere)
                                   /\ Depth(a, itr - 1) + Weight(itr) >= 0
  PROVE  ExprInv'
<1>1. stack' # << >> /\ Top' = stack'[Len(stack')]
  BY TopAfter
<1>2. In("expr")'
  BY <1>1 DEF In
<1>3. Last(uses)' = Last(uses) /\ IndexHere' = IndexHere
  BY DEF Last, IndexHere
<1>4. /\ uses # << >> /\ Last(uses).index # "none" /\ Last(uses).name # NoName
      /\ Doomed \/ \E a : Within(a)
  BY DEF ExprInv
<1>5. OfIndex'
  BY <1>3 DEF OfIndex
<1>6. /\ tokens \in Seq(Token) /\ itr \in Nat /\ Len(stack) \in Nat /\ DOMAIN stack = 1 .. Len(stack)
  <2>1. TypeOK /\ tokens \in Seq(Token)
    BY DEF TokensInv
  <2>. QED
    BY <2>1, CallsAre
<1>7. ASSUME ~Doomed' PROVE \E a : Within(a)'
  <2>1. PICK a : Within(a)
    BY <1>4, <1>7
  <2>2. /\ At(itr) \notin {"]", "min", "max"} /\ Len(stack') = Len(stack) + Weight(itr)
        /\ Due(stack'[Len(stack')].expects, itr)
        /\ Joins(itr - 1, IndexHere) /\ Depth(a, itr - 1) + Weight(itr) >= 0
    BY <1>7, <2>1
  <2>3. Within(a)'
    BY <1>6, <2>1, <2>2, WithinOn
  <2>. QED
    BY <2>3
<1>. QED
  BY <1>2, <1>3, <1>4, <1>5, <1>7, ExprGoesOn

LEMMA ReadAtomIndex ==
  ASSUME TokensInv, ExprInv, ReadAtom
  PROVE  ExprInv'
<1>1. /\ TypeOK /\ tokens \in Seq(Token) /\ CallsInOrder /\ ScopesEnd /\ Scopes
      /\ In("expr") /\ stack # << >> /\ Top.kind = "expr" /\ Top.expects = "operand"
      /\ itr # Top.end /\ Value(itr)
      /\ stack' = Expecting("operator")
      /\ UNCHANGED <<tokens, table, uses, outcome>> /\ itr' = itr + 1
  BY DEF TokensInv, Scopes, ReadAtom, ReadsAtom, Operand, In, Advance, Value, parserVars
<1>2. /\ At(itr) \notin {"[", "]", "(", ")", "+", "-", "min", "max"}
      /\ Weight(itr) = 0
  BY <1>1, ValueIs
<1>3. /\ SameCalls /\ stack'[Len(stack)].expects = "operator" /\ Len(stack') = Len(stack)
      /\ Len(stack) > 0 /\ Len(stack) \in Nat /\ stack' \in Seq(Call) /\ DOMAIN stack' = DOMAIN stack
      /\ Len(stack) \in DOMAIN stack /\ Top = stack[Len(stack)] /\ itr \in Nat
  BY <1>1, ExpectingSame, TopIs, CallsAre DEF SameCalls
<1>4. Doomed => Doomed'
  <2>1. itr < Top.end
    BY <1>1, InExpr
  <2>2. At(itr) \notin {".", "end", RightBrace, "(", ")"}
    <3>1. At(itr) \in Name \/ At(itr) \in Literals
      BY <1>1, AtText DEF Value
    <3>. QED
      BY <3>1, NamesApart, Braces DEF Literals
  <2>. QED
    BY <1>1, <1>3, <2>1, <2>2, ReadOneOn
<1>5. \A f \in DOMAIN stack' :
        /\ stack'[f].kind = "com" => f \in DOMAIN stack /\ stack[f].kind = "com"
        /\ stack'[f].kind = "expr" => stack'[f].name = IndexHere
  BY <1>1, <1>3 DEF SameCalls, ExprInv, OfIndex
<1>6. ASSUME NEW a, Within(a) PROVE Joins(itr - 1, IndexHere) /\ Depth(a, itr - 1) + Weight(itr) >= 0
  <2>1. Due("operand", itr - 1) /\ Prefix(a, itr - 1, IndexHere)
    BY <1>1, <1>6 DEF Within
  <2>2. Depth(a, itr - 1) >= 0 /\ Depth(a, itr - 1) \in Int
    BY <2>1, DepthSplit DEF Prefix
  <2>3. Joins(itr - 1, IndexHere)
    <3>1. (itr - 1) + 1 = itr
      BY <1>3
    <3>. QED
      BY <1>1, <2>1, <3>1, JoinsOperand
  <2>. QED
    BY <1>2, <2>2, <2>3
<1>7. Due(stack'[Len(stack')].expects, itr) /\ stack'[Len(stack')].kind = "expr"
      /\ Len(stack') = Len(stack) + Weight(itr)
  BY <1>1, <1>2, <1>3 DEF Due, SameCalls
<1>. QED
  BY <1>1, <1>2, <1>3, <1>4, <1>5, <1>6, <1>7, ExprToken

LEMMA PassSignIndex ==
  ASSUME TokensInv, ExprInv, PassSign
  PROVE  ExprInv'
<1>1. /\ TypeOK /\ tokens \in Seq(Token) /\ CallsInOrder /\ ScopesEnd /\ Scopes
      /\ In("expr") /\ stack # << >> /\ Top.kind = "expr" /\ Top.expects = "operator"
      /\ itr # Top.end /\ At(itr) \in {"+", "-"}
      /\ stack' = Expecting("operand")
      /\ UNCHANGED <<tokens, table, uses, outcome>> /\ itr' = itr + 1
  BY DEF TokensInv, Scopes, PassSign, ReadsSign, Operator, In, Advance, parserVars
<1>2. /\ At(itr) \notin {"[", "]", "(", ")", "min", "max"} /\ Weight(itr) = 0
  BY <1>1 DEF Weight
<1>3. /\ SameCalls /\ stack'[Len(stack)].expects = "operand" /\ Len(stack') = Len(stack)
      /\ Len(stack) > 0 /\ Len(stack) \in Nat /\ stack' \in Seq(Call) /\ DOMAIN stack' = DOMAIN stack
      /\ Len(stack) \in DOMAIN stack /\ Top = stack[Len(stack)] /\ itr \in Nat
  BY <1>1, ExpectingSame, TopIs, CallsAre DEF SameCalls
<1>4. Doomed => Doomed'
  <2>1. itr < Top.end
    BY <1>1, InExpr
  <2>2. At(itr) \notin {".", "end", RightBrace, "(", ")"}
    BY <1>1, Braces
  <2>. QED
    BY <1>1, <1>3, <2>1, <2>2, ReadOneOn
<1>5. \A f \in DOMAIN stack' :
        /\ stack'[f].kind = "com" => f \in DOMAIN stack /\ stack[f].kind = "com"
        /\ stack'[f].kind = "expr" => stack'[f].name = IndexHere
  BY <1>1, <1>3 DEF SameCalls, ExprInv, OfIndex
<1>6. ASSUME NEW a, Within(a) PROVE Joins(itr - 1, IndexHere) /\ Depth(a, itr - 1) + Weight(itr) >= 0
  <2>1. Due("operator", itr - 1) /\ Prefix(a, itr - 1, IndexHere)
    BY <1>1, <1>6 DEF Within
  <2>2. Depth(a, itr - 1) >= 0 /\ Depth(a, itr - 1) \in Int
    BY <2>1, DepthSplit DEF Prefix
  <2>3. Joins(itr - 1, IndexHere)
    <3>1. (itr - 1) + 1 = itr
      BY <1>3
    <3>. QED
      BY <1>1, <2>1, <3>1, JoinsOperator
  <2>. QED
    BY <1>2, <2>2, <2>3
<1>7. Due(stack'[Len(stack')].expects, itr) /\ stack'[Len(stack')].kind = "expr"
      /\ Len(stack') = Len(stack) + Weight(itr)
  BY <1>1, <1>2, <1>3 DEF Due, SameCalls
<1>. QED
  BY <1>1, <1>2, <1>3, <1>4, <1>5, <1>6, <1>7, ExprToken

LEMMA BeginParenIndex ==
  ASSUME TokensInv, ExprInv, BeginParen
  PROVE  ExprInv'
<1>1. /\ TypeOK /\ tokens \in Seq(Token)
      /\ In("expr") /\ stack # << >> /\ Top.kind = "expr" /\ Top.expects = "operand" /\ At(itr) = "("
      /\ UNCHANGED <<tokens, table, uses, outcome>> /\ itr' = itr + 1
  BY DEF TokensInv, BeginParen, ReadsParen, Operand, In, Advance, parserVars
<1>2. Weight(itr) = 1
  BY <1>1 DEF Weight
<1>3. PICK c \in Call :
        /\ c.kind = "expr" /\ c.expects = "operand" /\ c.name = Top.name
        /\ Pushed(c)
  BY ParenBegins
<1>4. Doomed => Doomed'
  BY ParenBegins
<1>5. /\ stack' \in Seq(Call) /\ Len(stack') = Len(stack) + 1 /\ Len(stack) \in Nat
      /\ DOMAIN stack = 1 .. Len(stack) /\ DOMAIN stack' = 1 .. Len(stack) + 1
      /\ stack'[Len(stack')] = c /\ Len(stack) \in DOMAIN stack /\ Top = stack[Len(stack)] /\ itr \in Nat
  BY <1>1, <1>3, CallsAre, TopIs DEF Pushed
<1>6. Top.name = IndexHere
  BY <1>1, <1>5 DEF ExprInv, OfIndex
<1>7. ASSUME NEW f \in DOMAIN stack'
      PROVE  /\ stack'[f].kind = "com" => f \in DOMAIN stack /\ stack[f].kind = "com"
             /\ stack'[f].kind = "expr" => stack'[f].name = IndexHere
  <2>1. f = Len(stack') \/ f \in DOMAIN stack
    BY <1>5
  <2>2. f \in DOMAIN stack => stack'[f].kind = stack[f].kind /\ stack'[f].name = stack[f].name
    BY <1>3 DEF Pushed
  <2>. QED
    BY <1>1, <1>3, <1>5, <1>6, <2>1, <2>2 DEF ExprInv, OfIndex
<1>8. ASSUME NEW a, Within(a) PROVE Joins(itr - 1, IndexHere) /\ Depth(a, itr - 1) + Weight(itr) >= 0
  <2>1. Due("operand", itr - 1) /\ Prefix(a, itr - 1, IndexHere)
    BY <1>1, <1>8 DEF Within
  <2>2. Depth(a, itr - 1) >= 0 /\ Depth(a, itr - 1) \in Int
    BY <2>1, DepthSplit DEF Prefix
  <2>3. Joins(itr - 1, IndexHere)
    <3>1. (itr - 1) + 1 = itr
      BY <1>5
    <3>. QED
      BY <1>1, <2>1, <3>1, JoinsOperand
  <2>. QED
    BY <1>2, <2>2, <2>3
<1>9. Due(stack'[Len(stack')].expects, itr) /\ stack'[Len(stack')].kind = "expr"
      /\ Len(stack') = Len(stack) + Weight(itr) /\ At(itr) \notin {"]", "min", "max"} /\ Len(stack') > 0
  BY <1>1, <1>2, <1>3, <1>5 DEF Due
<1>. QED
  BY <1>1, <1>4, <1>5, <1>7, <1>8, <1>9, ExprToken

(* Behind parentheses the number of open ones tells that they were well closed. *)
LEMMA EndParenIndex ==
  ASSUME TokensInv, ExprInv, EndParen
  PROVE  ExprInv'
<1>1. /\ TypeOK /\ tokens \in Seq(Token) /\ CallsInOrder /\ ScopesEnd /\ Scopes
      /\ In("expr") /\ stack # << >> /\ Top.kind = "expr" /\ Top.expects = "operator" /\ Nested
      /\ stack' = Front(stack) /\ itr' = itr + 1
      /\ UNCHANGED <<tokens, table, uses, outcome>>
  BY DEF TokensInv, Scopes, EndParen, Complete, Operator, In, Advance, parserVars
<1>2. /\ DOMAIN stack = 1 .. Len(stack) /\ Len(stack) \in Nat /\ Len(stack) \in DOMAIN stack
      /\ Top = stack[Len(stack)] /\ itr \in Nat /\ Len(stack) > 1
  BY <1>1, CallsAre, TopIs, ListBelow
<1>3. Popped
  BY <1>1, PoppedCall
<1>4. /\ stack' \in Seq(Call) /\ Len(stack') = Len(stack) - 1 /\ Len(stack') > 0
      /\ DOMAIN stack' = 1 .. Len(stack) - 1
      /\ \A f \in DOMAIN stack' : f \in DOMAIN stack /\ stack'[f] = stack[f]
      /\ stack'[Len(stack')] = stack[Len(stack) - 1] /\ Len(stack) - 1 \in DOMAIN stack
      /\ Len(stack) - 1 < Len(stack)
  BY <1>2, <1>3 DEF Popped
<1>5. stack'[Len(stack')].kind = "expr" /\ stack'[Len(stack')].expects = "operator"
  BY <1>1, <1>4, <1>2 DEF Nested, CallsInOrder
<1>6. ASSUME NEW f \in DOMAIN stack'
      PROVE  /\ stack'[f].kind = "com" => f \in DOMAIN stack /\ stack[f].kind = "com"
             /\ stack'[f].kind = "expr" => stack'[f].name = IndexHere
  BY <1>1, <1>4 DEF ExprInv, OfIndex
<1>7. CASE itr # Top.end
  <2>1. Doomed'
    BY <1>1, <1>2, <1>3, <1>7, ParenDoomed
  <2>. QED
    BY <1>1, <1>4, <1>5, <1>6, <2>1, ExprToken
<1>8. CASE itr = Top.end
  <2>1. At(itr) = ")"
    <3>1. InParens(Len(stack))
      BY <1>1, <1>2 DEF InParens, Nested
    <3>2. \E p \in 1 .. itr - 1 : Balances(p, itr)
      BY <1>1, <1>2, <1>8, <3>1 DEF ScopesEnd
    <3>. QED
      BY <3>2 DEF Balances
  <2>2. Doomed => Doomed'
    BY <1>1, <1>3, <1>8, <2>1, ParenStaysDoomed
  <2>3. Weight(itr) = 0 - 1
    BY <2>1 DEF Weight
  <2>4. ASSUME NEW a, Within(a) PROVE Joins(itr - 1, IndexHere) /\ Depth(a, itr - 1) + Weight(itr) >= 0
    <3>1. Due("operator", itr - 1)
      BY <1>1, <2>4 DEF Within
    <3>2. PICK c \in DOMAIN stack : c < Len(stack) /\ stack[c].kind = "com"
      BY <1>1, ComBelow
    <3>3. c # Len(stack) - 1 /\ c \in Nat
      BY <1>1, <1>2, <3>2 DEF Nested
    <3>4. Depth(a, itr - 1) = Len(stack) - c - 1
      BY <2>4, <3>2 DEF Within
    <3>5. Depth(a, itr - 1) + Weight(itr) >= 0
      BY <1>2, <2>3, <3>2, <3>3, <3>4
    <3>6. Joins(itr - 1, IndexHere)
      <4>1. (itr - 1) + 1 = itr
        BY <1>2
      <4>. QED
        BY <1>1, <2>1, <3>1, <4>1, JoinsOperator
    <3>. QED
      BY <3>5, <3>6
  <2>5. Due(stack'[Len(stack')].expects, itr) /\ Len(stack') = Len(stack) + Weight(itr)
        /\ At(itr) \notin {"]", "min", "max"}
    BY <1>2, <1>4, <1>5, <2>1, <2>3 DEF Due
  <2>. QED
    BY <1>1, <1>4, <1>5, <1>6, <2>2, <2>4, <2>5, ExprToken
<1>. QED
  BY <1>7, <1>8

(* Using the index of what was used last. *)
LEMMA IndexedLast ==
  ASSUME TypeOK, uses # << >>, NEW x, uses' = IndexedBy(x)
  PROVE  uses' # << >> /\ Last(uses)'.name = Last(uses).name /\ Last(uses)'.index = x
<1>1. uses \in Seq(Declarations!Use) /\ Len(uses) > 0 /\ Len(uses) \in DOMAIN uses
  BY DEF TypeOK
<1>2. uses' = [uses EXCEPT ![Len(uses)] = [@ EXCEPT !.index = x]]
  BY DEF IndexedBy
<1>3. uses[Len(uses)] \in Declarations!Use
  BY <1>1
<1>4. Len(uses') = Len(uses) /\ uses'[Len(uses)] = [uses[Len(uses)] EXCEPT !.index = x]
  BY <1>1, <1>2
<1>5. uses' # << >>
  BY <1>1, <1>4
<1>6. Last(uses) = uses[Len(uses)] /\ Last(uses)' = uses'[Len(uses)]
  BY <1>1, <1>4, <1>5 DEF Last
<1>. QED
  BY <1>3, <1>4, <1>5, <1>6 DEF Declarations!Use

LEMMA BeginIndexExprIndex ==
  ASSUME TokensInv, ExprInv, BeginIndexExpr
  PROVE  ExprInv'
<1>1. /\ TypeOK /\ tokens \in Seq(Token) /\ CallsInOrder
      /\ outcome = "running" /\ stack # << >> /\ Top.kind = "com" /\ Top.expects \in {"->", ":", "<"}
      /\ At(itr) = "[" /\ Last(uses).name # NoName /\ Last(uses).index = "none"
      /\ UNCHANGED <<tokens, table, outcome>> /\ itr' = itr + 1 /\ uses' = IndexedBy("plain")
  BY DEF TokensInv, BeginIndexExpr, ReadsIndexExpr, OpensBracket, In, Advance, parserVars
<1>2. PICK c \in Call :
        /\ c.kind = "expr" /\ c.expects = "operand" /\ c.name = table[Last(uses).name].index
        /\ Pushed(c)
  BY IndexBegins
<1>3. /\ stack' \in Seq(Call) /\ Len(stack') = Len(stack) + 1 /\ Len(stack) \in Nat
      /\ DOMAIN stack = 1 .. Len(stack) /\ DOMAIN stack' = 1 .. Len(stack) + 1
      /\ stack'[Len(stack')] = c /\ Len(stack) \in DOMAIN stack /\ Top = stack[Len(stack)]
      /\ itr \in Nat /\ itr > 0
      /\ \A f \in DOMAIN stack : stack'[f].kind = stack[f].kind
  BY <1>1, <1>2, CallsAre, TopIs DEF Pushed
<1>4. stack' # << >> /\ Top' = c
  BY <1>3, TopAfter
<1>5. In("expr")'
  BY <1>1, <1>2, <1>4 DEF In
<1>6. uses # << >> /\ uses' # << >> /\ Last(uses)'.name = Last(uses).name /\ Last(uses)'.index = "plain"
  BY <1>1, IndexBegins, IndexedLast
<1>7. IndexHere' = IndexHere /\ c.name = IndexHere
  BY <1>1, <1>2, <1>6 DEF IndexHere
<1>8. \A f \in DOMAIN stack : stack[f].kind # "expr" /\ (stack[f].kind = "com" => f = Len(stack))
  BY <1>1, <1>3, NotDoomed DEF CallsInOrder
<1>9. OfIndex'
  <2>1. \A f \in DOMAIN stack' : f = Len(stack') \/ f \in DOMAIN stack
    BY <1>3
  <2>. QED
    BY <1>3, <1>7, <1>8, <2>1 DEF OfIndex
<1>10. At(itr - 1) = Last(uses).name /\ itr > 1
  <2>1. At(itr - 1) = Last(uses).name
    BY <1>1 DEF ExprInv, Unindexed, In
  <2>2. itr # 1
    <3>1. At(0) = "beyond"
      BY <1>1, AtText DEF At
    <3>2. Last(uses).name # "beyond"
      <4>1. uses \in Seq(Declarations!Use) /\ Len(uses) \in DOMAIN uses /\ Last(uses) = uses[Len(uses)]
        BY <1>1, <1>6 DEF TypeOK, Last
      <4>2. Last(uses) \in Declarations!Use
        BY <4>1
      <4>3. Last(uses).name \in Name
        BY <1>1, <4>2 DEF Declarations!Use
      <4>. QED
        BY <4>3, NamesApart
    <3>. QED
      BY <2>1, <3>1, <3>2
  <2>. QED
    BY <1>3, <2>1, <2>2
<1>11. Prefix(itr, itr, IndexHere) /\ Depth(itr, itr) = 0 /\ ~Extremes(itr, itr)
  BY <1>1, <1>3, <1>10, PrefixStarts
<1>12. PICK a \in Nat : a = itr
  BY <1>3
<1>13. Within(a)'
  <2>1. itr' - 1 = itr
    BY <1>1, <1>3
  <2>2. Prefix(a, itr - 1, IndexHere)'
    BY <1>1, <1>7, <1>11, <1>12, <2>1, SameExpr
  <2>3. At(a - 1)' = Last(uses)'.name
    BY <1>1, <1>6, <1>10, <1>12 DEF At
  <2>4. ~Extremes(a, itr - 1)'
    BY <1>1, <1>11, <1>12, <2>1, SameExpr
  <2>5. Due(Top.expects, itr - 1)'
    <3>1. Due("operand", itr)
      BY <1>1 DEF Due
    <3>. QED
      BY <1>1, <1>2, <1>4, <2>1, <3>1, SameExpr
  <2>6. Depth(a, itr - 1)' = 0
    BY <1>1, <1>11, <1>12, <2>1, SameText
  <2>7. \A f \in DOMAIN stack' : stack'[f].kind = "com" => 0 = Len(stack') - f - 1
    <3>1. \A f \in DOMAIN stack' : f = Len(stack') \/ f \in DOMAIN stack
      BY <1>3
    <3>. QED
      BY <1>2, <1>3, <1>8, <3>1
  <2>. QED
    BY <1>6, <2>2, <2>3, <2>4, <2>5, <2>6, <2>7 DEF Within
<1>14. Last(uses)'.index # "none" /\ Last(uses)'.name # NoName
  BY <1>1, <1>6
<1>. QED
  BY <1>5, <1>6, <1>9, <1>13, <1>14, ExprGoesOn

(* The four tokens of an extreme. *)
LEMMA ExtremeGrows ==
  ASSUME tokens \in Seq(Token), NEW a, NEW b, NEW i \in Name, Prefix(a, b, i), Due("operand", b),
         At(b + 1) \in {"min", "max"}, At(b + 2) = "(", At(b + 3) = i, At(b + 4) = ")",
         Is(b + 3, "Identifier")
  PROVE  /\ Prefix(a, b + 4, i) /\ Depth(a, b + 4) = Depth(a, b) /\ Extremes(a, b + 4)
         /\ Due("operator", b + 4)
<1>1. a \in Nat /\ a > 1 /\ b \in Nat /\ a <= b /\ b \in a .. b
  BY DEF Prefix
<1>2. /\ (b + 1) + 1 = b + 2 /\ (b + 2) + 1 = b + 3 /\ (b + 3) + 1 = b + 4
      /\ (b + 1) + 2 = b + 3 /\ (b + 1) + 3 = b + 4
  BY <1>1
<1>3. At(b + 3) \notin {"[", "]", "(", ")", "+", "-", "min", "max"} /\ Value(b + 3)
  BY ValueIs DEF Value
<1>4. /\ Weight(b + 1) = 0 /\ Weight(b + 2) = 1 /\ Weight(b + 3) = 0 /\ Weight(b + 4) = 0 - 1
  BY <1>3 DEF Weight
<1>5. Depth(a, b) \in Int /\ Depth(a, b) >= 0
  <2>1. Depth(a, b) \in Int
    BY <1>1, DepthSplit
  <2>. QED
    BY <1>1, <2>1 DEF Prefix
<1>6. ~Value(b + 1) /\ ~Value(b + 2)
  BY ValueIs
<1>7. Joins(b, i) /\ Joins(b + 1, i) /\ Joins(b + 2, i) /\ Joins(b + 3, i)
  <2>1. Joins(b, i)
    BY JoinsOperand
  <2>2. Joins(b + 1, i)
    BY <1>2, <1>6 DEF Joins
  <2>3. Joins(b + 2, i)
    BY <1>2, <1>3, <1>6 DEF Joins
  <2>4. Joins(b + 3, i)
    BY <1>2, <1>3 DEF Joins
  <2>. QED
    BY <2>1, <2>2, <2>3, <2>4
<1>8. /\ Prefix(a, b + 1, i) /\ Depth(a, b + 1) = Depth(a, b) /\ Extremes(a, b + 1)
  BY <1>4, <1>5, <1>7, PrefixGrows
<1>9. /\ Prefix(a, b + 2, i) /\ Depth(a, b + 2) = Depth(a, b) + 1 /\ Extremes(a, b + 2)
  BY <1>2, <1>4, <1>5, <1>7, <1>8, PrefixGrows
<1>10. /\ Prefix(a, b + 3, i) /\ Depth(a, b + 3) = Depth(a, b) + 1 /\ Extremes(a, b + 3)
  BY <1>2, <1>3, <1>4, <1>5, <1>7, <1>9, PrefixGrows
<1>11. /\ Prefix(a, b + 4, i) /\ Depth(a, b + 4) = Depth(a, b) /\ Extremes(a, b + 4)
  <2>1. Depth(a, b + 3) + Weight(b + 4) = Depth(a, b) /\ At(b + 4) # "]"
    BY <1>4, <1>5, <1>10
  <2>2. /\ Prefix(a, (b + 3) + 1, i)
        /\ Depth(a, (b + 3) + 1) = Depth(a, b + 3) + Weight((b + 3) + 1)
        /\ Extremes(a, (b + 3) + 1) <=> Extremes(a, b + 3) \/ At((b + 3) + 1) \in {"min", "max"}
    BY <1>2, <1>5, <1>7, <1>10, <2>1, PrefixGrows
  <2>. QED
    BY <1>2, <1>10, <2>1, <2>2
<1>. QED
  BY <1>11 DEF Due

LEMMA ReadExtremeIndex ==
  ASSUME TokensInv, ExprInv, ReadExtreme
  PROVE  ExprInv'
<1>1. /\ TypeOK /\ tokens \in Seq(Token) /\ CallsInOrder /\ ScopesEnd /\ Scopes
      /\ In("expr") /\ stack # << >> /\ Top.kind = "expr" /\ Top.expects = "operand"
      /\ itr # Top.end /\ At(itr) \in {"min", "max"} /\ At(itr + 1) = "("
      /\ resolve(At(itr + 2), "Index") /\ At(itr + 3) = ")" /\ At(itr + 2) = Top.name
      /\ stack' = Expecting("operator") /\ itr' = itr + 4 /\ uses' = IndexedBy(At(itr + 2))
      /\ UNCHANGED <<tokens, table, outcome>>
  BY DEF TokensInv, Scopes, ReadExtreme, ReadsExtreme, Operand, In, parserVars
<1>2. At(itr + 2) \in Name /\ Is(itr + 2, "Identifier")
  BY <1>1, ResolvedName, AtText
<1>3. /\ SameCalls /\ stack'[Len(stack)].expects = "operator" /\ Len(stack') = Len(stack)
      /\ Len(stack) > 0 /\ Len(stack) \in Nat /\ stack' \in Seq(Call) /\ DOMAIN stack' = DOMAIN stack
      /\ Len(stack) \in DOMAIN stack /\ Top = stack[Len(stack)] /\ itr \in Nat
  BY <1>1, ExpectingSame, TopIs, CallsAre DEF SameCalls
<1>4. Doomed => Doomed'
  <2>1. /\ \A q \in itr .. itr + 3 : Depth(itr, q) >= 0
        /\ Depth(itr, itr + 3) = 0
    BY <1>1, <1>2, ExtremeInside
  <2>2. itr' - 1 = itr + 3 /\ itr' \in Nat /\ itr < itr'
    BY <1>1, <1>3
  <2>. QED
    BY <1>1, <1>3, <2>1, <2>2, DoomedStays
<1>5. /\ uses # << >> /\ uses' # << >> /\ Last(uses)'.name = Last(uses).name
      /\ Last(uses)'.index = At(itr + 2) /\ Last(uses).name # NoName
  BY <1>1, IndexedLast DEF ExprInv
<1>6. IndexHere' = IndexHere /\ At(itr + 2) = IndexHere
  <2>1. IndexHere' = IndexHere
    BY <1>1, <1>5 DEF IndexHere
  <2>2. Top.name = IndexHere
    BY <1>1, <1>3 DEF ExprInv, OfIndex
  <2>. QED
    BY <1>1, <2>1, <2>2
<1>7. OfIndex'
  BY <1>1, <1>3, <1>6, SMTT(20) DEF SameCalls, ExprInv, OfIndex
<1>8. stack' # << >> /\ Top' = stack'[Len(stack)] /\ Top'.kind = "expr" /\ Top'.expects = "operator"
  BY <1>1, <1>3, TopAfter DEF SameCalls
<1>9. In("expr")'
  BY <1>1, <1>8 DEF In
<1>10. ASSUME ~Doomed PROVE \E a : Within(a)'
  <2>1. PICK a : Within(a)
    BY <1>1, <1>10 DEF ExprInv
  <2>. DEFINE b == itr - 1
  <2>2. /\ b + 1 = itr /\ b + 2 = itr + 1 /\ b + 3 = itr + 2 /\ b + 4 = itr + 3 /\ itr' - 1 = b + 4
    BY <1>1, <1>3
  <2>3. Prefix(a, b, IndexHere) /\ Due("operand", b)
    BY <1>1, <2>1 DEF Within
  <2>. HIDE DEF b
  <2>4. /\ Prefix(a, b + 4, IndexHere) /\ Depth(a, b + 4) = Depth(a, b) /\ Extremes(a, b + 4)
        /\ Due("operator", b + 4)
    BY <1>1, <1>2, <1>6, <2>2, <2>3, ExtremeGrows
  <2>5. Prefix(a, itr - 1, IndexHere)'
    BY <1>1, <1>6, <2>2, <2>4, SameExpr
  <2>6. Extremes(a, itr - 1)'
    BY <1>1, <2>2, <2>4, SameExpr
  <2>7. Due(Top.expects, itr - 1)'
    BY <1>1, <1>8, <2>2, <2>4, SameExpr
  <2>8. Depth(a, itr - 1)' = Depth(a, b)
    BY <1>1, <2>2, <2>4, SameText
  <2>9. At(a - 1)' = Last(uses)'.name
    BY <1>1, <1>5, <2>1 DEF At, Within
  <2>10. \A c \in DOMAIN stack' : stack'[c].kind = "com" => Depth(a, b) = Len(stack') - c - 1
    BY <1>3, <2>1 DEF Within, SameCalls, b
  <2>11. Last(uses)'.index = IndexHere'
    BY <1>5, <1>6
  <2>12. Within(a)'
    BY <2>5, <2>6, <2>7, <2>8, <2>9, <2>10, <2>11 DEF Within
  <2>. QED
    BY <2>12
<1>11. Last(uses)'.index # "none" /\ Last(uses)'.name # NoName
  <2>1. "none" \notin Name
    BY TokenParserAssumption DEF Declarations!ParserAssumption
  <2>. QED
    BY <1>2, <1>5, <2>1
<1>. QED
  BY <1>4, <1>5, <1>7, <1>9, <1>10, <1>11, ExprGoesOn

(* The bracket that closes what has been read. *)
LEMMA IndexEnds ==
  ASSUME tokens \in Seq(Token), NEW a, NEW b, NEW i, Prefix(a, b, i), Joins(b, i),
         At(b + 1) = "]", Depth(a, b) = 0
  PROVE  IsIndexExpr(a, b + 1, i) /\ (Extremes(a, b + 1) <=> Extremes(a, b))
<1>1. a \in Nat /\ b \in Nat /\ b + 1 \in Nat /\ a <= b /\ b < b + 1 /\ (b + 1) - 1 = b /\ a <= b + 1
      /\ At(a) = "["
  BY DEF Prefix
<1>2. \A p \in a .. b - 1 : Joins(p, i)
  BY DEF Prefix
<1>3. \A p \in a .. b : p \in a .. b - 1 \/ p = b
  BY <1>1
<1>4. ASSUME NEW p \in a .. b
      PROVE  Joins(p, i) /\ At(p) # "]" /\ Occurrences(")", a, p) <= Occurrences("(", a, p)
  <2>1. At(p) # "]" /\ Depth(a, p) >= 0
    BY DEF Prefix
  <2>2. Occurrences(")", a, p) \in Nat /\ Occurrences("(", a, p) \in Nat
    BY <1>1, OccurrencesNat
  <2>3. Occurrences(")", a, p) <= Occurrences("(", a, p)
    BY <2>1, <2>2 DEF Depth
  <2>. QED
    BY <1>2, <1>3, <2>1, <2>3
<1>5. Occurrences(")", a, b + 1) = Occurrences("(", a, b + 1)
  <2>1. Depth(a, b + 1) = Depth(a, b) + Weight(b + 1)
    <3>1. Depth(a, b + 1) = Depth(a, b) + Depth(b + 1, b + 1) /\ Depth(b + 1, b + 1) = Weight(b + 1)
      BY <1>1, DepthSplit, Zenon
    <3>. QED
      BY <3>1
  <2>2. Weight(b + 1) = 0
    BY DEF Weight
  <2>3. Occurrences(")", a, b + 1) \in Nat /\ Occurrences("(", a, b + 1) \in Nat
    BY <1>1, OccurrencesNat
  <2>4. Depth(a, b + 1) = 0
    BY <2>1, <2>2
  <2>. QED
    BY <2>3, <2>4 DEF Depth
<1>6. IsIndexExpr(a, b + 1, i)
  BY <1>1, <1>4, <1>5 DEF IsIndexExpr
<1>7. \A p \in a .. b + 1 : p \in a .. b \/ p = b + 1
  BY <1>1
<1>8. \A p \in a .. b : p \in a .. b + 1
  BY <1>1
<1>. QED
  BY <1>6, <1>7, <1>8 DEF Extremes

LEMMA SameIndexExpr ==
  ASSUME UNCHANGED tokens
  PROVE  \A a, b, i : IsIndexExpr(a, b, i)' <=> IsIndexExpr(a, b, i)
<1>1. \A p : At(p)' = At(p)
  BY DEF At
<1>2. \A t, p, q : Occurrences(t, p, q)' = Occurrences(t, p, q)
  BY <1>1 DEF Occurrences
<1>. QED
  BY <1>1, <1>2, SameExpr DEF IsIndexExpr

LEMMA EndIndexExprIndex ==
  ASSUME TokensInv, ExprInv, EndIndexExpr
  PROVE  ExprInv'
<1>1. /\ TypeOK /\ tokens \in Seq(Token) /\ CallsInOrder /\ ScopesEnd
      /\ In("expr") /\ stack # << >> /\ Top.kind = "expr" /\ Top.expects = "operator" /\ itr = Top.end
      /\ stack[Len(stack) - 1].kind # "expr"
      /\ stack' = Front(stack) /\ itr' = itr + 1
      /\ UNCHANGED <<tokens, table, uses, outcome>>
  BY DEF TokensInv, EndIndexExpr, ReadsIndexEnd, Complete, Operator, Nested, In, Advance, parserVars
<1>2. /\ DOMAIN stack = 1 .. Len(stack) /\ Len(stack) \in Nat /\ Len(stack) \in DOMAIN stack
      /\ Top = stack[Len(stack)] /\ itr \in Nat /\ Len(stack) > 1
      /\ Len(stack) - 1 \in DOMAIN stack /\ Len(stack) - 1 < Len(stack) /\ (itr - 1) + 1 = itr
  <2>1. Len(stack) > 1
    BY <1>1, ListBelow
  <2>. QED
    BY <1>1, <2>1, CallsAre, TopIs
<1>3. At(itr) = "]"
  <2>1. ~InParens(Len(stack))
    BY <1>1 DEF InParens
  <2>. QED
    BY <1>1, <1>2, <2>1 DEF ScopesEnd
<1>4. stack[Len(stack) - 1].kind = "com"
  BY <1>1, <1>2 DEF CallsInOrder
<1>5. stack' \in Seq(Call) /\ Len(stack') = Len(stack) - 1 /\ Len(stack') > 0
      /\ stack'[Len(stack')] = stack[Len(stack) - 1]
  <2>1. Popped
    BY <1>1, PoppedCall
  <2>. QED
    BY <1>2, <2>1 DEF Popped
<1>6. Top' = stack[Len(stack) - 1] /\ Top'.kind = "com"
  BY <1>4, <1>5, TopAfter
<1>7. ~Doomed
  <2>1. ASSUME NEW d \in DOMAIN stack, stack[d].kind = "expr", NEW q \in itr .. stack[d].end - 1
        PROVE  FALSE
    <3>1. d = Len(stack)
      <4>1. d # Len(stack) - 1 /\ d < Len(stack) - 1 => stack[Len(stack) - 1].kind = "expr"
        BY <1>1, <1>2, <2>1 DEF CallsInOrder
      <4>. QED
        BY <1>1, <1>2, <1>4, <2>1, <4>1
    <3>2. stack[d].end = itr
      BY <1>1, <1>2, <3>1
    <3>. QED
      BY <1>2, <2>1, <3>2
  <2>. QED
    BY <2>1 DEF Doomed
<1>8. PICK a : Within(a)
  BY <1>1, <1>7 DEF ExprInv
<1>. DEFINE i == IndexHere
<1>9. /\ Prefix(a, itr - 1, i) /\ Due("operator", itr - 1) /\ Depth(a, itr - 1) = 0
      /\ At(a - 1) = Last(uses).name
      /\ Last(uses).index = IF Extremes(a, itr - 1) THEN i ELSE "plain"
  <2>1. Depth(a, itr - 1) = Len(stack) - (Len(stack) - 1) - 1
    BY <1>2, <1>4, <1>8 DEF Within
  <2>. QED
    BY <1>1, <1>2, <1>8, <2>1 DEF Within
<1>. HIDE DEF i
<1>10. IsIndexExpr(a, itr, i) /\ (Extremes(a, itr) <=> Extremes(a, itr - 1))
  <2>1. Joins(itr - 1, i)
    BY <1>1, <1>2, <1>3, <1>9, JoinsOperator
  <2>. DEFINE b == itr - 1
  <2>2. Prefix(a, b, i) /\ Joins(b, i) /\ At(b + 1) = "]" /\ Depth(a, b) = 0 /\ b + 1 = itr
    BY <1>2, <1>3, <1>9, <2>1
  <2>. HIDE DEF b
  <2>3. IsIndexExpr(a, b + 1, i) /\ (Extremes(a, b + 1) <=> Extremes(a, b))
    BY <1>1, <2>2, IndexEnds
  <2>. QED
    BY <2>2, <2>3 DEF b
<1>11. a \in 2 .. itr' - 1 /\ itr' - 1 = itr
  BY <1>1, <1>2, <1>9, SMTT(20) DEF Prefix
<1>12. /\ (At(a - 1) = Last(uses).name)'
       /\ (IsIndexExpr(a, itr - 1, table[Last(uses).name].index))'
       /\ (Last(uses).index = IF Extremes(a, itr - 1) THEN table[Last(uses).name].index ELSE "plain")'
  <2>1. (table[Last(uses).name].index)' = i /\ (Last(uses).name)' = Last(uses).name
        /\ (Last(uses).index)' = Last(uses).index
    BY <1>1 DEF i, IndexHere, Last
  <2>2. At(a - 1)' = At(a - 1)
    BY <1>1 DEF At
  <2>3. IsIndexExpr(a, itr - 1, table[Last(uses).name].index)'
    BY <1>1, <1>10, <1>11, <2>1, SameIndexExpr
  <2>4. Extremes(a, itr - 1)' <=> Extremes(a, itr - 1)
    BY <1>1, <1>10, <1>11, SameExpr
  <2>. QED
    BY <1>9, <2>1, <2>2, <2>3, <2>4
<1>13. IndexesWellFormed'
  BY <1>11, <1>12 DEF IndexesWellFormed
<1>14. ~In("expr")' /\ (Last(uses)'.index # "none")
  <2>1. Last(uses)' = Last(uses)
    BY <1>1 DEF Last
  <2>. QED
    BY <1>1, <1>6, <2>1 DEF In, ExprInv
<1>. QED
  BY <1>13, <1>14 DEF ExprInv, Unindexed

----------------------------------------------------------------------------
(* In a communication, before there is an index. *)
LEMMA ComGoesOn ==
  ASSUME UNCHANGED tokens, stack' \in Seq(Call), Len(stack') > 0, stack'[Len(stack')].kind = "com",
         \/ stack'[Len(stack')].expects \notin {"->", ":", "<"}
         \/ /\ Last(uses)'.index = "none"
            /\ Last(uses)'.name = NoName \/ At(itr' - 1) = Last(uses)'.name
  PROVE  ExprInv'
<1>1. Top' = stack'[Len(stack')]
  BY TopAfter
<1>2. ~In("expr")'
  BY <1>1 DEF In
<1>3. At(itr - 1)' = At(itr' - 1)
  BY DEF At
<1>. QED
  BY <1>1, <1>2, <1>3 DEF ExprInv, Unindexed, IndexesWellFormed, IndexedAlready

LEMMA LastUse ==
  ASSUME NEW s, NEW use, s \in Seq(Declarations!Use), use \in Declarations!Use
  PROVE  Last(Append(s, use)) = use /\ Last(<<use>>) = use
  BY DEF Last

LEMMA BeginCommunicationIndex ==
  ASSUME TokensInv, ExprInv, BeginCommunication
  PROVE  ExprInv'
<1>1. /\ TypeOK /\ tokens \in Seq(Token) /\ CallsInOrder /\ ScopesEnd
      /\ stack # << >> /\ resolve(At(itr), "Participant") /\ Stops(".") # {}
      /\ stack' = Append(stack, Frame("com", Min(Stops(".")), "->", NoName))
      /\ UNCHANGED tokens /\ itr' = itr + 1 /\ uses' = <<[name |-> At(itr), index |-> "none"]>>
  BY DEF TokensInv, BeginCommunication, ReadsSender, InList, In, Advance
<1>. DEFINE e == Min(Stops("."))
            c == Frame("com", e, "->", NoName)
<1>2. e \in DOMAIN tokens
  BY <1>1, StopIs
<1>. HIDE DEF e
<1>3. c \in Call /\ c.kind = "com" /\ c.expects = "->"
  BY <1>2, FrameIs
<1>4. stack' = Append(stack, c)
  BY <1>1 DEF e
<1>. HIDE DEF c
<1>5. stack' \in Seq(Call) /\ Len(stack') > 0 /\ stack'[Len(stack')] = c
  <2>1. Pushed(c) /\ Len(stack) \in Nat
    BY <1>1, <1>3, <1>4, PushedCall, CallsAre
  <2>. QED
    BY <2>1 DEF Pushed
<1>6. Last(uses)'.index = "none" /\ Last(uses)'.name = At(itr)
  BY <1>1 DEF Last
<1>7. itr' - 1 = itr
  BY <1>1, CallsAre
<1>. QED
  BY <1>1, <1>3, <1>5, <1>6, <1>7, ComGoesOn

LEMMA PassPunctuationIndex ==
  ASSUME TokensInv, ExprInv, PassPunctuation
  PROVE  ExprInv'
<1>1. /\ TypeOK /\ tokens \in Seq(Token) /\ stack # << >> /\ Top.kind = "com" /\ UNCHANGED tokens
  BY DEF TokensInv, PassPunctuation, ReadsPunctuation, In, Advance
<1>2. PICK s \in Punctuation : stack' = Expecting(s[2])
  BY DEF PassPunctuation, Advance
<1>3. s[2] \in {"receiver", "channel", "type"}
  BY DEF Punctuation
<1>4. SameCalls /\ stack'[Len(stack)].expects = s[2]
  BY <1>1, <1>2, <1>3, ExpectingSame
<1>5. /\ stack' \in Seq(Call) /\ Len(stack') > 0 /\ stack'[Len(stack')].kind = "com"
      /\ stack'[Len(stack')].expects \notin {"->", ":", "<"}
  BY <1>1, <1>3, <1>4, TopIs DEF SameCalls
<1>. QED
  BY <1>1, <1>5, ComGoesOn

LEMMA ReadTypeIndex ==
  ASSUME TokensInv, ExprInv, ReadType
  PROVE  ExprInv'
<1>1. /\ TypeOK /\ tokens \in Seq(Token) /\ stack # << >> /\ Top.kind = "com" /\ UNCHANGED tokens
      /\ stack' = Expecting(">")
  BY DEF TokensInv, ReadType, ReadsType, In, Advance
<1>2. SameCalls /\ stack'[Len(stack)].expects = ">"
  BY <1>1, ExpectingSame
<1>3. /\ stack' \in Seq(Call) /\ Len(stack') > 0 /\ stack'[Len(stack')].kind = "com"
      /\ stack'[Len(stack')].expects \notin {"->", ":", "<"}
  BY <1>1, <1>2, TopIs DEF SameCalls
<1>. QED
  BY <1>1, <1>3, ComGoesOn

LEMMA ReadReceiverIndex ==
  ASSUME TokensInv, ExprInv, ReadReceiver
  PROVE  ExprInv'
<1>1. /\ TypeOK /\ tokens \in Seq(Token) /\ stack # << >> /\ Top.kind = "com" /\ UNCHANGED tokens
      /\ stack' = Expecting(":") /\ itr' = itr + 1
      /\ uses' = Append(uses, [name |-> Receiver, index |-> "none"])
  BY DEF TokensInv, ReadReceiver, ReadsReceiver, In, Advance
<1>2. SameCalls /\ stack'[Len(stack)].expects = ":"
  BY <1>1, ExpectingSame
<1>3. stack' \in Seq(Call) /\ Len(stack') > 0 /\ stack'[Len(stack')].kind = "com"
  BY <1>1, <1>2, TopIs DEF SameCalls
<1>4. Last(uses)'.index = "none" /\ Last(uses)'.name = Receiver
  <2>1. uses \in Seq(Declarations!Use)
    BY <1>1 DEF TypeOK
  <2>. QED
    BY <1>1, <2>1 DEF Last
<1>5. itr' - 1 = itr
  BY <1>1, CallsAre
<1>6. Receiver = NoName \/ At(itr' - 1) = Receiver
  BY <1>5 DEF Receiver
<1>. QED
  BY <1>1, <1>3, <1>4, <1>6, ComGoesOn

LEMMA ReadChannelIndex ==
  ASSUME TokensInv, ExprInv, ReadChannel
  PROVE  ExprInv'
<1>1. /\ TypeOK /\ tokens \in Seq(Token) /\ stack # << >> /\ Top.kind = "com" /\ UNCHANGED tokens
      /\ stack' = Expecting("<") /\ itr' = itr + 1
      /\ uses' = Append(uses, [name |-> At(itr), index |-> "none"])
  BY DEF TokensInv, ReadChannel, ReadsChannel, In, Advance
<1>2. SameCalls /\ stack'[Len(stack)].expects = "<"
  BY <1>1, ExpectingSame
<1>3. stack' \in Seq(Call) /\ Len(stack') > 0 /\ stack'[Len(stack')].kind = "com"
  BY <1>1, <1>2, TopIs DEF SameCalls
<1>4. Last(uses)'.index = "none" /\ Last(uses)'.name = At(itr)
  <2>1. uses \in Seq(Declarations!Use)
    BY <1>1 DEF TypeOK
  <2>. QED
    BY <1>1, <2>1 DEF Last
<1>5. itr' - 1 = itr
  BY <1>1, CallsAre
<1>. QED
  BY <1>1, <1>3, <1>4, <1>5, ComGoesOn

----------------------------------------------------------------------------
(* The steps of a list, and those outside of a global type. *)
LEMMA ListIndex ==
  ASSUME TokensInv,
         \/ PassSeparator \/ AddGlobalType \/ BeginForEach \/ EndForEach \/ EndCommunication
  PROVE  ExprInv'
<1>1. TypeOK /\ tokens \in Seq(Token) /\ CallsInOrder /\ ScopesEnd
  BY DEF TokensInv
<1>2. CASE PassSeparator \/ AddGlobalType
  <2>1. stack # << >> /\ Top.kind = "list" /\ UNCHANGED stack
    BY <1>2 DEF PassSeparator, ReadsSeparator, AddGlobalType, ReadsRef, InList, In, Advance
  <2>2. ~In("expr")' /\ ~In("com")'
    BY <2>1 DEF In, Top, Last
  <2>. QED
    BY <2>2, Elsewhere
<1>3. CASE BeginForEach
  <2>1. /\ stack # << >> /\ ReadsForEach /\ Closings(LeftBrace, RightBrace, Brace) # {}
        /\ stack' = Append(stack, Frame("list", Min(Closings(LeftBrace, RightBrace, Brace)), "item", NoName))
    BY <1>3 DEF BeginForEach, ReadsForEach, ReadsIteration, InList, In
  <2>. DEFINE c == Frame("list", Min(Closings(LeftBrace, RightBrace, Brace)), "item", NoName)
  <2>2. c.kind = "list"
    BY DEF Frame
  <2>3. stack \in Seq(Call) /\ stack' = Append(stack, c)
    BY <1>1, <2>1, CallsAre
  <2>. HIDE DEF c
  <2>4. stack' # << >> /\ Last(stack') = c
    BY <2>3 DEF Last
  <2>5. Top'.kind = "list"
    BY <2>2, <2>4 DEF Top
  <2>6. ~In("expr")' /\ ~In("com")'
    BY <2>5 DEF In
  <2>. QED
    BY <2>6, Elsewhere
<1>4. CASE EndForEach \/ EndCommunication
  <2>1. stack # << >> /\ stack' = Front(stack) /\ Top.kind \in {"list", "com"}
        /\ Len(stack) > 1
    <3>1. CASE EndForEach
      BY <3>1 DEF EndForEach, In, Advance
    <3>2. CASE EndCommunication
      <4>1. stack # << >> /\ stack' = Front(stack) /\ Top.kind = "com"
        BY <3>2 DEF EndCommunication, ReadsComEnd, In, Advance
      <4>. QED
        BY <1>1, <4>1, ListBelow
    <3>. QED
      BY <1>4, <3>1, <3>2
  <2>2. /\ DOMAIN stack = 1 .. Len(stack) /\ Len(stack) \in Nat /\ Len(stack) \in DOMAIN stack
        /\ Top = stack[Len(stack)] /\ Popped
        /\ Len(stack) - 1 \in DOMAIN stack /\ Len(stack) - 1 < Len(stack)
    BY <1>1, <2>1, CallsAre, TopIs, PoppedCall
  <2>3. /\ stack' \in Seq(Call) /\ Len(stack') > 0
        /\ stack'[Len(stack')] = stack[Len(stack) - 1]
    BY <2>1, <2>2 DEF Popped
  <2>4. stack[Len(stack) - 1].kind = "list"
    BY <1>1, <2>1, <2>2 DEF CallsInOrder
  <2>5. Top'.kind = "list"
    BY <2>3, <2>4, TopAfter
  <2>6. ~In("expr")' /\ ~In("com")'
    BY <2>5 DEF In
  <2>. QED
    BY <2>6, Elsewhere
<1>. QED
  BY <1>2, <1>3, <1>4

LEMMA OuterIndex ==
  ASSUME TokensInv,
         \/ parseIndexDecl \/ parseParticipantDecl \/ parseChannelDecl \/ BeginGlobalType
         \/ EndGlobalType \/ Finish \/ Throw \/ Crash
  PROVE  ExprInv'
<1>1. CASE parseIndexDecl \/ parseParticipantDecl \/ parseChannelDecl \/ EndGlobalType
  <2>1. stack' = << >>
    BY <1>1 DEF parseIndexDecl, ReadsIndexDecl, parseParticipantDecl, parseChannelDecl, parseIndexed,
                ReadsIndexed, EndGlobalType, Outer
  <2>2. ~In("expr")' /\ ~In("com")'
    BY <2>1 DEF In
  <2>. QED
    BY <2>2, Elsewhere
<1>2. CASE BeginGlobalType
  <2>1. stack' = <<Frame("list", Min(GlobalEnds(itr + 2)), "item", At(itr))>>
    BY <1>2 DEF BeginGlobalType
  <2>. DEFINE c == Frame("list", Min(GlobalEnds(itr + 2)), "item", At(itr))
  <2>2. c.kind = "list"
    BY DEF Frame
  <2>. HIDE DEF c
  <2>3. Last(stack') = c
    BY <2>1 DEF Last, c
  <2>4. ~In("expr")' /\ ~In("com")'
    BY <2>2, <2>3 DEF In, Top
  <2>. QED
    BY <2>4, Elsewhere
<1>3. CASE Finish \/ Throw \/ Crash
  <2>1. outcome' # "running"
    BY <1>3 DEF Finish, Throw, Crash, Stop
  <2>2. ~In("expr")' /\ ~In("com")'
    BY <2>1 DEF In
  <2>. QED
    BY <2>2, Elsewhere
<1>. QED
  BY <1>1, <1>2, <1>3

LEMMA UnchangedIndex ==
  ASSUME ExprInv, UNCHANGED vars
  PROVE  ExprInv'
<1>1. /\ UNCHANGED table /\ UNCHANGED tokens /\ UNCHANGED itr /\ UNCHANGED stack /\ UNCHANGED uses
      /\ UNCHANGED outcome
  BY DEF vars
<1>2. \A p : At(p)' = At(p)
  BY <1>1, SameText
<1>3. Top' = Top /\ Last(uses)' = Last(uses) /\ IndexHere' = IndexHere
  BY <1>1 DEF Top, Last, IndexHere
<1>4. \A k : In(k)' <=> In(k)
  BY <1>1, <1>3 DEF In
<1>5. Doomed' <=> Doomed
  BY <1>1, SameText DEF Doomed
<1>6. OfIndex' <=> OfIndex
  BY <1>1, <1>3 DEF OfIndex
<1>7. \A a : Within(a)' <=> Within(a)
  <2>. TAKE a
  <2>1. Prefix(a, itr - 1, IndexHere)' <=> Prefix(a, itr - 1, IndexHere)
    BY <1>1, <1>3, SameExpr
  <2>2. Extremes(a, itr - 1)' <=> Extremes(a, itr - 1)
    BY <1>1, SameExpr
  <2>3. Due(Top.expects, itr - 1)' <=> Due(Top.expects, itr - 1)
    BY <1>1, <1>3, SameExpr
  <2>4. Depth(a, itr - 1)' = Depth(a, itr - 1)
    BY <1>1, SameText
  <2>. QED
    BY <1>1, <1>2, <1>3, <2>1, <2>2, <2>3, <2>4 DEF Within
<1>8. Unindexed' <=> Unindexed
  BY <1>1, <1>3, <1>4 DEF Unindexed
<1>9. IndexesWellFormed' <=> IndexesWellFormed
  <2>1. IndexedAlready' <=> IndexedAlready
    BY <1>1, <1>3, <1>4 DEF IndexedAlready
  <2>2. \A a : IsIndexExpr(a, itr - 1, table[Last(uses).name].index)'
                 <=> IsIndexExpr(a, itr - 1, table[Last(uses).name].index)
    BY <1>1, <1>3, SameIndexExpr
  <2>3. \A a : Extremes(a, itr - 1)' <=> Extremes(a, itr - 1)
    BY <1>1, SameExpr
  <2>. QED
    BY <1>1, <1>2, <1>3, <2>1, <2>2, <2>3 DEF IndexesWellFormed
<1>. QED
  BY <1>1, <1>2, <1>3, <1>4, <1>5, <1>6, <1>7, <1>8, <1>9 DEF ExprInv

LEMMA IndexInvariant == Spec => [](TokensInv /\ ExprInv)
<1>1. Init => ExprInv
  BY DEF Init, ExprInv, Unindexed, In, IndexesWellFormed, IndexedAlready
<1>2. ASSUME TokensInv, ExprInv, [Next \/ Done]_vars PROVE ExprInv'
  <2>1. CASE Next
    <3>1. CASE parseIndexDecl \/ parseParticipantDecl \/ parseChannelDecl \/ BeginGlobalType
                 \/ EndGlobalType \/ Finish \/ Throw \/ Crash
      BY <1>2, <3>1, OuterIndex
    <3>2. CASE PassSeparator \/ AddGlobalType \/ BeginForEach \/ EndForEach \/ EndCommunication
      BY <1>2, <3>2, ListIndex
    <3>3. CASE BeginCommunication \/ PassPunctuation \/ ReadReceiver \/ ReadChannel \/ ReadType
      BY <1>2, <3>3, BeginCommunicationIndex, PassPunctuationIndex, ReadReceiverIndex,
         ReadChannelIndex, ReadTypeIndex
    <3>4. CASE BeginIndexExpr \/ ReadAtom \/ ReadExtreme \/ BeginParen \/ PassSign \/ EndParen
                 \/ EndIndexExpr
      BY <1>2, <3>4, BeginIndexExprIndex, ReadAtomIndex, ReadExtremeIndex, BeginParenIndex,
         PassSignIndex, EndParenIndex, EndIndexExprIndex
    <3>. QED
      BY <2>1, <3>1, <3>2, <3>3, <3>4 DEF Next
  <2>2. CASE UNCHANGED vars
    BY <1>2, <2>2, UnchangedIndex
  <2>. QED
    BY <1>2, <2>1, <2>2 DEF Done
<1>. QED
  BY <1>1, <1>2, TokensInvariant, PTL DEF Spec

(***************************************************************************)
(* What is read of an index is all of an index expression, whatever the    *)
(* tokens are, and min and max in it are of the index that was declared    *)
(* (parseIndexExpr, parseArithmeticExpr and parsePrimaryArithmeticExpr):   *)
(* the token passed unseen behind parentheses (line 986) is the ")" that   *)
(* closes them wherever the expression comes to its end.                   *)
(***************************************************************************)
THEOREM IndexesAreExpressions == Spec => []IndexesWellFormed
<1>1. ExprInv => IndexesWellFormed
  BY DEF ExprInv
<1>. QED
  BY <1>1, IndexInvariant, PTL
=============================================================================
