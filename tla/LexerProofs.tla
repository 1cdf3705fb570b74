----------------------------- MODULE LexerProofs -----------------------------
(***************************************************************************)
(* Proofs about the wrapper and the lexer, for files of any length: no     *)
(* token is Unknown, the line of a token is its line in the file, and the  *)
(* tokens are those of the file.                                           *)
(***************************************************************************)
EXTENDS Lexer, LeastElement, SequenceTheorems, FiniteSetTheorems

(***************************************************************************)
(* Counting the ends of line of an interval.                               *)
(***************************************************************************)
LEMMA NewlinesFinite ==
  ASSUME NEW s, NEW a \in Nat, NEW b \in Int
  PROVE  IsFiniteSet({j \in a .. b : s[j] = "NL"})
<1>1. IsFiniteSet(a .. b)
  BY FS_Interval
<1>. QED
  BY <1>1, FS_Subset

LEMMA NewlinesNat ==
  ASSUME NEW s, NEW a \in Nat, NEW b \in Int
  PROVE  Newlines(s, a, b) \in Nat
BY NewlinesFinite, FS_CardinalityType DEF Newlines

(* An interval in two parts. *)
LEMMA NewlinesSplit ==
  ASSUME NEW s, NEW a \in Nat, NEW m \in Nat, NEW b \in Int, a <= m, m <= b + 1
  PROVE  Newlines(s, a, b) = Newlines(s, a, m - 1) + Newlines(s, m, b)
<1>. DEFINE L == {j \in a .. m - 1 : s[j] = "NL"}
            R == {j \in m .. b : s[j] = "NL"}
<1>1. IsFiniteSet(L) /\ IsFiniteSet(R)
  BY NewlinesFinite
<1>2. L \cap R = {} /\ {j \in a .. b : s[j] = "NL"} = L \cup R
  OBVIOUS
<1>3. Cardinality(L \cup R) = Cardinality(L) + Cardinality(R) - Cardinality(L \cap R)
  BY <1>1, FS_Union
<1>4. Cardinality(L \cap R) = 0
  BY <1>2, FS_EmptySet
<1>5. Cardinality(L) \in Nat /\ Cardinality(R) \in Nat
  BY <1>1, FS_CardinalityType
<1>. QED
  BY <1>2, <1>3, <1>4, <1>5 DEF Newlines

(* What has no end of line counts for nothing. *)
LEMMA NewlinesNone ==
  ASSUME NEW s, NEW a \in Nat, NEW b \in Int, \A j \in a .. b : s[j] # "NL"
  PROVE  Newlines(s, a, b) = 0
<1>1. {j \in a .. b : s[j] = "NL"} = {}
  OBVIOUS
<1>. QED
  BY <1>1, FS_EmptySet DEF Newlines

LEMMA NewlinesZero ==
  ASSUME NEW s
  PROVE  Newlines(s, 1, 0) = 0
BY NewlinesNone

(* What is the same character for character has the same ends of line. *)
LEMMA NewlinesSame ==
  ASSUME NEW s, NEW t, NEW a \in Nat, NEW b \in Int, \A j \in a .. b : s[j] = t[j]
  PROVE  Newlines(s, a, b) = Newlines(t, a, b)
<1>1. {j \in a .. b : s[j] = "NL"} = {j \in a .. b : t[j] = "NL"}
  OBVIOUS
<1>. QED
  BY <1>1 DEF Newlines

(* One character more. *)
LEMMA NewlinesMore ==
  ASSUME NEW s, NEW b \in Nat
  PROVE  Newlines(s, 1, b + 1) = Newlines(s, 1, b) + (IF s[b + 1] = "NL" THEN 1 ELSE 0)
<1>1. Newlines(s, 1, b + 1) = Newlines(s, 1, b) + Newlines(s, b + 1, b + 1)
  <2>. DEFINE m == b + 1
  <2>1. m \in Nat /\ 1 <= m /\ m <= m + 1 /\ m - 1 = b /\ m \in Int /\ 1 \in Nat
    OBVIOUS
  <2>. HIDE DEF m
  <2>2. Newlines(s, 1, m) = Newlines(s, 1, m - 1) + Newlines(s, m, m)
    BY <2>1, NewlinesSplit
  <2>. QED
    BY <2>1, <2>2 DEF m
<1>2. CASE s[b + 1] = "NL"
  <2>1. {j \in b + 1 .. b + 1 : s[j] = "NL"} = {b + 1}
    BY <1>2
  <2>2. Newlines(s, b + 1, b + 1) = 1
    BY <2>1, FS_Singleton DEF Newlines
  <2>. QED
    BY <1>1, <1>2, <2>2
<1>3. CASE s[b + 1] # "NL"
  <2>1. Newlines(s, b + 1, b + 1) = 0
    BY <1>3, NewlinesNone
  <2>2. Newlines(s, 1, b) \in Nat
    BY NewlinesNat
  <2>. QED
    BY <1>1, <1>3, <2>1, <2>2
<1>. QED
  BY <1>2, <1>3

(***************************************************************************)
(* The searches: the position found is the first of its kind, or the end.  *)
(***************************************************************************)
LEMMA FirstIs ==
  ASSUME NEW S \in SUBSET Nat, NEW otherwise
  PROVE  IF S = {} THEN First(S, otherwise) = otherwise
                   ELSE /\ First(S, otherwise) \in S
                        /\ \A k \in S : First(S, otherwise) <= k
<1>1. CASE S # {}
  <2>1. \E j \in S : \A k \in S : j <= k
    BY <1>1, Least
  <2>. QED
    BY <1>1, <2>1 DEF First
<1>. QED
  BY <1>1 DEF First

LEMMA SearchIs ==
  ASSUME buffer \in Seq(Char), NEW p \in 1 .. Len(buffer), NEW S
  PROVE  /\ PastAll(p, S) \in p .. End
         /\ \A j \in p .. PastAll(p, S) - 1 : buffer[j] \in S
         /\ PastAll(p, S) # End => buffer[PastAll(p, S)] \notin S
         /\ UpTo(p, S) \in p .. End
         /\ \A j \in p .. UpTo(p, S) - 1 : buffer[j] \notin S
         /\ UpTo(p, S) # End => buffer[UpTo(p, S)] \in S
<1>1. Len(buffer) \in Nat /\ End \in Nat
  BY DEF End
<1>2. ASSUME NEW X, X \in SUBSET (p .. Len(buffer))
      PROVE  /\ First(X, End) \in p .. End
             /\ First(X, End) # End => First(X, End) \in X
             /\ \A j \in p .. First(X, End) - 1 : j \notin X
  <2>1. X \in SUBSET Nat
    BY <1>1, <1>2
  <2>2. CASE X = {}
    <3>1. First(X, End) = End
      BY <2>1, <2>2, FirstIs
    <3>. QED
      BY <1>1, <2>2, <3>1 DEF End
  <2>3. CASE X # {}
    <3>1. First(X, End) \in X /\ \A k \in X : First(X, End) <= k
      BY <2>1, <2>3, FirstIs
    <3>2. PICK f : f = First(X, End)
      OBVIOUS
    <3>3. f \in p .. Len(buffer) /\ f \in X /\ \A k \in X : f <= k
      BY <1>2, <3>1, <3>2
    <3>4. p .. Len(buffer) \subseteq p .. End
      BY <1>1 DEF End
    <3>5. \A j \in p .. f - 1 : j \notin X
      BY <1>1, <3>3
    <3>. QED
      BY <3>2, <3>3, <3>4, <3>5
  <2>. QED
    BY <2>2, <2>3
<1>. DEFINE Out == {j \in p .. Len(buffer) : buffer[j] \notin S}
            In == {j \in p .. Len(buffer) : buffer[j] \in S}
<1>3. /\ PastAll(p, S) = First(Out, End) /\ Out \in SUBSET (p .. Len(buffer))
      /\ UpTo(p, S) = First(In, End) /\ In \in SUBSET (p .. Len(buffer))
  BY DEF PastAll, UpTo
<1>. HIDE DEF Out, In
<1>4. /\ PastAll(p, S) \in p .. End /\ \A j \in p .. PastAll(p, S) - 1 : j \notin Out
      /\ PastAll(p, S) # End => PastAll(p, S) \in Out
  BY <1>2, <1>3
<1>5. /\ UpTo(p, S) \in p .. End /\ \A j \in p .. UpTo(p, S) - 1 : j \notin In
      /\ UpTo(p, S) # End => UpTo(p, S) \in In
  BY <1>2, <1>3
<1>. QED
  BY <1>1, <1>4, <1>5 DEF Out, In, End

(***************************************************************************)
(* A token that begins before the space at the end of the buffer ends      *)
(* there at the latest, so it has a class; and it holds no end of line.    *)
(***************************************************************************)
Blank == " "
Padded == Len(buffer) # 0 /\ buffer[Len(buffer)] = Blank

LEMMA BlankIs == Blank \in Space /\ Blank \in Char /\ Blank # "NL"
<1>1. Blank \in Space /\ Blank # "NL"
  BY DEF Blank, Space
<1>. QED
  BY <1>1, LexerAssumption DEF LexerAssumption

LEMMA TokenIs ==
  ASSUME buffer \in Seq(Char), Padded, NEW p \in 1 .. Len(buffer), buffer[p] \notin Space
  PROVE  /\ Class(p) \in TokenType
         /\ PossibleEnd(p) \in p .. End
         /\ \A j \in p .. PossibleEnd(p) - 1 : buffer[j] # "NL"
<1>. DEFINE L == Len(buffer)
<1>1. L \in Nat /\ p \in Nat /\ p < L /\ End = L + 1 /\ p + 1 # End
  <2>1. p # L
    BY BlankIs DEF Padded
  <2>. QED
    BY <2>1 DEF End
<1>2. /\ isIdentifier(p) \in p .. End /\ isIdentifier(p) # End
      /\ \A j \in p .. isIdentifier(p) - 1 : buffer[j] \notin Space \cup symbols
  <2>. DEFINE S == Space \cup symbols
  <2>1. /\ UpTo(p, S) \in p .. End
        /\ \A j \in p .. UpTo(p, S) - 1 : buffer[j] \notin S
    BY SearchIs
  <2>2. buffer[L] \in S
    BY BlankIs DEF Padded
  <2>. HIDE DEF S
  <2>3. UpTo(p, S) # End
    BY <1>1, <2>1, <2>2
  <2>. QED
    BY <2>1, <2>3 DEF isIdentifier, S
<1>3. PICK e : e = isIdentifier(p)
  OBVIOUS
<1>4. /\ PastAll(p, Digit) \in p .. End
      /\ \A j \in p .. PastAll(p, Digit) - 1 : buffer[j] \in Digit
  BY SearchIs
<1>5. CASE Class(p) = "Symbol"
  <2>1. isSymbol(p) # End
    BY <1>5 DEF Class
  <2>2. CASE buffer[p] = "-" /\ buffer[p + 1] = ">"
    <3>1. PossibleEnd(p) = p + 2
      BY <1>1, <1>5, <2>2 DEF PossibleEnd, isSymbol
    <3>2. \A j \in p .. p + 1 : j = p \/ j = p + 1
      BY <1>1
    <3>. QED
      BY <1>1, <1>5, <2>2, <3>1, <3>2 DEF TokenType
  <2>3. CASE ~(buffer[p] = "-" /\ buffer[p + 1] = ">")
    <3>1. PossibleEnd(p) = p + 1 /\ buffer[p] \in symbols
      BY <1>1, <1>5, <2>1, <2>3 DEF PossibleEnd, isSymbol
    <3>2. \A j \in p .. (p + 1) - 1 : j = p
      BY <1>1
    <3>. QED
      BY <1>1, <1>5, <3>1, <3>2 DEF TokenType, symbols
  <2>. QED
    BY <2>2, <2>3
<1>6. CASE Class(p) = "Literal"
  <2>1. PossibleEnd(p) = isLiteral(p) /\ isLiteral(p) # End
    BY <1>6 DEF PossibleEnd, Class
  <2>2. \/ buffer[p] = "n" /\ isLiteral(p) = p + 1
        \/ isLiteral(p) = PastAll(p, Digit)
    BY <2>1 DEF isLiteral
  <2>3. \A j \in p .. (p + 1) - 1 : j = p
    BY <1>1
  <2>. QED
    BY <1>1, <1>4, <1>6, <2>1, <2>2, <2>3 DEF TokenType, Digit
<1>7. CASE Class(p) \notin {"Symbol", "Literal"}
  <2>1. Class(p) \in {"Keyword", "Identifier"}
    BY <1>2, <1>7 DEF Class
  <2>2. PossibleEnd(p) = isIdentifier(p)
    BY <2>1 DEF PossibleEnd
  <2>. QED
    BY <1>2, <2>1, <2>2 DEF TokenType, Space
<1>. QED
  BY <1>5, <1>6, <1>7

(***************************************************************************)
(* The inductive invariant: up to any position of the buffer there are as  *)
(* many ends of line as in the file up to where that character comes from, *)
(* and the lexer has counted those that it has passed.                     *)
(***************************************************************************)
Counted ==
  /\ \A j \in 1 .. Len(buffer) : Newlines(buffer, 1, j - 1) = Newlines(text, 1, origin[j] - 1)
  /\ Newlines(buffer, 1, Len(buffer)) = Newlines(text, 1, i - 1)
  /\ line = 1 + Newlines(buffer, 1, itr - 1)

LexInv ==
  /\ TypeOK
  /\ Counted
  /\ phase = "wrap" => itr = 1 /\ line = 1 /\ tokens = << >>
  /\ phase # "wrap" => i = Len(text) + 1 /\ Padded
  /\ LinesTrue

(* A character that is kept. *)
LEMMA PushCounts ==
  ASSUME LexInv, NEW c \in Char, push_back(c), text' = text,
         Newlines(text, 1, i' - 1) = Newlines(text, 1, i - 1) + (IF c = "NL" THEN 1 ELSE 0)
  PROVE  /\ buffer' \in Seq(Char) /\ origin' \in Seq(1 .. Len(text) + 1)
         /\ Len(buffer') = Len(buffer) + 1 /\ Len(origin') = Len(buffer')
         /\ buffer'[Len(buffer')] = c
         /\ \A j \in 1 .. Len(buffer') :
              Newlines(buffer', 1, j - 1) = Newlines(text, 1, origin'[j] - 1)
         /\ Newlines(buffer', 1, Len(buffer')) = Newlines(text, 1, i' - 1)
<1>. DEFINE L == Len(buffer)
<1>1. /\ buffer \in Seq(Char) /\ origin \in Seq(1 .. Len(text) + 1) /\ Len(origin) = L
      /\ L \in Nat /\ i \in 1 .. Len(text) + 1
  BY DEF LexInv, TypeOK
<1>2. buffer' = Append(buffer, c) /\ origin' = Append(origin, i)
  BY DEF push_back
<1>3. /\ buffer' \in Seq(Char) /\ Len(buffer') = L + 1 /\ buffer'[L + 1] = c
      /\ \A j \in 1 .. L : buffer'[j] = buffer[j]
  BY <1>1, <1>2, AppendProperties
<1>4. /\ origin' \in Seq(1 .. Len(text) + 1) /\ Len(origin') = L + 1 /\ origin'[L + 1] = i
      /\ \A j \in 1 .. L : origin'[j] = origin[j]
  BY <1>1, <1>2, AppendProperties
<1>5. ASSUME NEW b \in Int, b <= L PROVE Newlines(buffer', 1, b) = Newlines(buffer, 1, b)
  <2>1. \A j \in 1 .. b : buffer'[j] = buffer[j]
    BY <1>1, <1>3, <1>5
  <2>. QED
    BY <2>1, NewlinesSame, ZenonT(40)
<1>6. ASSUME NEW j \in 1 .. L + 1
      PROVE  Newlines(buffer', 1, j - 1) = Newlines(text, 1, origin'[j] - 1)
  <2>1. Newlines(buffer', 1, j - 1) = Newlines(buffer, 1, j - 1)
    BY <1>1, <1>5
  <2>2. CASE j = L + 1
    <3>1. j - 1 = L
      BY <1>1, <2>2
    <3>. QED
      BY <1>4, <2>1, <2>2, <3>1 DEF LexInv, Counted
  <2>3. CASE j # L + 1
    <3>1. j \in 1 .. L
      BY <1>1, <2>3
    <3>. QED
      BY <1>4, <2>1, <3>1 DEF LexInv, Counted
  <2>. QED
    BY <2>2, <2>3
<1>7. Newlines(buffer', 1, L + 1) = Newlines(buffer', 1, L) + (IF c = "NL" THEN 1 ELSE 0)
  BY <1>1, <1>3, NewlinesMore
<1>8. Newlines(buffer', 1, L + 1) = Newlines(text, 1, i' - 1)
  BY <1>1, <1>5, <1>7 DEF LexInv, Counted
<1>. QED
  BY <1>1, <1>3, <1>4, <1>6, <1>8

(* A turn of the wrapper's loop that keeps a character, or none. *)
LEMMA WrapKeeps ==
  ASSUME LexInv, phase = "wrap", phase' = "wrap", UNCHANGED <<text, lexVars>>,
         inComment' \in BOOLEAN, lastWasSpace' \in BOOLEAN, i' \in 1 .. Len(text) + 1,
         \/ /\ UNCHANGED <<buffer, origin>>
            /\ Newlines(text, 1, i' - 1) = Newlines(text, 1, i - 1)
         \/ \E c \in Char :
              /\ push_back(c)
              /\ Newlines(text, 1, i' - 1) =
                   Newlines(text, 1, i - 1) + (IF c = "NL" THEN 1 ELSE 0)
  PROVE  LexInv'
<1>1. /\ itr' = 1 /\ line' = 1 /\ tokens' = << >> /\ text' = text /\ text \in Seq(Char)
      /\ line = line' /\ itr = itr'
  BY DEF LexInv, TypeOK, lexVars
<1>2. LinesTrue'
  BY <1>1 DEF LinesTrue
<1>3. \A s : Newlines(s, 1, itr' - 1) = 0
  BY <1>1, NewlinesZero, 1 - 1 = 0
<1>4. /\ buffer' \in Seq(Char) /\ origin' \in Seq(1 .. Len(text) + 1)
      /\ Len(origin') = Len(buffer')
      /\ \A j \in 1 .. Len(buffer') :
           Newlines(buffer', 1, j - 1) = Newlines(text, 1, origin'[j] - 1)
      /\ Newlines(buffer', 1, Len(buffer')) = Newlines(text, 1, i' - 1)
  <2>1. CASE UNCHANGED <<buffer, origin>> /\ Newlines(text, 1, i' - 1) = Newlines(text, 1, i - 1)
    BY <2>1 DEF LexInv, TypeOK, Counted
  <2>2. CASE \E c \in Char :
               /\ push_back(c)
               /\ Newlines(text, 1, i' - 1) =
                    Newlines(text, 1, i - 1) + (IF c = "NL" THEN 1 ELSE 0)
    BY <1>1, <2>2, PushCounts
  <2>. QED
    BY <2>1, <2>2
<1>5. Counted'
  BY <1>1, <1>3, <1>4 DEF Counted
<1>6. TypeOK'
  <2>1. itr' \in 1 .. End' /\ line' \in Nat \ {0}
    BY <1>1, <1>4 DEF End
  <2>2. /\ tokens' \in Seq([type : TokenType, value : Seq(Char), at : Nat, line : Nat])
        /\ Len(tokens') <= MaxTokens
    BY <1>1, LexerAssumption DEF LexerAssumption
  <2>. QED
    BY <1>1, <1>4, <2>1, <2>2 DEF TypeOK
<1>. QED
  BY <1>1, <1>2, <1>5, <1>6 DEF LexInv

LEMMA WrapStep ==
  ASSUME LexInv, SkipComment \/ EndComment \/ StartComment \/ KeepChar \/ KeepSpace
  PROVE  LexInv'
<1>1. /\ Reading /\ text \in Seq(Char) /\ Len(text) \in Nat
      /\ i \in 1 .. Len(text) /\ text[i] \in Char
      /\ phase = "wrap" /\ phase' = "wrap" /\ UNCHANGED <<text, lexVars>>
      /\ inComment' \in BOOLEAN /\ lastWasSpace' \in BOOLEAN
  <2>1. Reading /\ phase = "wrap" /\ phase' = phase /\ UNCHANGED <<text, lexVars>>
    BY DEF SkipComment, EndComment, StartComment, KeepChar, KeepSpace, Wrapped, Reading
  <2>2. inComment' \in BOOLEAN /\ lastWasSpace' \in BOOLEAN
    BY DEF SkipComment, EndComment, StartComment, KeepChar, KeepSpace, Wrapped, LexInv, TypeOK
  <2>. QED
    BY <2>1, <2>2 DEF Reading, LexInv, TypeOK
<1>2. Newlines(text, 1, i - 1) \in Nat
  BY <1>1, NewlinesNat
<1>3. ASSUME i' = i + 1
      PROVE  /\ i' \in 1 .. Len(text) + 1
             /\ Newlines(text, 1, i' - 1) =
                  Newlines(text, 1, i - 1) + (IF text[i] = "NL" THEN 1 ELSE 0)
  <2>1. PICK b \in Nat : i = b + 1
    BY <1>1, i - 1 \in Nat /\ i = (i - 1) + 1
  <2>2. i - 1 = b /\ i' - 1 = b + 1
    BY <1>3, <2>1
  <2>3. Newlines(text, 1, b + 1) = Newlines(text, 1, b) + (IF text[b + 1] = "NL" THEN 1 ELSE 0)
    BY NewlinesMore
  <2>. QED
    BY <1>1, <1>3, <2>1, <2>2, <2>3
<1>4. CASE SkipComment
  <2>1. UNCHANGED <<buffer, origin>> /\ i' = i + 1 /\ text[i] # "NL"
    BY <1>4 DEF SkipComment, Wrapped
  <2>2. i' \in 1 .. Len(text) + 1 /\ Newlines(text, 1, i' - 1) = Newlines(text, 1, i - 1)
    BY <1>2, <1>3, <2>1
  <2>. QED
    BY <1>1, <2>1, <2>2, WrapKeeps
<1>5. CASE StartComment
  <2>1. /\ UNCHANGED <<buffer, origin>> /\ i' = i + 2 /\ i < Len(text)
        /\ text[i] = "/" /\ text[i + 1] = "/"
    BY <1>5 DEF StartComment, Wrapped, OpensComment
  <2>2. \A j \in i .. i + 1 : text[j] # "NL"
    <3>1. \A j \in i .. i + 1 : j = i \/ j = i + 1
      BY <1>1
    <3>. QED
      BY <2>1, <3>1
  <2>3. Newlines(text, i, i + 1) = 0
    BY <1>1, <2>2, NewlinesNone
  <2>4. Newlines(text, 1, i + 1) = Newlines(text, 1, i - 1) + Newlines(text, i, i + 1)
    BY <1>1, NewlinesSplit
  <2>5. Newlines(text, 1, i' - 1) = Newlines(text, 1, i - 1) /\ i' \in 1 .. Len(text) + 1
    <3>1. i' - 1 = i + 1
      BY <1>1, <2>1
    <3>. QED
      BY <1>1, <2>1, <2>3, <1>2, <2>4, <3>1
  <2>. QED
    BY <1>1, <2>1, <2>5, WrapKeeps
<1>6. CASE EndComment \/ KeepChar
  <2>1. push_back(text[i]) /\ i' = i + 1
    BY <1>6 DEF EndComment, KeepChar, Wrapped
  <2>. QED
    BY <1>1, <1>3, <2>1, WrapKeeps
<1>7. CASE KeepSpace
  <2>1. i' = i + 1 /\ text[i] # "NL" /\ (UNCHANGED <<buffer, origin>> \/ push_back(text[i]))
    <3>1. i' = i + 1 /\ text[i] = Blank /\ (UNCHANGED <<buffer, origin>> \/ push_back(Blank))
      BY <1>7 DEF KeepSpace, Wrapped, Blank
    <3>. QED
      BY <3>1, BlankIs
  <2>2. CASE UNCHANGED <<buffer, origin>>
    <3>1. i' \in 1 .. Len(text) + 1 /\ Newlines(text, 1, i' - 1) = Newlines(text, 1, i - 1)
      BY <1>2, <1>3, <2>1
    <3>. QED
      BY <1>1, <2>2, <3>1, WrapKeeps
  <2>3. CASE push_back(text[i])
    BY <1>1, <1>3, <2>1, <2>3, WrapKeeps
  <2>. QED
    BY <2>1, <2>2, <2>3
<1>. QED
  BY <1>4, <1>5, <1>6, <1>7

LEMMA PadStep ==
  ASSUME LexInv, Pad
  PROVE  LexInv'
<1>1. /\ phase = "wrap" /\ push_back(Blank) /\ phase' = "lex"
      /\ UNCHANGED <<text, i, inComment, lastWasSpace, itr, line, tokens>>
      /\ itr = 1 /\ line = 1 /\ tokens = << >>
  BY DEF Pad, lexVars, LexInv, Blank
<1>2. /\ text \in Seq(Char) /\ Len(text) \in Nat /\ i = Len(text) + 1 /\ i - 1 \in Nat
      /\ Len(buffer) \in Nat
  <2>1. text \in Seq(Char) /\ buffer \in Seq(Char) /\ i \in 1 .. Len(text) + 1 /\ i > Len(text)
    BY DEF Pad, LexInv, TypeOK
  <2>. QED
    BY <2>1
<1>3. /\ buffer' \in Seq(Char) /\ origin' \in Seq(1 .. Len(text) + 1)
      /\ Len(buffer') = Len(buffer) + 1 /\ Len(origin') = Len(buffer')
      /\ buffer'[Len(buffer')] = Blank
      /\ \A j \in 1 .. Len(buffer') :
           Newlines(buffer', 1, j - 1) = Newlines(text, 1, origin'[j] - 1)
      /\ Newlines(buffer', 1, Len(buffer')) = Newlines(text, 1, i' - 1)
  <2>1. Newlines(text, 1, i - 1) \in Nat
    BY <1>2, NewlinesNat
  <2>2. Newlines(text, 1, i' - 1) = Newlines(text, 1, i - 1) + (IF Blank = "NL" THEN 1 ELSE 0)
    BY <1>1, <2>1, BlankIs
  <2>. QED
    BY <1>1, <2>2, BlankIs, PushCounts
<1>4. Counted'
  <2>1. Newlines(buffer', 1, itr' - 1) = 0
    BY <1>1, NewlinesZero, 1 - 1 = 0
  <2>. QED
    BY <1>1, <1>3, <2>1 DEF Counted
<1>5. TypeOK'
  <2>1. itr' \in 1 .. End'
    BY <1>1, <1>2, <1>3 DEF End
  <2>. QED
    BY <1>1, <1>2, <1>3, <2>1 DEF LexInv, TypeOK
<1>6. Padded'
  BY <1>2, <1>3 DEF Padded
<1>. QED
  BY <1>1, <1>2, <1>4, <1>5, <1>6 DEF LexInv, LinesTrue

(* Where the next token begins. *)
LEMMA SkipIs ==
  ASSUME TypeOK
  PROVE  /\ skipToNextToken \in itr .. End
         /\ skipToNextToken # End =>
              skipToNextToken \in 1 .. Len(buffer) /\ buffer[skipToNextToken] \notin Space
<1>1. buffer \in Seq(Char) /\ itr \in 1 .. End /\ Len(buffer) \in Nat /\ End = Len(buffer) + 1
  BY DEF TypeOK, End
<1>2. CASE itr = End
  <2>1. {j \in itr .. Len(buffer) : buffer[j] \notin Space} = {}
    BY <1>1, <1>2
  <2>2. skipToNextToken = End
    BY <2>1 DEF skipToNextToken, PastAll, First
  <2>. QED
    BY <1>1, <1>2, <2>2
<1>3. CASE itr # End
  <2>1. itr \in 1 .. Len(buffer)
    BY <1>1, <1>3
  <2>2. /\ PastAll(itr, Space) \in itr .. End
        /\ PastAll(itr, Space) # End => buffer[PastAll(itr, Space)] \notin Space
    BY <1>1, <2>1, SearchIs
  <2>. QED
    BY <1>1, <2>1, <2>2 DEF skipToNextToken
<1>. QED
  BY <1>2, <1>3

(* A token whose line is right, read up to a place with the lines counted. *)
LEMMA TokenStep ==
  ASSUME LexInv, phase = "lex", UNCHANGED <<wrapVars, phase>>, Len(tokens) < MaxTokens,
         NEW type \in TokenType, NEW value \in Seq(Char), NEW at \in Nat,
         tokens' = Append(tokens, Token(type, value, at, line')),
         line' \in Nat \ {0}, line' = 1 + Newlines(text, 1, at - 1),
         itr' \in 1 .. End, line' = 1 + Newlines(buffer, 1, itr' - 1)
  PROVE  LexInv'
<1>. DEFINE Tokens == [type : TokenType, value : Seq(Char), at : Nat, line : Nat]
            token == Token(type, value, at, line')
<1>1. UNCHANGED <<text, i, inComment, lastWasSpace, buffer, origin, phase>>
  BY DEF wrapVars
<1>2. token \in Tokens /\ token.at = at /\ token.line = line'
  BY DEF Token
<1>3. tokens \in Seq(Tokens) /\ Len(tokens) \in Nat /\ DOMAIN tokens = 1 .. Len(tokens)
  BY DEF LexInv, TypeOK
<1>. HIDE DEF Tokens, token
<1>4. /\ tokens' \in Seq(Tokens) /\ Len(tokens') = Len(tokens) + 1
      /\ tokens'[Len(tokens) + 1] = token
      /\ \A t \in 1 .. Len(tokens) : tokens'[t] = tokens[t]
  <2>1. tokens' = Append(tokens, token)
    BY DEF token
  <2>. QED
    BY <1>2, <1>3, <2>1, AppendProperties
<1>5. TypeOK'
  <2>1. Len(tokens') <= MaxTokens
    BY <1>3, <1>4, LexerAssumption DEF LexerAssumption
  <2>. QED
    BY <1>1, <1>4, <2>1 DEF LexInv, TypeOK, End, Tokens
<1>6. LinesTrue'
  <2>. SUFFICES ASSUME NEW t \in DOMAIN tokens'
                PROVE  tokens'[t].line = 1 + Newlines(text, 1, tokens'[t].at - 1)
    BY <1>1 DEF LinesTrue
  <2>1. DOMAIN tokens' = 1 .. Len(tokens) + 1
    BY <1>4
  <2>2. CASE t = Len(tokens) + 1
    BY <1>2, <1>4, <2>2
  <2>3. CASE t # Len(tokens) + 1
    <3>1. t \in 1 .. Len(tokens)
      BY <1>3, <2>1, <2>3
    <3>. QED
      BY <1>3, <1>4, <3>1 DEF LexInv, LinesTrue
  <2>. QED
    BY <2>2, <2>3
<1>7. Counted'
  BY <1>1 DEF LexInv, Counted
<1>. QED
  BY <1>1, <1>5, <1>6, <1>7 DEF LexInv, Padded

LEMMA LexStep ==
  ASSUME LexInv, nextToken \/ EndOfFile
  PROVE  LexInv'
<1>. DEFINE p == skipToNextToken
            L == Len(buffer)
<1>1. /\ phase = "lex" /\ UNCHANGED <<wrapVars, phase>> /\ Len(tokens) < MaxTokens
      /\ Padded /\ i = Len(text) + 1
  BY DEF nextToken, EndOfFile, Lexing, LexInv
<1>2. /\ buffer \in Seq(Char) /\ L \in Nat /\ End = L + 1 /\ itr \in 1 .. End
      /\ text \in Seq(Char) /\ Len(text) \in Nat /\ line \in Nat \ {0}
      /\ origin \in Seq(1 .. Len(text) + 1) /\ Len(origin) = L
  BY DEF LexInv, TypeOK, End
<1>3. p \in itr .. End /\ (p # End => p \in 1 .. L /\ buffer[p] \notin Space)
  BY SkipIs DEF LexInv
<1>. HIDE DEF p
<1>4. line + Newlines(buffer, itr, p - 1) = 1 + Newlines(buffer, 1, p - 1)
  <2>1. Newlines(buffer, 1, p - 1) = Newlines(buffer, 1, itr - 1) + Newlines(buffer, itr, p - 1)
    BY <1>2, <1>3, NewlinesSplit
  <2>2. Newlines(buffer, 1, itr - 1) \in Nat /\ Newlines(buffer, itr, p - 1) \in Nat
    BY <1>2, <1>3, NewlinesNat
  <2>. QED
    BY <2>1, <2>2 DEF LexInv, Counted
<1>5. Newlines(buffer, 1, p - 1) \in Nat
  BY <1>2, <1>3, NewlinesNat
<1>6. CASE nextToken
  <2>1. /\ p # End
        /\ line' = line + Newlines(buffer, itr, p - 1)
        /\ tokens' = Append(tokens, Token(Class(p), SubSeq(buffer, p, PossibleEnd(p) - 1),
                                          origin[p], line'))
        /\ itr' = PossibleEnd(p)
    BY <1>6 DEF nextToken, p
  <2>2. p \in 1 .. L /\ buffer[p] \notin Space
    BY <1>3, <2>1
  <2>3. /\ Class(p) \in TokenType
        /\ PossibleEnd(p) \in p .. End
        /\ \A j \in p .. PossibleEnd(p) - 1 : buffer[j] # "NL"
    BY <1>1, <1>2, <2>2, TokenIs
  <2>4. origin[p] \in Nat /\ line' = 1 + Newlines(text, 1, origin[p] - 1)
    BY <1>2, <1>4, <2>1, <2>2, SMTT(20) DEF LexInv, Counted
  <2>5. line' = 1 + Newlines(buffer, 1, PossibleEnd(p) - 1)
    <3>1. Newlines(buffer, 1, PossibleEnd(p) - 1) =
            Newlines(buffer, 1, p - 1) + Newlines(buffer, p, PossibleEnd(p) - 1)
      BY <1>2, <2>2, <2>3, NewlinesSplit
    <3>2. Newlines(buffer, p, PossibleEnd(p) - 1) = 0
      <4>1. p \in Nat /\ PossibleEnd(p) - 1 \in Int
        BY <1>2, <2>2, <2>3
      <4>. QED
        BY <2>3, <4>1, NewlinesNone
    <3>. QED
      BY <1>4, <1>5, <2>1, <3>1, <3>2
  <2>6. SubSeq(buffer, p, PossibleEnd(p) - 1) \in Seq(Char)
    <3>1. \A j \in p .. PossibleEnd(p) - 1 : buffer[j] \in Char
      BY <1>2, <2>2, <2>3
    <3>. QED
      BY <1>2, <2>2, <2>3, <3>1, SubSeqProperties
  <2>7. itr' \in 1 .. End /\ line' \in Nat \ {0}
    <3>1. itr' \in 1 .. End
      BY <1>2, <2>1, <2>2, <2>3
    <3>2. line' = 1 + Newlines(buffer, 1, p - 1)
      BY <1>4, <2>1
    <3>3. line' \in Nat \ {0}
      BY <1>5, <3>2
    <3>. QED
      BY <3>1, <3>3
  <2>. QED
    BY <1>1, <2>1, <2>3, <2>4, <2>5, <2>6, <2>7, TokenStep
<1>7. CASE EndOfFile
  <2>1. /\ p = End
        /\ line' = line + Newlines(buffer, itr, L)
        /\ tokens' = Append(tokens, Token("EndOfFile", << >>, Len(text) + 1, line'))
        /\ itr' = End
    BY <1>7 DEF EndOfFile, p
  <2>2. p - 1 = L
    BY <1>2, <2>1
  <2>3. line' = 1 + Newlines(buffer, 1, L) /\ line' \in Nat \ {0}
    BY <1>4, <1>5, <2>1, <2>2
  <2>4. line' = 1 + Newlines(text, 1, (Len(text) + 1) - 1)
    BY <1>1, <2>3 DEF LexInv, Counted
  <2>5. itr' \in 1 .. End /\ line' = 1 + Newlines(buffer, 1, itr' - 1)
    BY <1>2, <2>1, <2>2, <2>3
  <2>6. "EndOfFile" \in TokenType /\ << >> \in Seq(Char) /\ Len(text) + 1 \in Nat
    BY <1>2 DEF TokenType
  <2>. QED
    BY <1>1, <2>1, <2>3, <2>4, <2>5, <2>6, TokenStep
<1>. QED
  BY <1>6, <1>7

LEMMA LexInvariant == Spec => []LexInv
<1>1. Init => LexInv
  <2>. SUFFICES ASSUME Init PROVE LexInv
    OBVIOUS
  <2>1. /\ text \in Seq(Char) /\ i = 1 /\ inComment = FALSE /\ lastWasSpace = FALSE
        /\ buffer = << >> /\ origin = << >> /\ itr = 1 /\ line = 1 /\ tokens = << >>
        /\ phase = "wrap"
    BY LexerAssumption DEF Init, LexerAssumption
  <2>2. TypeOK
    <3>1. i \in 1 .. Len(text) + 1 /\ itr \in 1 .. End /\ Len(origin) = Len(buffer)
      BY <2>1 DEF End
    <3>2. /\ tokens \in Seq([type : TokenType, value : Seq(Char), at : Nat, line : Nat])
          /\ buffer \in Seq(Char) /\ origin \in Seq(1 .. Len(text) + 1)
      BY <2>1
    <3>3. Len(tokens) <= MaxTokens
      BY <2>1, LexerAssumption DEF LexerAssumption
    <3>4. inComment \in BOOLEAN /\ lastWasSpace \in BOOLEAN
      BY <2>1, Zenon
    <3>5. text \in Seq(Char) /\ line \in Nat \ {0} /\ phase \in {"wrap", "lex", "done"}
      BY <2>1
    <3>. QED
      BY <3>1, <3>2, <3>3, <3>4, <3>5 DEF TypeOK
  <2>3. Counted
    <3>1. \A s : Newlines(s, 1, 1 - 1) = 0 /\ Newlines(s, 1, 0) = 0
      BY NewlinesZero, 1 - 1 = 0
    <3>. QED
      BY <2>1, <3>1 DEF Counted
  <2>. QED
    BY <2>1, <2>2, <2>3 DEF LexInv, LinesTrue
<1>2. LexInv /\ [Next \/ Done]_vars => LexInv'
  <2>. SUFFICES ASSUME LexInv, [Next \/ Done]_vars PROVE LexInv'
    OBVIOUS
  <2>1. CASE Finish
    <3>1. UNCHANGED <<text, i, inComment, lastWasSpace, buffer, origin, itr, line, tokens>>
      BY <2>1 DEF Finish, wrapVars, lexVars
    <3>2. phase = "lex" /\ phase' = "done"
      BY <2>1 DEF Finish
    <3>. QED
      BY <3>1, <3>2 DEF LexInv, TypeOK, Counted, LinesTrue, Padded, End
  <2>2. CASE UNCHANGED vars
    BY <2>2 DEF vars, LexInv, TypeOK, Counted, LinesTrue, Padded, End
  <2>. QED
    BY <2>1, <2>2, WrapStep, PadStep, LexStep DEF Next, Done
<1>. QED
  BY <1>1, <1>2, PTL DEF Spec

(***************************************************************************)
(* Every variable has its type, and no token is Unknown: each class gives  *)
(* End for "no", and the space that the wrapper adds keeps End away from   *)
(* the end of every word.                                                  *)
(***************************************************************************)
THEOREM NoTokenUnknown == Spec => []TypeOK
BY LexInvariant, PTL DEF LexInv

(***************************************************************************)
(* The line that a message of the parser names is the token's line in the  *)
(* file, whatever comments and white space the wrapper has taken out.      *)
(***************************************************************************)
THEOREM LinesAreTrue == Spec => []LinesTrue
BY LexInvariant, PTL DEF LexInv

-----------------------------------------------------------------------------
(***************************************************************************)
(* The tokens are those of the file.  First what the wrapper keeps.        *)
(***************************************************************************)
LEMMA NewlinesNoneIff ==
  ASSUME NEW s, NEW a \in Nat, NEW b \in Int
  PROVE  Newlines(s, a, b) = 0 <=> \A j \in a .. b : s[j] # "NL"
<1>1. IsFiniteSet({j \in a .. b : s[j] = "NL"})
  BY NewlinesFinite
<1>2. Newlines(s, a, b) = 0 <=> {j \in a .. b : s[j] = "NL"} = {}
  BY <1>1, FS_EmptySet DEF Newlines
<1>. QED
  BY <1>2

(* A comment begins at s. *)
Slashes(s) == s < Len(text) /\ text[s] = "/" /\ text[s + 1] = "/"

LEMMA CommentedIs ==
  ASSUME NEW p \in Nat
  PROVE  Commented(p) <=> \E s \in 1 .. p : Slashes(s) /\ \A j \in s .. p : text[j] # "NL"
<1>1. \A s \in 1 .. p : Newlines(text, s, p) = 0 <=> \A j \in s .. p : text[j] # "NL"
  BY NewlinesNoneIff
<1>. QED
  BY <1>1 DEF Commented, Slashes

(* A character is in a comment if one begins there, or it goes on. *)
LEMMA CommentedNext ==
  ASSUME NEW p \in Nat
  PROVE  Commented(p + 1) <=> text[p + 1] # "NL" /\ (Slashes(p + 1) \/ Commented(p))
<1>1. p + 1 \in Nat
  OBVIOUS
<1>2. ASSUME Commented(p + 1)
      PROVE  text[p + 1] # "NL" /\ (Slashes(p + 1) \/ Commented(p))
  <2>1. PICK s \in 1 .. p + 1 : Slashes(s) /\ \A j \in s .. p + 1 : text[j] # "NL"
    BY <1>1, <1>2, CommentedIs
  <2>2. text[p + 1] # "NL"
    BY <2>1
  <2>3. CASE s = p + 1
    BY <2>1, <2>2, <2>3
  <2>4. CASE s # p + 1
    <3>1. s \in 1 .. p /\ \A j \in s .. p : text[j] # "NL"
      BY <2>1, <2>4
    <3>2. Commented(p)
      BY <2>1, <3>1, CommentedIs
    <3>. QED
      BY <2>2, <3>2
  <2>. QED
    BY <2>3, <2>4
<1>3. ASSUME text[p + 1] # "NL", Slashes(p + 1)
      PROVE  Commented(p + 1)
  <2>1. p + 1 \in 1 .. p + 1 /\ \A j \in p + 1 .. p + 1 : j = p + 1
    OBVIOUS
  <2>2. \A j \in p + 1 .. p + 1 : text[j] # "NL"
    BY <1>3, <2>1
  <2>. QED
    BY <1>1, <1>3, <2>1, <2>2, CommentedIs
<1>4. ASSUME text[p + 1] # "NL", Commented(p)
      PROVE  Commented(p + 1)
  <2>1. PICK s \in 1 .. p : Slashes(s) /\ \A j \in s .. p : text[j] # "NL"
    BY <1>4, CommentedIs
  <2>2. s \in 1 .. p + 1 /\ \A j \in s .. p + 1 : j \in s .. p \/ j = p + 1
    OBVIOUS
  <2>3. \A j \in s .. p + 1 : text[j] # "NL"
    BY <1>4, <2>1, <2>2
  <2>. QED
    BY <1>1, <2>1, <2>2, <2>3, CommentedIs
<1>. QED
  BY <1>2, <1>3, <1>4

(* The characters of one class are of no other. *)
LEMMA Classes ==
  /\ "NL" \in Space /\ "/" \notin Space /\ "n" \notin Space
  /\ \A c : c \in Space => c \notin symbols /\ c \notin Digit
  /\ \A c : c \in symbols => c \notin Digit /\ c # "n"
  /\ \A c : c = "-" \/ c = ">" <=> c \in symbols
  /\ "n" \notin Digit /\ "n" \notin symbols
<1>1. \A c : c \in Space => c \notin symbols /\ c \notin Digit
  <2>1. \A c \in symbols \cup Digit : c # Blank /\ c # "NL"
    BY Zenon DEF symbols, Digit, Blank
  <2>2. \A c \in Space : c = Blank \/ c = "NL"
    BY Zenon DEF Space, Blank
  <2>. QED
    BY <2>1, <2>2, Zenon
<1>2. \A c \in Space : c = Blank \/ c = "NL"
  BY Zenon DEF Space, Blank
<1>3. "/" # Blank /\ "n" # Blank /\ "/" # "NL" /\ "n" # "NL"
  BY Zenon DEF Blank
<1>4. "NL" \in Space
  BY Zenon DEF Space
<1>5. "/" \notin Space /\ "n" \notin Space
  BY <1>2, <1>3, Zenon
<1>6. /\ \A c : c \in symbols => c \notin Digit /\ c # "n"
      /\ \A c : c = "-" \/ c = ">" <=> c \in symbols
      /\ "n" \notin Digit /\ "n" \notin symbols
  BY DEF symbols, Digit
<1>. QED
  BY <1>1, <1>4, <1>5, <1>6

(***************************************************************************)
(* What the wrapper has kept of the text before i: all that is meant, in   *)
(* order, each next to what it is next to; and what it knows of where it   *)
(* is.  The space at the end of the buffer is from no place in the text.   *)
(***************************************************************************)
Size == IF phase = "wrap" THEN Len(buffer) ELSE Len(buffer) - 1

FromText ==
  \A j \in 1 .. Size : /\ origin[j] \in 1 .. i - 1
                       /\ buffer[j] = text[origin[j]]
                       /\ buffer[j] \notin Space => Meant(origin[j])
InTextOrder == \A j, k \in 1 .. Size : j < k => origin[j] < origin[k]
AllMeant == \A p \in 1 .. i - 1 : Meant(p) => \E j \in 1 .. Size : origin[j] = p
Together ==
  \A j \in 1 .. Size - 1 :
    buffer[j] \notin Space /\ buffer[j + 1] \notin Space => origin[j + 1] = origin[j] + 1

WhereItIs ==
  /\ inComment = TRUE <=> Commented(i - 1)
  /\ inComment = FALSE /\ Len(buffer) > 0 =>
       buffer[Len(buffer)] \in Space \/ origin[Len(buffer)] = i - 1
  /\ lastWasSpace = TRUE => Len(buffer) > 0 /\ buffer[Len(buffer)] \in Space

KeptInv ==
  /\ FromText
  /\ InTextOrder
  /\ AllMeant
  /\ Together
  /\ phase = "wrap" => WhereItIs
  /\ phase # "wrap" => origin[Len(buffer)] = Len(text) + 1

(* A turn that keeps the character read. *)
LEMMA KeptPush ==
  ASSUME LexInv, KeptInv, Reading, phase' = "wrap", text' = text, i' = i + 1,
         push_back(text[i]),
         text[i] \notin Space => Meant(i) /\ inComment = FALSE,
         inComment' = TRUE <=> Commented(i),
         lastWasSpace' = TRUE => text[i] \in Space
  PROVE  KeptInv'
<1>. DEFINE L == Len(buffer)
<1>1. /\ buffer \in Seq(Char) /\ origin \in Seq(1 .. Len(text) + 1) /\ Len(origin) = L
      /\ L \in Nat /\ i \in 1 .. Len(text) /\ Len(text) \in Nat /\ text[i] \in Char
      /\ phase = "wrap" /\ Size = L
  BY DEF LexInv, TypeOK, Reading, Size
<1>2. buffer' = Append(buffer, text[i]) /\ origin' = Append(origin, i)
  BY DEF push_back
<1>3. /\ Len(buffer') = L + 1 /\ buffer'[L + 1] = text[i]
      /\ \A j \in 1 .. L : buffer'[j] = buffer[j]
  BY <1>1, <1>2, AppendProperties
<1>4. /\ origin'[L + 1] = i /\ \A j \in 1 .. L : origin'[j] = origin[j]
  <2>1. i \in 1 .. Len(text) + 1
    BY <1>1
  <2>. QED
    BY <1>1, <1>2, <2>1, AppendProperties
<1>5. Size' = L + 1 /\ i' - 1 = i /\ \A j \in 1 .. L + 1 : j \in 1 .. L \/ j = L + 1
  BY <1>1, <1>3 DEF Size
<1>6. ASSUME NEW p PROVE (Meant(p))' <=> Meant(p)
  BY DEF Meant, Commented
<1>7. FromText'
  <2>. SUFFICES ASSUME NEW j \in 1 .. L + 1
                PROVE  /\ origin'[j] \in 1 .. i
                       /\ buffer'[j] = text[origin'[j]]
                       /\ buffer'[j] \notin Space => Meant(origin'[j])
    BY <1>5, <1>6 DEF FromText, Meant, Commented
  <2>1. CASE j = L + 1
    BY <1>1, <1>3, <1>4, <2>1
  <2>2. CASE j \in 1 .. L
    BY <1>1, <1>3, <1>4, <2>2 DEF KeptInv, FromText
  <2>. QED
    BY <1>5, <2>1, <2>2
<1>8. InTextOrder'
  <2>. SUFFICES ASSUME NEW j \in 1 .. L + 1, NEW k \in 1 .. L + 1, j < k
                PROVE  origin'[j] < origin'[k]
    BY <1>5 DEF InTextOrder
  <2>1. j \in 1 .. L /\ origin'[j] = origin[j] /\ origin[j] \in 1 .. i - 1
    BY <1>1, <1>4 DEF KeptInv, FromText
  <2>2. CASE k = L + 1
    BY <1>1, <1>4, <2>1, <2>2
  <2>3. CASE k \in 1 .. L
    BY <1>1, <1>4, <2>1, <2>3 DEF KeptInv, InTextOrder
  <2>. QED
    BY <1>5, <2>2, <2>3
<1>9. AllMeant'
  <2>. SUFFICES ASSUME NEW p \in 1 .. i, Meant(p)
                PROVE  \E j \in 1 .. L + 1 : origin'[j] = p
    BY <1>5, <1>6 DEF AllMeant, Meant, Commented
  <2>1. CASE p = i
    <3>1. L + 1 \in 1 .. L + 1
      BY <1>1
    <3>. QED
      BY <1>4, <2>1, <3>1
  <2>2. CASE p # i
    <3>1. PICK j \in 1 .. L : origin[j] = p
      BY <1>1, <2>2 DEF KeptInv, AllMeant
    <3>2. j \in 1 .. L + 1
      BY <1>1
    <3>. QED
      BY <1>4, <3>1, <3>2
  <2>. QED
    BY <2>1, <2>2
<1>10. Together'
  <2>. SUFFICES ASSUME NEW j \in 1 .. L, buffer'[j] \notin Space, buffer'[j + 1] \notin Space
                PROVE  origin'[j + 1] = origin'[j] + 1
    BY <1>1, <1>5, SMTT(20) DEF Together
  <2>1. CASE j = L
    <3>1. buffer[L] \notin Space /\ text[i] \notin Space /\ L > 0
      BY <1>1, <1>3, <2>1
    <3>2. origin[L] = i - 1
      BY <1>1, <3>1 DEF KeptInv, WhereItIs
    <3>. QED
      BY <1>1, <1>4, <2>1, <3>2
  <2>2. CASE j # L
    <3>1. j \in 1 .. L - 1 /\ j + 1 \in 1 .. L
      BY <1>1, <2>2
    <3>. QED
      BY <1>1, <1>3, <1>4, <3>1 DEF KeptInv, Together
  <2>. QED
    BY <2>1, <2>2
<1>11. WhereItIs'
  <2>2. (Commented(i - 1))' <=> Commented(i)
    BY <1>5 DEF Commented
  <2>3. Len(buffer') > 0 /\ origin'[Len(buffer')] = i' - 1 /\ buffer'[Len(buffer')] = text[i]
    BY <1>1, <1>3, <1>4, <1>5
  <2>. QED
    BY <2>2, <2>3 DEF WhereItIs
<1>. QED
  BY <1>7, <1>8, <1>9, <1>10, <1>11 DEF KeptInv

(* A turn that keeps nothing: nothing was meant. *)
LEMMA KeptSkip ==
  ASSUME LexInv, KeptInv, Reading, phase' = "wrap", text' = text, UNCHANGED <<buffer, origin>>,
         i' \in i + 1 .. Len(text) + 1,
         \A p \in i .. i' - 1 : ~Meant(p),
         inComment' = TRUE <=> Commented(i' - 1),
         inComment' = FALSE => Len(buffer) > 0 /\ buffer[Len(buffer)] \in Space,
         lastWasSpace' = TRUE => Len(buffer) > 0 /\ buffer[Len(buffer)] \in Space
  PROVE  KeptInv'
<1>1. /\ i \in 1 .. Len(text) /\ Len(text) \in Nat /\ phase = "wrap" /\ Size' = Size
      /\ i \in Nat /\ i' \in Nat /\ i < i'
  BY DEF LexInv, TypeOK, Reading, Size
<1>2. ASSUME NEW m \in Nat, NEW n \in Nat, m < n
      PROVE  /\ \A q \in 1 .. m - 1 : q \in 1 .. n - 1
             /\ \A q \in 1 .. n - 1 : q \notin m .. n - 1 => q \in 1 .. m - 1
  BY <1>2
<1>3. FromText'
  <2>1. \A q \in 1 .. i - 1 : q \in 1 .. i' - 1
    BY <1>1, <1>2
  <2>. QED
    BY <1>1, <2>1 DEF KeptInv, FromText, Meant, Commented
<1>4. InTextOrder' /\ Together'
  BY <1>1 DEF KeptInv, InTextOrder, Together
<1>5. AllMeant'
  <2>. SUFFICES ASSUME NEW p \in 1 .. i' - 1, Meant(p)
                PROVE  \E j \in 1 .. Size : origin[j] = p
    BY <1>1 DEF AllMeant, Meant, Commented
  <2>1. p \notin i .. i' - 1
    OBVIOUS
  <2>2. p \in 1 .. i - 1
    BY <1>1, <1>2, <2>1
  <2>. QED
    BY <2>2 DEF KeptInv, AllMeant
<1>6. WhereItIs'
  BY DEF WhereItIs, Commented
<1>. QED
  BY <1>3, <1>4, <1>5, <1>6 DEF KeptInv

LEMMA KeptWraps ==
  ASSUME LexInv, KeptInv, SkipComment \/ EndComment \/ StartComment \/ KeepChar \/ KeepSpace
  PROVE  KeptInv'
<1>1. /\ Reading /\ phase = "wrap" /\ phase' = "wrap" /\ text' = text
      /\ i \in 1 .. Len(text) /\ Len(text) \in Nat
  <2>1. Reading /\ phase' = phase /\ text' = text
    BY DEF SkipComment, EndComment, StartComment, KeepChar, KeepSpace, Wrapped, Reading
  <2>. QED
    BY <2>1 DEF Reading, LexInv, TypeOK
<1>2. PICK p \in Nat : p = i - 1 /\ i = p + 1
  BY <1>1, i - 1 \in Nat /\ i = (i - 1) + 1
<1>3. Commented(i) <=> text[i] # "NL" /\ (Slashes(i) \/ Commented(i - 1))
  BY <1>2, CommentedNext
<1>4. OpensComment <=> Slashes(i)
  BY DEF OpensComment, Slashes
<1>5. WhereItIs
  BY <1>1 DEF KeptInv
<1>6. i \in i .. i /\ i + 1 \in i + 1 .. Len(text) + 1
      /\ (i + 1) - 1 = i /\ \A q \in i .. (i + 1) - 1 : q = i
  BY <1>1
<1>7. CASE SkipComment
  <2>1. /\ inComment = TRUE /\ text[i] # "NL" /\ UNCHANGED <<buffer, origin>>
        /\ i' = i + 1 /\ inComment' = TRUE /\ lastWasSpace' = lastWasSpace
    BY <1>7 DEF SkipComment, Wrapped, LexInv, TypeOK
  <2>2. Commented(i)
    BY <1>3, <1>5, <2>1 DEF WhereItIs
  <2>3. ~Meant(i)
    BY <2>2 DEF Meant
  <2>4. /\ i' \in i + 1 .. Len(text) + 1
        /\ \A q \in i .. i' - 1 : ~Meant(q)
        /\ inComment' = TRUE <=> Commented(i' - 1)
    BY <1>6, <2>1, <2>2, <2>3
  <2>5. inComment' # FALSE /\ (lastWasSpace' = TRUE => Len(buffer) > 0 /\ buffer[Len(buffer)] \in Space)
    BY <1>5, <2>1 DEF WhereItIs
  <2>. QED
    BY <1>1, <2>1, <2>4, <2>5, KeptSkip
<1>8. CASE StartComment
  <2>1. /\ inComment = FALSE /\ Slashes(i) /\ UNCHANGED <<buffer, origin>>
        /\ i' = i + 2 /\ inComment' = TRUE /\ lastWasSpace' = lastWasSpace
    BY <1>4, <1>8 DEF StartComment, Wrapped, LexInv, TypeOK
  <2>2. i < Len(text) /\ text[i] # "NL" /\ text[i + 1] # "NL"
    BY <2>1 DEF Slashes
  <2>3. Commented(i)
    BY <1>3, <2>1, <2>2
  <2>4. Commented(i + 1)
    BY <1>1, <2>2, <2>3, i \in Nat, CommentedNext
  <2>5. /\ i' \in i + 1 .. Len(text) + 1 /\ i' - 1 = i + 1
        /\ \A q \in i .. i' - 1 : q = i \/ q = i + 1
    BY <1>1, <2>1, <2>2
  <2>6. \A q \in i .. i' - 1 : ~Meant(q)
    BY <2>3, <2>4, <2>5 DEF Meant
  <2>7. inComment' # FALSE /\ (lastWasSpace' = TRUE => Len(buffer) > 0 /\ buffer[Len(buffer)] \in Space)
    BY <1>5, <2>1 DEF WhereItIs
  <2>8. inComment' = TRUE <=> Commented(i' - 1)
    BY <2>1, <2>4, <2>5
  <2>. QED
    BY <1>1, <2>1, <2>5, <2>6, <2>7, <2>8, KeptSkip
<1>9. CASE EndComment
  <2>1. /\ text[i] = "NL" /\ push_back(text[i]) /\ i' = i + 1
        /\ inComment' = FALSE /\ lastWasSpace' = lastWasSpace
    BY <1>9 DEF EndComment, Wrapped
  <2>2. text[i] \in Space /\ ~Commented(i)
    BY <1>3, <2>1, Classes
  <2>. QED
    BY <1>1, <2>1, <2>2, KeptPush
<1>10. CASE KeepChar
  <2>1. /\ inComment = FALSE /\ ~Slashes(i) /\ push_back(text[i]) /\ i' = i + 1
        /\ inComment' = FALSE /\ lastWasSpace' = FALSE
    BY <1>4, <1>10 DEF KeepChar, Wrapped, LexInv, TypeOK
  <2>2. ~Commented(i)
    BY <1>3, <1>5, <2>1 DEF WhereItIs
  <2>3. text[i] \notin Space => Meant(i)
    BY <1>1, <2>2 DEF Meant
  <2>. QED
    BY <1>1, <2>1, <2>2, <2>3, KeptPush
<1>11. CASE KeepSpace
  <2>1. /\ inComment = FALSE /\ text[i] = Blank /\ i' = i + 1
        /\ inComment' = FALSE /\ lastWasSpace' = TRUE
        /\ IF lastWasSpace THEN UNCHANGED <<buffer, origin>> ELSE push_back(text[i])
    BY <1>11 DEF KeepSpace, Wrapped, LexInv, TypeOK, Blank
  <2>2. text[i] \in Space /\ text[i] # "/" /\ ~Slashes(i)
    <3>1. text[i] \in Space /\ text[i] # "/"
      BY <2>1, BlankIs, Classes
    <3>. QED
      BY <3>1 DEF Slashes
  <2>3. ~Commented(i) /\ ~Meant(i)
    BY <1>3, <1>5, <2>1, <2>2 DEF WhereItIs, Meant
  <2>4. CASE lastWasSpace = TRUE
    <3>1. UNCHANGED <<buffer, origin>> /\ Len(buffer) > 0 /\ buffer[Len(buffer)] \in Space
      BY <1>5, <2>1, <2>4 DEF WhereItIs
    <3>2. /\ i' \in i + 1 .. Len(text) + 1
          /\ \A q \in i .. i' - 1 : ~Meant(q)
          /\ inComment' = TRUE <=> Commented(i' - 1)
      BY <1>6, <2>1, <2>3
    <3>. QED
      BY <1>1, <3>1, <3>2, KeptSkip
  <2>5. CASE lastWasSpace = FALSE
    BY <1>1, <2>1, <2>2, <2>3, <2>5, KeptPush
  <2>. QED
    BY <2>4, <2>5 DEF LexInv, TypeOK
<1>. QED
  BY <1>7, <1>8, <1>9, <1>10, <1>11

(* The space at the end of the buffer changes nothing of the rest. *)
LEMMA KeptPad ==
  ASSUME LexInv, KeptInv, Pad
  PROVE  KeptInv'
<1>. DEFINE L == Len(buffer)
<1>1. /\ buffer \in Seq(Char) /\ origin \in Seq(1 .. Len(text) + 1) /\ Len(origin) = L
      /\ L \in Nat /\ Len(text) \in Nat /\ i = Len(text) + 1
      /\ phase = "wrap" /\ phase' = "lex" /\ Size = L /\ text' = text /\ i' = i
  <2>1. phase = "wrap" /\ i > Len(text) /\ phase' = "lex" /\ text' = text /\ i' = i
    BY DEF Pad
  <2>. QED
    BY <2>1 DEF LexInv, TypeOK, Size
<1>2. buffer' = Append(buffer, Blank) /\ origin' = Append(origin, i)
  BY DEF Pad, push_back, Blank
<1>3. /\ Len(buffer') = L + 1 /\ \A j \in 1 .. L : buffer'[j] = buffer[j]
  BY <1>1, <1>2, BlankIs, AppendProperties
<1>4. /\ origin'[L + 1] = i /\ \A j \in 1 .. L : origin'[j] = origin[j]
  <2>1. i \in 1 .. Len(text) + 1
    BY <1>1
  <2>. QED
    BY <1>1, <1>2, <2>1, AppendProperties
<1>5. Size' = L
  BY <1>1, <1>3 DEF Size
<1>6. FromText' /\ InTextOrder' /\ AllMeant'
  <2>1. \A p : (Meant(p))' <=> Meant(p)
    BY <1>1 DEF Meant, Commented
  <2>2. FromText'
    BY <1>1, <1>3, <1>4, <1>5, <2>1 DEF KeptInv, FromText
  <2>3. InTextOrder'
    BY <1>1, <1>4, <1>5 DEF KeptInv, InTextOrder
  <2>4. AllMeant'
    BY <1>1, <1>4, <1>5, <2>1 DEF KeptInv, AllMeant
  <2>. QED
    BY <2>2, <2>3, <2>4
<1>7. Together'
  <2>1. \A j \in 1 .. L - 1 : j \in 1 .. L /\ j + 1 \in 1 .. L
    BY <1>1
  <2>. QED
    BY <1>1, <1>3, <1>4, <1>5, <2>1 DEF KeptInv, Together
<1>8. origin'[Len(buffer')] = Len(text) + 1
  BY <1>1, <1>3, <1>4
<1>. QED
  BY <1>1, <1>6, <1>7, <1>8 DEF KeptInv

LEMMA KeptStep ==
  ASSUME LexInv, KeptInv, [Next \/ Done]_vars
  PROVE  KeptInv'
<1>1. CASE nextToken \/ EndOfFile \/ Finish \/ UNCHANGED vars
  <2>1. /\ UNCHANGED wrapVars
        /\ phase' = phase \/ (phase # "wrap" /\ phase' # "wrap")
    BY <1>1 DEF nextToken, EndOfFile, Finish, Lexing, vars, wrapVars
  <2>2. UNCHANGED <<text, i, inComment, lastWasSpace, buffer, origin>>
    BY <2>1 DEF wrapVars
  <2>3. Size' = Size
    BY <2>1, <2>2 DEF Size
  <2>4. FromText' /\ InTextOrder' /\ AllMeant' /\ Together' /\ (WhereItIs => WhereItIs')
    BY <2>2, <2>3 DEF KeptInv, FromText, InTextOrder, AllMeant, Together, WhereItIs, Meant, Commented
  <2>. QED
    BY <2>1, <2>2, <2>4 DEF KeptInv
<1>. QED
  BY <1>1, KeptWraps, KeptPad DEF Next, Done

LEMMA KeptInit == Init => KeptInv
<1>. SUFFICES ASSUME Init PROVE KeptInv
  OBVIOUS
<1>1. /\ i = 1 /\ inComment = FALSE /\ lastWasSpace = FALSE /\ buffer = << >> /\ phase = "wrap"
  BY DEF Init
<1>2. Len(buffer) = 0 /\ Size = 0 /\ i - 1 = 0
  BY <1>1 DEF Size
<1>3. 1 .. 0 = {} /\ 1 .. 0 - 1 = {}
  OBVIOUS
<1>4. FromText /\ InTextOrder /\ AllMeant /\ Together
  BY <1>2, <1>3 DEF FromText, InTextOrder, AllMeant, Together
<1>5. ~Commented(0)
  BY <1>3 DEF Commented
<1>6. WhereItIs
  <2>1. ~(Len(buffer) > 0)
    BY <1>2
  <2>2. inComment # TRUE /\ lastWasSpace # TRUE
    BY <1>1, Zenon
  <2>. QED
    BY <1>2, <1>5, <2>1, <2>2 DEF WhereItIs
<1>. QED
  BY <1>1, <1>4, <1>6 DEF KeptInv

LEMMA KeptInvariant == Spec => []KeptInv
<1>1. LexInv /\ KeptInv /\ [Next \/ Done]_vars => KeptInv'
  BY KeptStep
<1>. QED
  BY <1>1, KeptInit, LexInvariant, PTL DEF Spec

-----------------------------------------------------------------------------
(***************************************************************************)
(* The same question, whether a token ends, of a place in the text and of  *)
(* one in the buffer.                                                      *)
(***************************************************************************)
Prepared == LexInv /\ KeptInv /\ phase # "wrap"

(* The sizes; the space at the end is no character of a token. *)
LEMMA BufferIs ==
  ASSUME Prepared
  PROVE  /\ buffer \in Seq(Char) /\ origin \in Seq(1 .. Len(text) + 1) /\ text \in Seq(Char)
         /\ Size \in Nat /\ Len(buffer) = Size + 1 /\ End = Size + 2
         /\ Len(text) \in Nat /\ i - 1 = Len(text)
         /\ buffer[Size + 1] \in Space
<1>1. /\ buffer \in Seq(Char) /\ origin \in Seq(1 .. Len(text) + 1) /\ text \in Seq(Char)
      /\ i = Len(text) + 1 /\ Padded /\ Size = Len(buffer) - 1
  BY DEF Prepared, LexInv, TypeOK, Size
<1>. QED
  BY <1>1, BlankIs DEF Padded, End

LEMMA PlaceIs ==
  ASSUME Prepared, NEW j \in 1 .. Size
  PROVE  /\ origin[j] \in 1 .. Len(text)
         /\ buffer[j] = text[origin[j]]
         /\ buffer[j] \notin Space <=> Meant(origin[j])
BY BufferIs DEF Prepared, KeptInv, FromText, Meant

(* What is meant is somewhere in the buffer. *)
LEMMA PlaceOf ==
  ASSUME Prepared, NEW p, Meant(p)
  PROVE  \E j \in 1 .. Size : origin[j] = p /\ buffer[j] \notin Space
<1>1. p \in 1 .. i - 1
  BY BufferIs DEF Meant
<1>2. PICK j \in 1 .. Size : origin[j] = p
  BY <1>1 DEF Prepared, KeptInv, AllMeant
<1>. QED
  BY <1>2, PlaceIs

LEMMA PlacesOrdered ==
  ASSUME Prepared, NEW j \in 1 .. Size, NEW k \in 1 .. Size
  PROVE  j < k <=> origin[j] < origin[k]
<1>1. origin[j] \in Nat /\ origin[k] \in Nat
  BY PlaceIs
<1>2. /\ j < k => origin[j] < origin[k]
      /\ k < j => origin[k] < origin[j]
  BY DEF Prepared, KeptInv, InTextOrder
<1>. QED
  BY <1>1, <1>2

(* What is meant next to a character is next to it in the buffer. *)
LEMMA NextPlace ==
  ASSUME Prepared, NEW j \in 1 .. Size, buffer[j] \notin Space
  PROVE  /\ Meant(origin[j] + 1) <=> buffer[j + 1] \notin Space
         /\ buffer[j + 1] \notin Space =>
              /\ j + 1 \in 1 .. Size
              /\ origin[j + 1] = origin[j] + 1
              /\ buffer[j + 1] = text[origin[j] + 1]
<1>1. Size \in Nat /\ buffer[Size + 1] \in Space /\ origin[j] \in Nat
  BY BufferIs, PlaceIs
<1>2. ASSUME buffer[j + 1] \notin Space
      PROVE  /\ j + 1 \in 1 .. Size
             /\ origin[j + 1] = origin[j] + 1
             /\ buffer[j + 1] = text[origin[j] + 1]
             /\ Meant(origin[j] + 1)
  <2>1. j + 1 \in 1 .. Size /\ j \in 1 .. Size - 1
    BY <1>1, <1>2
  <2>2. origin[j + 1] = origin[j] + 1
    BY <1>2, <2>1 DEF Prepared, KeptInv, Together
  <2>. QED
    BY <1>2, <2>1, <2>2, PlaceIs
<1>3. ASSUME Meant(origin[j] + 1)
      PROVE  buffer[j + 1] \notin Space
  <2>1. PICK k \in 1 .. Size : origin[k] = origin[j] + 1 /\ buffer[k] \notin Space
    BY <1>3, PlaceOf
  <2>2. origin[j] < origin[k]
    BY <1>1, <2>1
  <2>3. j < k
    BY <2>2, PlacesOrdered
  <2>4. CASE k = j + 1
    BY <2>1, <2>4
  <2>5. CASE k # j + 1
    <3>1. j + 1 \in 1 .. Size /\ j < j + 1 /\ j + 1 < k
      BY <1>1, <2>3, <2>5
    <3>2. origin[j] < origin[j + 1] /\ origin[j + 1] < origin[k] /\ origin[j + 1] \in Nat
      BY <3>1, PlacesOrdered, PlaceIs
    <3>. QED
      BY <1>1, <2>1, <3>2
  <2>. QED
    BY <2>4, <2>5
<1>. QED
  BY <1>2, <1>3

LEMMA PlaceBefore ==
  ASSUME Prepared, NEW j \in 1 .. Size, Meant(origin[j] - 1)
  PROVE  /\ j - 1 \in 1 .. Size
         /\ origin[j - 1] = origin[j] - 1
         /\ buffer[j - 1] \notin Space /\ buffer[j - 1] = text[origin[j] - 1]
<1>1. Size \in Nat /\ origin[j] \in Nat
  BY BufferIs, PlaceIs
<1>2. PICK k \in 1 .. Size : origin[k] = origin[j] - 1 /\ buffer[k] \notin Space
  BY PlaceOf
<1>3. k < j
  BY <1>1, <1>2, PlacesOrdered
<1>4. CASE k = j - 1
  BY <1>2, <1>4, PlaceIs
<1>5. CASE k # j - 1
  <2>1. j - 1 \in 1 .. Size /\ k < j - 1 /\ j - 1 < j
    BY <1>1, <1>3, <1>5
  <2>2. origin[k] < origin[j - 1] /\ origin[j - 1] < origin[j] /\ origin[j - 1] \in Nat
    BY <2>1, PlacesOrdered, PlaceIs
  <2>. QED
    BY <1>1, <1>2, <2>2
<1>. QED
  BY <1>4, <1>5

(* A word of the buffer is one of the text. *)
LEMMA WordTogether ==
  ASSUME Prepared, NEW p \in 1 .. Size, NEW e \in p .. Size,
         \A j \in p .. e : buffer[j] \notin Space
  PROVE  \A j \in p .. e : origin[j] = origin[p] + (j - p)
<1>. DEFINE Bad == {j \in p .. e : origin[j] # origin[p] + (j - p)}
<1>1. Size \in Nat /\ \A j \in p .. e : j \in 1 .. Size /\ origin[j] \in Nat
  BY BufferIs, PlaceIs
<1>. SUFFICES ASSUME Bad # {} PROVE FALSE
  OBVIOUS
<1>2. PICK j \in Bad : \A k \in Bad : j <= k
  <2>1. Bad \in SUBSET Nat
    BY <1>1
  <2>. HIDE DEF Bad
  <2>. QED
    BY <2>1, Least
<1>3. CASE j = p
  BY <1>1, <1>3
<1>4. CASE j # p
  <2>1. j - 1 \in p .. e /\ j - 1 \notin Bad /\ j - 1 \in 1 .. Size /\ (j - 1) + 1 = j
    <3>1. j \in p .. e /\ ~(j <= j - 1)
      BY <1>1
    <3>2. j - 1 \in p .. e /\ (j - 1) + 1 = j
      BY <1>1, <1>4, <3>1
    <3>3. j - 1 \notin Bad
      BY <1>2, <3>1
    <3>. QED
      BY <1>1, <3>2, <3>3
  <2>2. origin[j - 1] = origin[p] + ((j - 1) - p)
    BY <2>1
  <2>3. buffer[j - 1] \notin Space /\ buffer[(j - 1) + 1] \notin Space
    BY <2>1
  <2>4. origin[(j - 1) + 1] = origin[j - 1] + 1
    BY <2>1, <2>3, NextPlace
  <2>. QED
    BY <1>1, <2>1, <2>2, <2>4
<1>. QED
  BY <1>3, <1>4

(* Whether a token ends, asked of the buffer. *)
LEMMA EndsIs ==
  ASSUME Prepared, NEW j \in 1 .. Size, buffer[j] \notin Space
  PROVE  EndsToken(origin[j]) <=>
           \/ buffer[j + 1] \in Space
           \/ /\ {buffer[j], buffer[j + 1]} \cap symbols # {}
              /\ ~(buffer[j] = "-" /\ buffer[j + 1] = ">")
           \/ buffer[j + 1] \notin Digit /\ InNumber(origin[j])
<1>1. buffer[j] = text[origin[j]]
  BY PlaceIs
<1>2. CASE buffer[j + 1] \in Space
  BY <1>2, NextPlace DEF EndsToken
<1>3. CASE buffer[j + 1] \notin Space
  <2>1. Meant(origin[j] + 1) /\ text[origin[j] + 1] = buffer[j + 1]
    BY <1>3, NextPlace
  <2>. QED
    BY <1>1, <1>3, <2>1 DEF EndsToken
<1>. QED
  BY <1>2, <1>3

(***************************************************************************)
(* Where the lexer is between two tokens, and where a token ends that      *)
(* begins there: at e, and nowhere before.                                 *)
(***************************************************************************)
Begins(p) ==
  /\ p \in 1 .. Size
  /\ buffer[p] \notin Space
  /\ p > 1 /\ buffer[p - 1] \notin Space => EndsToken(origin[p - 1])

TokenEnd(p, e) ==
  /\ e \in p .. Size
  /\ \A j \in p .. e : buffer[j] \notin Space
  /\ \A j \in p .. e : EndsToken(origin[j]) <=> j = e

(* Of one character. *)
LEMMA EndsAtOnce ==
  ASSUME Prepared, NEW p, Begins(p), EndsToken(origin[p])
  PROVE  TokenEnd(p, p)
<1>1. Size \in Nat /\ p \in 1 .. Size /\ buffer[p] \notin Space
  BY BufferIs DEF Begins
<1>2. p \in p .. Size /\ \A j \in p .. p : j = p
  BY <1>1
<1>. QED
  BY <1>1, <1>2 DEF TokenEnd

LEMMA SymbolEnds ==
  ASSUME Prepared, NEW p, Begins(p), Class(p) = "Symbol"
  PROVE  TokenEnd(p, PossibleEnd(p) - 1) /\ buffer[p] \in symbols
<1>1. /\ Size \in Nat /\ p \in 1 .. Size /\ buffer[p] \notin Space /\ End = Size + 2
      /\ buffer[Size + 1] \in Space /\ p + 1 # End
  BY BufferIs DEF Begins
<1>2. isSymbol(p) # End /\ PossibleEnd(p) = isSymbol(p)
  BY Zenon DEF Class, PossibleEnd
<1>3. CASE buffer[p] = "-" /\ buffer[p + 1] = ">"
  <2>1. PossibleEnd(p) = p + 2
    BY <1>1, <1>2, <1>3 DEF isSymbol
  <2>2. buffer[p] \in symbols /\ buffer[p + 1] \in symbols /\ buffer[p + 1] \notin Space
    BY <1>3, Classes
  <2>3. p + 1 \in 1 .. Size
    BY <1>1, <2>2, NextPlace
  <2>4. ~EndsToken(origin[p])
    <3>1. ~InNumber(origin[p])
      <4>1. text[origin[p]] \notin Digit /\ origin[p] \in Nat
        BY <1>1, <2>2, PlaceIs, Classes
      <4>. QED
        BY <4>1 DEF InNumber
    <3>. QED
      BY <1>1, <1>3, <2>2, <3>1, EndsIs
  <2>5. EndsToken(origin[p + 1])
    <3>1. buffer[p + 1] # "-"
      BY <1>3
    <3>2. {buffer[p + 1], buffer[(p + 1) + 1]} \cap symbols # {}
      BY <2>2
    <3>. QED
      BY <2>2, <2>3, <3>1, <3>2, EndsIs
  <2>6. PossibleEnd(p) - 1 = p + 1 /\ p + 1 \in p .. Size /\ p # p + 1
        /\ \A j \in p .. p + 1 : j = p \/ j = p + 1
    BY <1>1, <2>1, <2>3
  <2>. QED
    BY <1>1, <2>2, <2>4, <2>5, <2>6 DEF TokenEnd
<1>4. CASE ~(buffer[p] = "-" /\ buffer[p + 1] = ">")
  <2>1. buffer[p] \in symbols /\ PossibleEnd(p) = p + 1
    BY <1>1, <1>2, <1>4 DEF isSymbol
  <2>2. {buffer[p], buffer[p + 1]} \cap symbols # {}
    BY <2>1
  <2>3. EndsToken(origin[p])
    BY <1>1, <1>4, <2>2, EndsIs
  <2>4. PossibleEnd(p) - 1 = p
    BY <1>1, <2>1
  <2>. QED
    BY <2>1, <2>3, <2>4, EndsAtOnce
<1>. QED
  BY <1>3, <1>4

(* What is no symbol to the lexer is none. *)
LEMMA NoSymbol ==
  ASSUME Prepared, NEW p, Begins(p), Class(p) # "Symbol"
  PROVE  buffer[p] \notin symbols
<1>1. /\ Size \in Nat /\ p \in 1 .. Size /\ End = Size + 2
      /\ buffer[Size + 1] \in Space
  BY BufferIs DEF Begins
<1>2. isSymbol(p) = End
  BY Zenon DEF Class
<1>3. CASE buffer[p] = "-" /\ buffer[p + 1] = ">"
  <2>1. p # Size
    <3>1. ">" \in symbols
      BY Classes
    <3>. QED
      BY <1>1, <1>3, <3>1, Classes
  <2>. QED
    BY <1>1, <1>2, <1>3, <2>1 DEF isSymbol
<1>4. CASE ~(buffer[p] = "-" /\ buffer[p + 1] = ">")
  BY <1>1, <1>2, <1>4 DEF isSymbol
<1>. QED
  BY <1>3, <1>4

(* The digits from p on. *)
LEMMA DigitsAre ==
  ASSUME Prepared, NEW p, Begins(p), buffer[p] \in Digit
  PROVE  /\ PastAll(p, Digit) \in p + 1 .. Size + 1
         /\ \A j \in p .. PastAll(p, Digit) - 1 : buffer[j] \in Digit
         /\ buffer[PastAll(p, Digit)] \notin Digit
<1>1. /\ Size \in Nat /\ p \in 1 .. Size /\ End = Size + 2 /\ Len(buffer) = Size + 1
      /\ buffer[Size + 1] \notin Digit /\ buffer \in Seq(Char) /\ p \in 1 .. Len(buffer)
  BY BufferIs, Classes DEF Begins
<1>2. /\ PastAll(p, Digit) \in p .. End
      /\ \A j \in p .. PastAll(p, Digit) - 1 : buffer[j] \in Digit
      /\ PastAll(p, Digit) # End => buffer[PastAll(p, Digit)] \notin Digit
  BY <1>1, SearchIs
<1>3. PICK e : e = PastAll(p, Digit)
  OBVIOUS
<1>4. e # End
  BY <1>1, <1>2, <1>3
<1>5. e # p
  BY <1>2, <1>3, <1>4
<1>. QED
  BY <1>1, <1>2, <1>3, <1>4, <1>5

(* Before the first digit of a word there is nothing, or a symbol. *)
LEMMA NumberBegins ==
  ASSUME Prepared, NEW p, Begins(p), buffer[p] \in Digit, Meant(origin[p] - 1)
  PROVE  text[origin[p] - 1] \in symbols
<1>1. p \in 1 .. Size /\ Size \in Nat
  BY BufferIs DEF Begins
<1>2. /\ p - 1 \in 1 .. Size /\ origin[p - 1] = origin[p] - 1
      /\ buffer[p - 1] \notin Space /\ buffer[p - 1] = text[origin[p] - 1]
  BY <1>1, PlaceBefore
<1>3. EndsToken(origin[p - 1]) /\ (p - 1) + 1 = p
  BY <1>1, <1>2 DEF Begins
<1>4. buffer[p] \notin Space /\ buffer[p] \notin symbols
  BY Classes
<1>5. {buffer[p - 1], buffer[p]} \cap symbols # {}
  BY <1>2, <1>3, <1>4, EndsIs
<1>. QED
  BY <1>2, <1>4, <1>5

LEMMA LiteralEnds ==
  ASSUME Prepared, NEW p, Begins(p), Class(p) = "Literal"
  PROVE  /\ TokenEnd(p, PossibleEnd(p) - 1)
         /\ \/ buffer[p] = "n" /\ PossibleEnd(p) - 1 = p
            \/ buffer[p] \in Digit
<1>1. /\ Size \in Nat /\ p \in 1 .. Size /\ buffer[p] \notin Space /\ End = Size + 2
      /\ buffer[Size + 1] \in Space /\ p + 1 # End
  BY BufferIs DEF Begins
<1>2. isLiteral(p) # End /\ PossibleEnd(p) = isLiteral(p)
  BY Zenon DEF Class, PossibleEnd
<1>3. CASE buffer[p] = "n" /\ buffer[p + 1] \in symbols \cup Space
  <2>1. PossibleEnd(p) = p + 1
    BY <1>1, <1>2, <1>3, Classes DEF isLiteral
  <2>2. EndsToken(origin[p])
    <3>1. buffer[p] # "-"
      BY <1>3
    <3>. QED
      BY <1>1, <1>3, <3>1, EndsIs
  <2>3. PossibleEnd(p) - 1 = p
    BY <1>1, <2>1
  <2>. QED
    BY <1>3, <2>2, <2>3, EndsAtOnce
<1>4. CASE ~(buffer[p] = "n" /\ buffer[p + 1] \in symbols \cup Space)
  <2>1. buffer[p] \in Digit /\ PossibleEnd(p) = PastAll(p, Digit)
    BY <1>1, <1>2, <1>4 DEF isLiteral
  <2>2. PICK e : e = PastAll(p, Digit) - 1
    OBVIOUS
  <2>3. /\ PossibleEnd(p) - 1 = e /\ e \in p .. Size /\ e + 1 = PastAll(p, Digit)
        /\ \A j \in p .. e : buffer[j] \in Digit
        /\ buffer[e + 1] \notin Digit
    BY <1>1, <2>1, <2>2, DigitsAre
  <2>4. \A j \in p .. e : j \in 1 .. Size /\ buffer[j] \notin Space /\ buffer[j] \notin symbols
    BY <1>1, <2>3, Classes
  <2>5. ASSUME NEW j \in p .. e, j # e
        PROVE  ~EndsToken(origin[j])
    <3>1. j + 1 \in p .. e
      BY <1>1, <2>3, <2>5
    <3>2. j \in 1 .. Size /\ buffer[j] \notin Space /\ buffer[j] \notin symbols
      BY <2>4
    <3>3. buffer[j + 1] \in Digit /\ buffer[j + 1] \notin Space /\ buffer[j + 1] \notin symbols
      BY <2>3, <2>4, <3>1
    <3>. QED
      BY <3>2, <3>3, EndsIs
  <2>6. InNumber(origin[e])
    <3>1. origin[e] = origin[p] + (e - p) /\ \A j \in p .. e : origin[j] = origin[p] + (j - p)
      <4>1. \A j \in p .. e : origin[j] = origin[p] + (j - p)
        BY <1>1, <2>3, <2>4, WordTogether
      <4>2. e \in p .. e
        BY <1>1, <2>3
      <4>. QED
        BY <4>1, <4>2
    <3>2. origin[p] \in Nat \ {0} /\ origin[p] \in 1 .. origin[e] /\ p \in Nat /\ e \in Nat
      BY <1>1, <2>3, <3>1, PlaceIs
    <3>3. ASSUME NEW q \in origin[p] .. origin[e]
          PROVE  Meant(q) /\ text[q] \in Digit
      <4>1. PICK j \in p .. e : q = origin[j]
        <5>1. p + (q - origin[p]) \in p .. e
          BY <3>1, <3>2
        <5>2. origin[p + (q - origin[p])] = origin[p] + ((p + (q - origin[p])) - p)
          BY <3>1, <5>1
        <5>3. origin[p] + ((p + (q - origin[p])) - p) = q
          BY <3>2
        <5>. QED
          BY <5>1, <5>2, <5>3
      <4>. QED
        BY <2>3, <2>4, <4>1, PlaceIs
    <3>4. Meant(origin[p] - 1) => text[origin[p] - 1] \in symbols
      BY <2>1, NumberBegins
    <3>. QED
      BY <3>2, <3>3, <3>4 DEF InNumber
  <2>7. EndsToken(origin[e])
    <3>1. e \in p .. e
      BY <1>1, <2>3
    <3>. QED
      BY <2>3, <2>4, <2>6, <3>1, EndsIs
  <2>. QED
    BY <2>1, <2>3, <2>4, <2>5, <2>7 DEF TokenEnd
<1>. QED
  BY <1>3, <1>4

LEMMA WordEnds ==
  ASSUME Prepared, NEW p, Begins(p), Class(p) \notin {"Symbol", "Literal"}
  PROVE  /\ TokenEnd(p, PossibleEnd(p) - 1)
         /\ PossibleEnd(p) = isIdentifier(p) /\ isIdentifier(p) # End
         /\ buffer[p] \notin Digit
         /\ ~(buffer[p] = "n" /\ PossibleEnd(p) - 1 = p)
<1>. DEFINE S == Space \cup symbols
<1>1. /\ Size \in Nat /\ p \in 1 .. Size /\ buffer[p] \notin Space /\ End = Size + 2
      /\ Len(buffer) = Size + 1 /\ buffer[Size + 1] \in Space /\ p + 1 # End
      /\ buffer \in Seq(Char) /\ p \in 1 .. Len(buffer) /\ buffer[p] \notin symbols
  BY BufferIs, NoSymbol, SMTT(20) DEF Begins
<1>2. isSymbol(p) = End /\ isLiteral(p) = End
  BY Zenon DEF Class
<1>3. buffer[p] \notin Digit
  <2>. SUFFICES ASSUME buffer[p] \in Digit PROVE FALSE
    OBVIOUS
  <2>1. isLiteral(p) = PastAll(p, Digit)
    BY Classes DEF isLiteral
  <2>. QED
    BY <1>1, <1>2, <2>1, DigitsAre
<1>4. PICK e : e = isIdentifier(p) - 1
  OBVIOUS
<1>5. /\ isIdentifier(p) \in p .. End
      /\ \A j \in p .. isIdentifier(p) - 1 : buffer[j] \notin S
      /\ isIdentifier(p) # End => buffer[isIdentifier(p)] \in S
  <2>. HIDE DEF S
  <2>1. isIdentifier(p) = UpTo(p, S)
    BY DEF isIdentifier, S
  <2>. QED
    BY <1>1, <2>1, SearchIs
<1>6. /\ e \in p .. Size /\ isIdentifier(p) = e + 1 /\ isIdentifier(p) # End
      /\ \A j \in p .. e : buffer[j] \notin S
      /\ buffer[e + 1] \in S
  <2>1. isIdentifier(p) # End
    <3>. SUFFICES ASSUME isIdentifier(p) = End PROVE FALSE
      OBVIOUS
    <3>1. Size + 1 \in p .. isIdentifier(p) - 1
      BY <1>1
    <3>. QED
      BY <1>1, <1>5, <3>1
  <2>2. isIdentifier(p) # p
    BY <1>1, <1>5, <2>1
  <2>3. e \in p .. Size /\ isIdentifier(p) = e + 1
    BY <1>1, <1>4, <1>5, <2>1, <2>2
  <2>. QED
    BY <1>4, <1>5, <2>1, <2>3
<1>7. PossibleEnd(p) = isIdentifier(p) /\ PossibleEnd(p) - 1 = e
  <2>1. Class(p) \in {"Keyword", "Identifier"}
    BY <1>6 DEF Class
  <2>2. PossibleEnd(p) = isIdentifier(p)
    BY <2>1 DEF PossibleEnd
  <2>. QED
    BY <1>1, <1>6, <2>2
<1>8. \A j \in p .. e : j \in 1 .. Size /\ buffer[j] \notin Space /\ buffer[j] \notin symbols
  BY <1>1, <1>6
<1>9. ASSUME NEW j \in p .. e, InNumber(origin[j])
      PROVE  FALSE
  <2>1. PICK s \in 1 .. origin[j] :
          /\ \A q \in s .. origin[j] : Meant(q) /\ text[q] \in Digit
          /\ Meant(s - 1) => text[s - 1] \in symbols
    BY <1>9 DEF InNumber
  <2>2. /\ \A k \in p .. j : origin[k] = origin[p] + (k - p)
        /\ origin[j] = origin[p] + (j - p) /\ origin[p] \in Nat /\ j \in Nat /\ p \in Nat
    <3>1. j \in p .. Size /\ j \in p .. j /\ \A k \in p .. j : k \in p .. e
      BY <1>1, <1>6
    <3>2. \A k \in p .. j : buffer[k] \notin Space
      BY <1>8, <3>1
    <3>3. \A k \in p .. j : origin[k] = origin[p] + (k - p)
      BY <1>1, <3>1, <3>2, WordTogether
    <3>. QED
      BY <1>1, <3>1, <3>3, PlaceIs
  <2>3. CASE s <= origin[p]
    <3>1. origin[p] \in s .. origin[j]
      BY <2>2, <2>3
    <3>. QED
      BY <1>1, <1>3, <2>1, <3>1, PlaceIs
  <2>4. CASE ~(s <= origin[p])
    <3>1. PICK k \in p .. j : origin[k] = s - 1
      <4>1. p + ((s - 1) - origin[p]) \in p .. j
        BY <2>2, <2>4
      <4>2. origin[p + ((s - 1) - origin[p])] = origin[p] + ((p + ((s - 1) - origin[p])) - p)
        BY <2>2, <4>1
      <4>3. origin[p] + ((p + ((s - 1) - origin[p])) - p) = s - 1
        BY <2>2
      <4>. QED
        BY <4>1, <4>2, <4>3
    <3>2. k \in p .. e
      BY <1>1, <1>6, <2>2
    <3>3. Meant(s - 1) /\ text[s - 1] \notin symbols
      BY <1>8, <3>1, <3>2, PlaceIs
    <3>. QED
      BY <2>1, <3>3
  <2>. QED
    BY <2>3, <2>4
<1>10. ASSUME NEW j \in p .. e, j # e
       PROVE  ~EndsToken(origin[j])
  <2>1. j + 1 \in p .. e
    BY <1>1, <1>6, <1>10
  <2>2. /\ j \in 1 .. Size /\ buffer[j] \notin Space /\ buffer[j] \notin symbols
        /\ buffer[j + 1] \notin Space /\ buffer[j + 1] \notin symbols
    BY <1>8, <2>1
  <2>3. ~InNumber(origin[j])
    BY <1>9
  <2>4. {buffer[j], buffer[j + 1]} \cap symbols = {}
    BY <2>2
  <2>. QED
    BY <2>2, <2>3, <2>4, EndsIs
<1>11. EndsToken(origin[e])
  <2>1. e \in p .. e
    BY <1>1, <1>6
  <2>2. e \in 1 .. Size /\ buffer[e] \notin Space /\ buffer[e] \notin symbols
    BY <1>8, <2>1
  <2>3. buffer[e] # "-"
    BY <2>2, Classes
  <2>. QED
    BY <1>6, <2>2, <2>3, EndsIs
<1>12. ~(buffer[p] = "n" /\ e = p)
  <2>. SUFFICES ASSUME buffer[p] = "n", e = p PROVE FALSE
    OBVIOUS
  <2>1. isLiteral(p) = p + 1
    BY <1>1, <1>6, Classes DEF isLiteral
  <2>. QED
    BY <1>1, <1>2, <2>1
<1>. QED
  BY <1>3, <1>6, <1>7, <1>8, <1>10, <1>11, <1>12 DEF TokenEnd

(***************************************************************************)
(* The token read is the one of the text: the same characters, of the      *)
(* class they are meant to have.                                           *)
(***************************************************************************)
LEMMA SameWord ==
  ASSUME Prepared, NEW p, Begins(p), NEW e, TokenEnd(p, e)
  PROVE  /\ SubSeq(text, origin[p], origin[e]) = SubSeq(buffer, p, e)
         /\ SubSeq(buffer, p, e) \in Seq(Char)
         /\ SubSeq(buffer, p, e)[1] = buffer[p]
         /\ Len(SubSeq(buffer, p, e)) = e - p + 1
<1>1. /\ Size \in Nat /\ p \in 1 .. Size /\ e \in p .. Size /\ e \in p .. e
      /\ \A j \in p .. e : j \in 1 .. Size /\ buffer[j] \notin Space
      /\ Len(buffer) = Size + 1 /\ buffer \in Seq(Char)
  BY BufferIs DEF Begins, TokenEnd
<1>2. /\ \A j \in p .. e : origin[j] = origin[p] + (j - p)
      /\ origin[e] = origin[p] + (e - p) /\ origin[p] \in Nat
  <2>1. \A j \in p .. e : origin[j] = origin[p] + (j - p)
    BY <1>1, WordTogether
  <2>. QED
    BY <1>1, <2>1, PlaceIs
<1>3. \A j \in p .. e : buffer[j] = text[origin[p] + (j - p)] /\ buffer[j] \in Char
  <2>1. \A j \in p .. e : buffer[j] = text[origin[p] + (j - p)]
    BY <1>1, <1>2, PlaceIs
  <2>2. \A j \in p .. e : j \in 1 .. Len(buffer)
    BY <1>1
  <2>. QED
    BY <1>1, <2>1, <2>2
<1>4. /\ SubSeq(buffer, p, e) \in Seq(Char) /\ Len(SubSeq(buffer, p, e)) = e - p + 1
      /\ \A k \in 1 .. e - p + 1 : SubSeq(buffer, p, e)[k] = buffer[p + k - 1]
  BY <1>1, <1>3, SubSeqProperties
<1>5. /\ SubSeq(text, origin[p], origin[e]) \in Seq(Char)
      /\ Len(SubSeq(text, origin[p], origin[e])) = e - p + 1
      /\ \A k \in 1 .. e - p + 1 :
           SubSeq(text, origin[p], origin[e])[k] = text[origin[p] + k - 1]
  <2>. DEFINE a == origin[p]
              b == origin[e]
  <2>1. a \in Int /\ b \in Int /\ a <= b /\ b - a + 1 = e - p + 1
    BY <1>1, <1>2
  <2>2. \A q \in a .. b : text[q] \in Char
    <3>. SUFFICES ASSUME NEW q \in a .. b PROVE text[q] \in Char
      OBVIOUS
    <3>1. p + (q - a) \in p .. e /\ a + ((p + (q - a)) - p) = q
      BY <1>1, <1>2
    <3>. QED
      BY <1>3, <3>1
  <2>. HIDE DEF a, b
  <2>3. /\ SubSeq(text, a, b) \in Seq(Char) /\ Len(SubSeq(text, a, b)) = b - a + 1
        /\ \A k \in 1 .. b - a + 1 : SubSeq(text, a, b)[k] = text[a + k - 1]
    BY <2>1, <2>2, SubSeqProperties
  <2>. QED
    BY <2>1, <2>3 DEF a, b
<1>6. \A k \in 1 .. e - p + 1 :
        SubSeq(text, origin[p], origin[e])[k] = SubSeq(buffer, p, e)[k]
  <2>. SUFFICES ASSUME NEW k \in 1 .. e - p + 1
                PROVE  text[origin[p] + k - 1] = buffer[p + k - 1]
    BY <1>4, <1>5
  <2>1. p + k - 1 \in p .. e /\ origin[p] + ((p + k - 1) - p) = origin[p] + k - 1
    BY <1>1, <1>2
  <2>. QED
    BY <1>3, <2>1
<1>7. SubSeq(text, origin[p], origin[e]) = SubSeq(buffer, p, e)
  BY <1>4, <1>5, <1>6, SeqEqual
<1>8. SubSeq(buffer, p, e)[1] = buffer[p]
  <2>1. 1 \in 1 .. e - p + 1 /\ p + 1 - 1 = p
    BY <1>1
  <2>. QED
    BY <1>4, <2>1
<1>. QED
  BY <1>4, <1>7, <1>8

LEMMA TokenRead ==
  ASSUME Prepared, NEW p, Begins(p)
  PROVE  /\ TokenEnd(p, PossibleEnd(p) - 1)
         /\ Class(p) = TypeOf(SubSeq(text, origin[p], origin[PossibleEnd(p) - 1]))
<1>. DEFINE e == PossibleEnd(p) - 1
            v == SubSeq(buffer, p, e)
<1>1. ASSUME TokenEnd(p, e)
      PROVE  /\ SubSeq(text, origin[p], origin[e]) = v /\ v[1] = buffer[p]
             /\ v = <<"n">> <=> buffer[p] = "n" /\ e = p
  <2>1. /\ SubSeq(text, origin[p], origin[e]) = v /\ v \in Seq(Char) /\ v[1] = buffer[p]
        /\ Len(v) = e - p + 1
    BY <1>1, SameWord
  <2>2. p \in Int /\ e \in Int
    BY <1>1, BufferIs DEF TokenEnd, Begins
  <2>. HIDE DEF v, e
  <2>3. ASSUME v[1] = "n", Len(v) = 1 PROVE v = <<"n">>
    <3>1. <<"n">> \in Seq(Char) /\ Len(<<"n">>) = 1 /\ <<"n">>[1] = "n"
      BY LexerAssumption DEF LexerAssumption
    <3>2. \A k \in 1 .. 1 : k = 1
      OBVIOUS
    <3>3. Len(v) = Len(<<"n">>) /\ \A k \in 1 .. Len(v) : v[k] = <<"n">>[k]
      BY <2>3, <3>1, <3>2
    <3>. QED
      BY <2>1, <3>1, <3>3, SeqEqual
  <2>4. v = <<"n">> => v[1] = "n" /\ Len(v) = 1
    OBVIOUS
  <2>. QED
    BY <2>1, <2>2, <2>3, <2>4
<1>2. CASE Class(p) = "Symbol"
  <2>1. TokenEnd(p, e) /\ buffer[p] \in symbols
    BY <1>2, SymbolEnds
  <2>. HIDE DEF v, e
  <2>2. TypeOf(v) = "Symbol"
    BY <1>1, <2>1 DEF TypeOf
  <2>. QED
    BY <1>1, <1>2, <2>1, <2>2 DEF e
<1>3. CASE Class(p) = "Literal"
  <2>1. TokenEnd(p, e) /\ ((buffer[p] = "n" /\ e = p) \/ buffer[p] \in Digit)
    BY <1>3, LiteralEnds
  <2>2. buffer[p] \notin symbols
    BY <2>1, Classes
  <2>. HIDE DEF v, e
  <2>3. TypeOf(v) = "Literal"
    BY <1>1, <2>1, <2>2 DEF TypeOf
  <2>. QED
    BY <1>1, <1>3, <2>1, <2>3 DEF e
<1>4. CASE Class(p) \notin {"Symbol", "Literal"}
  <2>1. /\ TokenEnd(p, e) /\ PossibleEnd(p) = isIdentifier(p) /\ isIdentifier(p) # End
        /\ buffer[p] \notin Digit /\ ~(buffer[p] = "n" /\ e = p)
    BY <1>4, WordEnds
  <2>2. buffer[p] \notin symbols
    BY <1>4, NoSymbol
  <2>3. Class(p) = IF isKeyword(p) # End THEN "Keyword" ELSE "Identifier"
    <3>1. isSymbol(p) = End /\ isLiteral(p) = End
      BY <1>4, Zenon DEF Class
    <3>. QED
      BY <2>1, <3>1 DEF Class
  <2>4. isKeyword(p) # End <=> v \in Keywords
    BY <2>1 DEF isKeyword
  <2>. HIDE DEF v, e
  <2>5. TypeOf(v) = IF v \in Keywords THEN "Keyword" ELSE "Identifier"
    BY <1>1, <2>1, <2>2 DEF TypeOf
  <2>. QED
    BY <1>1, <2>1, <2>3, <2>4, <2>5 DEF e
<1>. QED
  BY <1>2, <1>3, <1>4

-----------------------------------------------------------------------------
(***************************************************************************)
(* Counting the tokens of the text.                                        *)
(***************************************************************************)
LEMMA EndsFinite ==
  ASSUME text \in Seq(Char)
  PROVE  IsFiniteSet(Ends) /\ Ends \subseteq Nat \ {0}
<1>1. IsFiniteSet(1 .. Len(text)) /\ Ends \in SUBSET (1 .. Len(text))
  BY FS_Interval DEF Ends
<1>2. IsFiniteSet(Ends)
  BY <1>1, FS_Subset
<1>. QED
  BY <1>1, <1>2

LEMMA NthIs ==
  ASSUME text \in Seq(Char), NEW z
  PROVE  Nth(Ends, z) \in Nat /\ Cardinality(Ends) \in Nat /\ Nth(Ends, z) <= Cardinality(Ends)
<1>. DEFINE D == {d \in Ends : d <= z}
<1>1. IsFiniteSet(Ends) /\ D \in SUBSET Ends
  BY EndsFinite
<1>2. IsFiniteSet(D) /\ Cardinality(D) <= Cardinality(Ends)
  BY <1>1, FS_Subset
<1>. QED
  BY <1>1, <1>2, FS_CardinalityType DEF Nth

LEMMA NthPositive ==
  ASSUME text \in Seq(Char), NEW d \in Ends
  PROVE  Nth(Ends, d) # 0
<1>. DEFINE D == {x \in Ends : x <= d}
<1>1. IsFiniteSet(Ends) /\ D \in SUBSET Ends /\ d \in Nat
  BY EndsFinite
<1>2. d \in D
  BY <1>1
<1>3. IsFiniteSet(D)
  BY <1>1, FS_Subset
<1>. HIDE DEF D
<1>4. Cardinality(D) # 0
  BY <1>2, <1>3, FS_EmptySet
<1>. QED
  BY <1>4 DEF Nth, D

(* The next token is counted next. *)
LEMMA NthNext ==
  ASSUME text \in Seq(Char), NEW z \in Nat, NEW e \in Ends, z < e,
         \A d \in Ends : d <= e => d <= z \/ d = e
  PROVE  Nth(Ends, e) = Nth(Ends, z) + 1
<1>. DEFINE D == {d \in Ends : d <= z}
<1>1. IsFiniteSet(Ends) /\ D \in SUBSET Ends /\ Ends \subseteq Nat \ {0}
  BY EndsFinite
<1>2. IsFiniteSet(D)
  BY <1>1, FS_Subset
<1>3. {d \in Ends : d <= e} = D \cup {e} /\ e \notin D
  <2>1. e \in Nat /\ \A d \in Ends : d \in Nat
    BY <1>1
  <2>2. \A d \in Ends : d <= e <=> d <= z \/ d = e
    BY <2>1
  <2>3. e \notin D
    BY <2>1
  <2>. QED
    BY <2>2, <2>3
<1>4. Cardinality(D \cup {e}) = Cardinality(D) + 1
  BY <1>2, <1>3, FS_AddElement
<1>. QED
  BY <1>3, <1>4 DEF Nth

(* No two tokens have the same number. *)
LEMMA NthOnce ==
  ASSUME text \in Seq(Char), NEW d \in Ends, NEW e \in Ends, Nth(Ends, d) = Nth(Ends, e)
  PROVE  d = e
<1>1. ASSUME NEW a \in Ends, NEW b \in Ends, a < b
      PROVE  Nth(Ends, a) # Nth(Ends, b)
  <2>. DEFINE A == {x \in Ends : x <= a}
              B == {x \in Ends : x <= b}
  <2>1. IsFiniteSet(Ends) /\ B \in SUBSET Ends /\ Ends \subseteq Nat \ {0}
    BY EndsFinite
  <2>2. IsFiniteSet(B)
    BY <2>1, FS_Subset
  <2>3. A \in SUBSET B /\ b \in B /\ b \notin A
    <3>1. a \in Nat /\ b \in Nat /\ \A x \in Ends : x \in Nat
      BY <2>1
    <3>2. \A x \in Ends : x <= a => x <= b
      BY <1>1, <3>1
    <3>3. b <= b /\ ~(b <= a)
      BY <1>1, <3>1
    <3>. QED
      BY <3>2, <3>3
  <2>. HIDE DEF A, B
  <2>4. Cardinality(B) # Cardinality(A)
    BY <2>2, <2>3, FS_Subset
  <2>. QED
    BY <2>4 DEF Nth, A, B
<1>2. d \in Nat /\ e \in Nat
  BY EndsFinite
<1>. QED
  BY <1>1, <1>2

(***************************************************************************)
(* What the lexer has read: as many tokens as end before the place it has  *)
(* come to, the end of one of them, each as it is meant.                   *)
(***************************************************************************)
Reached == IF itr = 1 THEN 0 ELSE origin[itr - 1]

ReadAsMeant ==
  \A e \in Ends : Nth(Ends, e) <= Len(tokens) =>
    LET at == StartOf(Ends, e)
        value == SubSeq(text, at, e)
    IN  IsToken(tokens[Nth(Ends, e)], TypeOf(value), value, at)

BetweenTokens ==
  /\ itr # 1 => /\ itr - 1 \in 1 .. Size
                /\ buffer[itr - 1] \notin Space
                /\ EndsToken(origin[itr - 1])
  /\ Len(tokens) = Nth(Ends, Reached)
  /\ tokens # << >> => tokens[Len(tokens)].type # "EndOfFile"

AtTheEnd ==
  /\ Len(tokens) = Cardinality(Ends) + 1
  /\ IsToken(tokens[Len(tokens)], "EndOfFile", << >>, Len(text) + 1)

ReadInv ==
  phase # "wrap" =>
    /\ ReadAsMeant
    /\ itr # End => BetweenTokens
    /\ itr = End => AtTheEnd
    /\ phase = "done" => \/ Len(tokens) >= MaxTokens
                         \/ tokens # << >> /\ tokens[Len(tokens)].type = "EndOfFile"

(* The property follows. *)
LEMMA ReadExactly ==
  ASSUME LexInv, ReadInv
  PROVE  TokensExact
<1>. SUFFICES ASSUME phase = "done" PROVE TokensExact
  BY DEF TokensExact
<1>. DEFINE n == Cardinality(Ends)
<1>1. /\ text \in Seq(Char) /\ Len(tokens) \in Nat /\ Len(tokens) <= MaxTokens
      /\ MaxTokens \in Nat /\ n \in Nat
  BY NthIs, LexerAssumption DEF LexInv, TypeOK, LexerAssumption
<1>2. ReadAsMeant
  BY DEF ReadInv
<1>3. CASE itr = End
  <2>1. Len(tokens) = n + 1 /\ IsToken(tokens[Len(tokens)], "EndOfFile", << >>, Len(text) + 1)
    BY <1>3 DEF ReadInv, AtTheEnd
  <2>2. n < MaxTokens
    BY <1>1, <2>1
  <2>. QED
    BY <1>2, <2>1, <2>2 DEF TokensExact, ReadAsMeant
<1>4. CASE itr # End
  <2>1. /\ Len(tokens) = Nth(Ends, Reached)
        /\ tokens # << >> => tokens[Len(tokens)].type # "EndOfFile"
    BY <1>4 DEF ReadInv, BetweenTokens
  <2>2. Len(tokens) >= MaxTokens
    BY <2>1 DEF ReadInv
  <2>3. Len(tokens) = MaxTokens
    BY <1>1, <2>2
  <2>4. ~(n < MaxTokens)
    <3>1. Nth(Ends, Reached) <= n
      BY <1>1, NthIs
    <3>. QED
      BY <1>1, <2>1, <2>3, <3>1
  <2>. QED
    BY <1>2, <2>3, <2>4 DEF TokensExact, ReadAsMeant
<1>. QED
  BY <1>3, <1>4

(* From the end of a token on only space is passed over. *)
LEMMA SkipsSpace ==
  ASSUME TypeOK
  PROVE  \A j \in itr .. skipToNextToken - 1 : buffer[j] \in Space
<1>1. buffer \in Seq(Char) /\ itr \in 1 .. End /\ Len(buffer) \in Nat /\ End = Len(buffer) + 1
  BY DEF TypeOK, End
<1>2. CASE itr = End
  BY <1>1, <1>2, SkipIs
<1>3. CASE itr # End
  <2>1. itr \in 1 .. Len(buffer)
    BY <1>1, <1>3
  <2>. QED
    BY <1>1, <2>1, SearchIs DEF skipToNextToken
<1>. QED
  BY <1>2, <1>3

LEMMA ReadingIs ==
  ASSUME Prepared, ReadInv, Lexing
  PROVE  itr # End /\ BetweenTokens
<1>. SUFFICES ASSUME itr = End PROVE FALSE
  BY DEF Prepared, ReadInv
<1>1. AtTheEnd
  BY DEF Prepared, ReadInv
<1>2. Len(tokens) = Cardinality(Ends) + 1 /\ tokens[Len(tokens)].type = "EndOfFile"
  BY <1>1 DEF AtTheEnd, IsToken
<1>3. Cardinality(Ends) \in Nat /\ tokens # << >>
  <2>1. Cardinality(Ends) \in Nat
    BY NthIs DEF Prepared, LexInv, TypeOK
  <2>. QED
    BY <1>2, <2>1
<1>. QED
  BY <1>2, <1>3 DEF Lexing

(* Between two tokens the lexer is where one may begin. *)
LEMMA SkipBegins ==
  ASSUME Prepared, ReadInv, Lexing, skipToNextToken # End
  PROVE  Begins(skipToNextToken)
<1>. DEFINE p == skipToNextToken
<1>1. /\ p \in itr .. End /\ p \in 1 .. Len(buffer) /\ buffer[p] \notin Space
      /\ \A j \in itr .. p - 1 : buffer[j] \in Space
      /\ itr \in 1 .. End
  BY SkipIs, SkipsSpace DEF Prepared, LexInv, TypeOK
<1>. HIDE DEF p
<1>2. Size \in Nat /\ Len(buffer) = Size + 1 /\ buffer[Size + 1] \in Space /\ End = Size + 2
  BY BufferIs
<1>3. p \in 1 .. Size
  BY <1>1, <1>2
<1>4. ASSUME p > 1, buffer[p - 1] \notin Space
      PROVE  EndsToken(origin[p - 1])
  <2>1. p = itr
    BY <1>1, <1>2, <1>4
  <2>2. BetweenTokens
    BY ReadingIs
  <2>. QED
    BY <1>1, <1>2, <1>4, <2>1, <2>2 DEF BetweenTokens
<1>5. Begins(p)
  BY <1>1, <1>3, <1>4 DEF Begins
<1>. QED
  BY <1>5 DEF p

(* What is meant behind the place reached is from where the next begins. *)
LEMMA BehindReached ==
  ASSUME Prepared, BetweenTokens, NEW j \in 1 .. Size, buffer[j] \notin Space
  PROVE  /\ origin[j] > Reached <=> j >= itr
         /\ origin[j] > Reached => j >= skipToNextToken
         /\ Reached \in Nat
<1>1. Size \in Nat /\ itr \in Nat \ {0} /\ origin[j] \in Nat \ {0}
  <2>1. Size \in Nat
    BY BufferIs
  <2>2. TypeOK
    BY DEF Prepared, LexInv
  <2>3. itr \in 1 .. End /\ End \in Int
    BY <2>1, <2>2 DEF TypeOK, End
  <2>4. origin[j] \in Nat \ {0}
    BY PlaceIs
  <2>. QED
    BY <2>1, <2>3, <2>4
<1>2. Reached \in Nat /\ (origin[j] > Reached <=> j >= itr)
  <2>1. CASE itr = 1
    BY <1>1, <2>1 DEF Reached
  <2>2. CASE itr # 1
    <3>1. itr - 1 \in 1 .. Size /\ Reached = origin[itr - 1]
      BY <2>2 DEF BetweenTokens, Reached
    <3>2. itr - 1 < j <=> origin[itr - 1] < origin[j]
      BY <3>1, PlacesOrdered
    <3>3. origin[itr - 1] \in Nat
      BY <3>1, PlaceIs
    <3>. QED
      BY <1>1, <3>1, <3>2, <3>3
  <2>. QED
    BY <2>1, <2>2
<1>3. ASSUME j >= itr PROVE j >= skipToNextToken
  <2>1. skipToNextToken \in itr .. End /\ \A k \in itr .. skipToNextToken - 1 : buffer[k] \in Space
    BY SkipIs, SkipsSpace DEF Prepared, LexInv
  <2>2. j \notin itr .. skipToNextToken - 1
    BY <2>1
  <2>3. End \in Nat
    BY BufferIs
  <2>. QED
    BY <1>1, <1>3, <2>1, <2>2, <2>3
<1>. QED
  BY <1>2, <1>3

(* The token read is the next one of the text, and begins where it should. *)
LEMMA ReadsNext ==
  ASSUME Prepared, ReadInv, Lexing, NEW p, p = skipToNextToken, p # End,
         NEW e, e = PossibleEnd(p) - 1
  PROVE  /\ Begins(p) /\ TokenEnd(p, e)
         /\ origin[e] \in Ends
         /\ Nth(Ends, origin[e]) = Len(tokens) + 1
         /\ StartOf(Ends, origin[e]) = origin[p]
<1>1. Begins(p) /\ BetweenTokens
  BY SkipBegins, ReadingIs
<1>2. TokenEnd(p, e)
  BY <1>1, TokenRead
<1>3. /\ Size \in Nat /\ p \in 1 .. Size /\ e \in p .. Size /\ e \in 1 .. Size /\ e \in p .. e
      /\ buffer[p] \notin Space /\ buffer[e] \notin Space /\ text \in Seq(Char)
      /\ \A j \in p .. e : buffer[j] \notin Space /\ (EndsToken(origin[j]) <=> j = e)
      /\ p \in itr .. End /\ itr \in Nat /\ p >= itr
  <2>1. /\ p \in 1 .. Size /\ buffer[p] \notin Space /\ e \in p .. Size
        /\ \A j \in p .. e : buffer[j] \notin Space
        /\ \A j \in p .. e : EndsToken(origin[j]) <=> j = e
    BY <1>1, <1>2 DEF Begins, TokenEnd
  <2>2. p \in itr .. End /\ itr \in Nat
    BY SkipIs DEF Prepared, LexInv, TypeOK
  <2>. QED
    BY <2>1, <2>2, BufferIs
<1>4. origin[e] \in Ends
  BY <1>3, PlaceIs DEF Ends
<1>5. Reached \in Nat /\ origin[e] > Reached /\ origin[p] > Reached
  <2>1. p >= itr /\ e >= itr
    BY <1>3
  <2>. QED
    BY <1>1, <1>3, <2>1, BehindReached
<1>6. origin[e] \in Nat /\ origin[p] \in Nat /\ origin[p] <= origin[e] /\ origin[p] \in 1 .. origin[e]
  <2>1. origin[e] \in 1 .. Len(text) /\ origin[p] \in 1 .. Len(text)
    BY <1>3, PlaceIs
  <2>2. ~(e < p)
    BY <1>3
  <2>3. ~(origin[e] < origin[p])
    BY <1>3, <2>2, PlacesOrdered
  <2>. QED
    BY <2>1, <2>3
<1>7. ASSUME NEW d \in Ends, d <= origin[e], ~(d <= Reached)
      PROVE  d = origin[e]
  <2>1. d \in Nat /\ Meant(d) /\ EndsToken(d)
    BY DEF Ends
  <2>2. PICK j \in 1 .. Size : origin[j] = d /\ buffer[j] \notin Space
    BY <2>1, PlaceOf
  <2>3. j >= p
    BY <1>1, <1>5, <1>7, <2>1, <2>2, BehindReached
  <2>4. ~(e < j)
    BY <1>3, <1>6, <1>7, <2>1, <2>2, PlacesOrdered
  <2>5. j \in p .. e
    BY <1>3, <2>3, <2>4
  <2>. QED
    BY <1>3, <2>1, <2>2, <2>5
<1>8. Nth(Ends, origin[e]) = Nth(Ends, Reached) + 1
  <2>1. \A d \in Ends : d <= origin[e] => d <= Reached \/ d = origin[e]
    BY <1>7
  <2>2. Reached < origin[e]
    BY <1>5, <1>6
  <2>3. Reached \in Nat /\ origin[e] \in Ends
    BY <1>4, <1>5
  <2>. HIDE DEF Reached
  <2>. QED
    BY <1>3, <2>1, <2>2, <2>3, NthNext
<1>9. StartOf(Ends, origin[e]) = origin[p]
  <2>. DEFINE S == {q \in 1 .. origin[e] : Meant(q) /\ \A d \in Ends : d < origin[e] => d < q}
  <2>1. origin[p] \in S
    <3>1. Meant(origin[p])
      BY <1>3, PlaceIs
    <3>2. ASSUME NEW d \in Ends, d < origin[e]
          PROVE  d < origin[p]
      <4>1. d \in Nat
        BY DEF Ends
      <4>2. d <= Reached
        BY <1>6, <1>7, <3>2, <4>1
      <4>. QED
        BY <1>5, <1>6, <4>1, <4>2
    <3>. QED
      BY <1>6, <3>1, <3>2
  <2>2. ASSUME NEW q \in S
        PROVE  origin[p] <= q
    <3>1. /\ q \in 1 .. origin[e] /\ Meant(q) /\ \A d \in Ends : d < origin[e] => d < q
          /\ q \in Nat
      BY <1>6
    <3>2. PICK j \in 1 .. Size : origin[j] = q /\ buffer[j] \notin Space
      BY <3>1, PlaceOf
    <3>3. q > Reached
      <4>1. CASE itr = 1
        BY <3>1, <4>1 DEF Reached
      <4>2. CASE itr # 1
        <5>1. /\ Reached = origin[itr - 1] /\ itr - 1 \in 1 .. Size
              /\ buffer[itr - 1] \notin Space /\ EndsToken(origin[itr - 1])
          BY <1>1, <4>2 DEF BetweenTokens, Reached
        <5>2. Reached \in Ends
          BY <5>1, PlaceIs DEF Ends
        <5>. QED
          BY <1>5, <1>6, <3>1, <5>2
      <4>. QED
        BY <4>1, <4>2
    <3>4. j >= p
      BY <1>1, <3>2, <3>3, BehindReached
    <3>5. ~(j < p)
      BY <1>3, <3>4
    <3>6. ~(origin[j] < origin[p])
      BY <1>3, <3>5, PlacesOrdered
    <3>. QED
      BY <1>6, <3>1, <3>2, <3>6
  <2>3. S \in SUBSET Nat /\ \A q \in S : q \in Nat
    BY <1>6
  <2>4. StartOf(Ends, origin[e]) = First(S, origin[e])
    BY DEF StartOf
  <2>. HIDE DEF S
  <2>5. First(S, origin[e]) \in S /\ \A q \in S : First(S, origin[e]) <= q
    BY <2>1, <2>3, FirstIs
  <2>6. First(S, origin[e]) \in Nat /\ First(S, origin[e]) <= origin[p] /\ origin[p] <= First(S, origin[e])
    BY <2>1, <2>2, <2>3, <2>5
  <2>. QED
    BY <1>6, <2>4, <2>6
<1>. QED
  BY <1>1, <1>2, <1>4, <1>8, <1>9 DEF BetweenTokens

(* The reference is about the text, which does not change. *)
LEMMA SameReference ==
  ASSUME text' = text
  PROVE  Ends' = Ends
BY DEF Ends, Meant, Commented, EndsToken, InNumber

LEMMA ReadTokenStep ==
  ASSUME LexInv, KeptInv, ReadInv, nextToken
  PROVE  ReadInv'
<1>. DEFINE p == skipToNextToken
            e == PossibleEnd(p) - 1
            L == Len(tokens)
<1>1. /\ Lexing /\ p # End /\ phase = "lex" /\ phase' = "lex"
      /\ tokens' = Append(tokens, Token(Class(p), SubSeq(buffer, p, PossibleEnd(p) - 1),
                                        origin[p], line'))
      /\ itr' = PossibleEnd(p)
      /\ UNCHANGED <<text, buffer, origin, phase>>
  BY DEF nextToken, Lexing, wrapVars
<1>2. Prepared
  BY <1>1 DEF Prepared
<1>3. /\ Begins(p) /\ TokenEnd(p, e) /\ origin[e] \in Ends
      /\ Nth(Ends, origin[e]) = L + 1 /\ StartOf(Ends, origin[e]) = origin[p]
  BY <1>1, <1>2, ReadsNext
<1>4. /\ SubSeq(text, origin[p], origin[e]) = SubSeq(buffer, p, e)
      /\ Class(p) = TypeOf(SubSeq(text, origin[p], origin[e]))
  BY <1>2, <1>3, SameWord, TokenRead
<1>5. /\ e \in 1 .. Size /\ buffer[e] \notin Space /\ EndsToken(origin[e])
      /\ Size \in Nat /\ End = Size + 2 /\ text \in Seq(Char) /\ e \in Nat /\ e \in Int
  <2>1. /\ e \in p .. Size /\ p \in 1 .. Size
        /\ \A j \in p .. e : buffer[j] \notin Space /\ (EndsToken(origin[j]) <=> j = e)
    BY <1>3 DEF Begins, TokenEnd
  <2>2. Size \in Nat /\ End = Size + 2 /\ text \in Seq(Char)
    BY <1>2, BufferIs
  <2>3. e \in p .. e /\ e \in 1 .. Size
    BY <2>1, <2>2
  <2>. QED
    BY <2>1, <2>2, <2>3
<1>6. itr' = e + 1
  <2>1. PossibleEnd(p) \in p .. End
    <3>1. Padded /\ buffer \in Seq(Char) /\ p \in 1 .. Len(buffer) /\ buffer[p] \notin Space
      <4>1. Padded /\ buffer \in Seq(Char)
        BY <1>2 DEF Prepared, LexInv, TypeOK
      <4>2. p \in 1 .. Size /\ buffer[p] \notin Space
        BY <1>3 DEF Begins
      <4>3. Len(buffer) = Size + 1
        BY <1>2, BufferIs
      <4>. QED
        BY <1>5, <4>1, <4>2, <4>3
    <3>. QED
      BY <3>1, TokenIs
  <2>2. PossibleEnd(p) \in Int
    BY <2>1
  <2>. QED
    BY <1>1, <2>2
<1>7. Class(p) # "EndOfFile"
  BY DEF Class
<1>8. /\ L \in Nat /\ Len(tokens') = L + 1 /\ tokens' # << >>
      /\ tokens'[L + 1].type = Class(p)
      /\ tokens'[L + 1].value = SubSeq(buffer, p, e)
      /\ tokens'[L + 1].at = origin[p]
      /\ \A t \in 1 .. L : tokens'[t] = tokens[t]
  <2>. DEFINE token == Token(Class(p), SubSeq(buffer, p, PossibleEnd(p) - 1), origin[p], line')
  <2>1. /\ token.type = Class(p) /\ token.value = SubSeq(buffer, p, e) /\ token.at = origin[p]
    BY DEF Token
  <2>2. PICK T : tokens \in Seq(T)
    BY DEF LexInv, TypeOK
  <2>3. tokens' = Append(tokens, token)
    BY <1>1
  <2>. HIDE DEF token, e, p
  <2>4. tokens \in Seq(T \cup {token}) /\ token \in T \cup {token}
    BY <2>2
  <2>5. /\ Len(tokens') = L + 1 /\ tokens'[L + 1] = token /\ L \in Nat
        /\ \A t \in 1 .. L : tokens'[t] = tokens[t]
    BY <2>3, <2>4, AppendProperties
  <2>6. tokens' # << >>
    BY <2>5
  <2>. QED
    BY <2>1, <2>5, <2>6
<1>. HIDE DEF e, p
<1>9. /\ Ends' = Ends /\ Size' = Size /\ End' = End
      /\ \A d : /\ (Nth(Ends, d))' = Nth(Ends, d) /\ (StartOf(Ends, d))' = StartOf(Ends, d)
                /\ (EndsToken(d))' = EndsToken(d)
  BY <1>1, SameReference DEF Size, End, Nth, StartOf, Meant, Commented, EndsToken, InNumber
<1>10. ReadAsMeant'
  <2>. SUFFICES ASSUME NEW d \in Ends, Nth(Ends, d) <= L + 1
                PROVE  LET at == StartOf(Ends, d)
                           value == SubSeq(text, at, d)
                       IN  IsToken(tokens'[Nth(Ends, d)], TypeOf(value), value, at)
    BY <1>1, <1>8, <1>9, ZenonT(40) DEF ReadAsMeant, TypeOf, IsToken
  <2>1. Nth(Ends, d) \in Nat /\ d \in Nat
    BY <1>5, NthIs, EndsFinite
  <2>2. CASE Nth(Ends, d) = L + 1
    <3>1. d = origin[e]
      BY <1>3, <1>5, <2>2, NthOnce
    <3>. QED
      BY <1>3, <1>4, <1>8, <2>2, <3>1 DEF IsToken
  <2>3. CASE Nth(Ends, d) # L + 1
    <3>1. Nth(Ends, d) <= L
      BY <1>8, <2>1, <2>3
    <3>2. Nth(Ends, d) # 0
      BY <1>5, NthPositive
    <3>3. tokens'[Nth(Ends, d)] = tokens[Nth(Ends, d)]
      BY <1>8, <2>1, <3>1, <3>2
    <3>4. ReadAsMeant
      BY <1>1 DEF ReadInv
    <3>. QED
      BY <3>1, <3>3, <3>4 DEF ReadAsMeant
  <2>. QED
    BY <2>2, <2>3
<1>11. BetweenTokens' /\ itr' # End'
  <2>1. itr' # 1 /\ itr' - 1 = e /\ itr' # End
    BY <1>5, <1>6
  <2>2. Reached' = origin[e]
    BY <1>1, <2>1 DEF Reached
  <2>3. Len(tokens') = (Nth(Ends, Reached))'
    BY <1>3, <1>8, <1>9, <2>2 DEF Nth
  <2>4. tokens'[Len(tokens')].type # "EndOfFile"
    BY <1>7, <1>8 DEF p
  <2>5. /\ itr' - 1 \in 1 .. Size' /\ buffer'[itr' - 1] \notin Space
        /\ (EndsToken(origin[itr - 1]))'
    BY <1>1, <1>5, <1>9, <2>1, SMTT(20) DEF EndsToken, InNumber, Meant, Commented
  <2>. QED
    BY <1>9, <2>1, <2>3, <2>4, <2>5 DEF BetweenTokens
<1>. QED
  BY <1>1, <1>10, <1>11 DEF ReadInv

LEMMA ReadEndStep ==
  ASSUME LexInv, KeptInv, ReadInv, EndOfFile
  PROVE  ReadInv'
<1>. DEFINE L == Len(tokens)
            n == Cardinality(Ends)
<1>1. /\ Lexing /\ skipToNextToken = End /\ phase = "lex" /\ phase' = "lex"
      /\ tokens' = Append(tokens, Token("EndOfFile", << >>, Len(text) + 1, line'))
      /\ itr' = End
      /\ UNCHANGED <<text, buffer, origin, phase>>
  BY DEF EndOfFile, Lexing, wrapVars
<1>2. Prepared /\ BetweenTokens
  <2>1. Prepared
    BY <1>1 DEF Prepared
  <2>. QED
    BY <1>1, <2>1, ReadingIs
<1>3. text \in Seq(Char) /\ n \in Nat /\ Size \in Nat /\ End = Size + 2
  BY <1>2, BufferIs, NthIs
<1>4. \A d \in Ends : d <= Reached
  <2>. SUFFICES ASSUME NEW d \in Ends, ~(d <= Reached) PROVE FALSE
    OBVIOUS
  <2>1. d \in Nat /\ Meant(d)
    BY DEF Ends
  <2>2. PICK j \in 1 .. Size : origin[j] = d /\ buffer[j] \notin Space
    BY <1>2, <2>1, PlaceOf
  <2>3. Reached \in Nat
    BY <1>2, <2>2, BehindReached
  <2>4. origin[j] > Reached
    BY <2>1, <2>2, <2>3
  <2>5. j >= skipToNextToken
    BY <1>2, <2>2, <2>4, BehindReached
  <2>. QED
    BY <1>1, <1>3, <2>5
<1>5. L = n
  <2>1. {d \in Ends : d <= Reached} = Ends
    BY <1>4
  <2>2. Nth(Ends, Reached) = n
    BY <2>1 DEF Nth
  <2>. QED
    BY <1>2, <2>2 DEF BetweenTokens
<1>6. /\ L \in Nat /\ Len(tokens') = L + 1 /\ tokens' # << >>
      /\ IsToken(tokens'[L + 1], "EndOfFile", << >>, Len(text) + 1)
      /\ \A t \in 1 .. L : tokens'[t] = tokens[t]
  <2>. DEFINE token == Token("EndOfFile", << >>, Len(text) + 1, line')
  <2>1. IsToken(token, "EndOfFile", << >>, Len(text) + 1)
    BY DEF Token, IsToken
  <2>2. PICK T : tokens \in Seq(T)
    BY DEF LexInv, TypeOK
  <2>3. tokens' = Append(tokens, token)
    BY <1>1
  <2>. HIDE DEF token
  <2>4. tokens \in Seq(T \cup {token}) /\ token \in T \cup {token}
    BY <2>2
  <2>5. /\ Len(tokens') = L + 1 /\ tokens'[L + 1] = token /\ L \in Nat
        /\ \A t \in 1 .. L : tokens'[t] = tokens[t]
    BY <2>3, <2>4, AppendProperties
  <2>6. tokens' # << >>
    BY <2>5
  <2>. QED
    BY <2>1, <2>5, <2>6
<1>7. /\ Ends' = Ends /\ End' = End
      /\ \A d : (Nth(Ends, d))' = Nth(Ends, d) /\ (StartOf(Ends, d))' = StartOf(Ends, d)
  BY <1>1, SameReference DEF End, Nth, StartOf, Meant, Commented
<1>8. ReadAsMeant'
  <2>. SUFFICES ASSUME NEW d \in Ends, Nth(Ends, d) <= L + 1
                PROVE  LET at == StartOf(Ends, d)
                           value == SubSeq(text, at, d)
                       IN  IsToken(tokens'[Nth(Ends, d)], TypeOf(value), value, at)
    BY <1>1, <1>6, <1>7, ZenonT(40) DEF ReadAsMeant, TypeOf, IsToken
  <2>1. Nth(Ends, d) \in 1 .. L
    <3>1. Nth(Ends, d) \in Nat /\ Nth(Ends, d) <= n /\ d \in Nat
      BY <1>3, NthIs, EndsFinite
    <3>2. Nth(Ends, d) # 0
      BY <1>3, NthPositive
    <3>. QED
      BY <1>5, <3>1, <3>2
  <2>2. tokens'[Nth(Ends, d)] = tokens[Nth(Ends, d)] /\ Nth(Ends, d) <= L
    BY <1>6, <2>1
  <2>3. ReadAsMeant
    BY <1>1 DEF ReadInv
  <2>. QED
    BY <2>2, <2>3 DEF ReadAsMeant
<1>9. AtTheEnd'
  <2>1. /\ Len(tokens') = Cardinality(Ends') + 1 /\ Len(tokens') = L + 1
    BY <1>5, <1>6, <1>7
  <2>. QED
    BY <1>1, <1>6, <2>1 DEF AtTheEnd, IsToken
<1>10. itr' = End'
  BY <1>1, <1>7
<1>. QED
  BY <1>1, <1>8, <1>9, <1>10 DEF ReadInv

LEMMA ReadPadStep ==
  ASSUME LexInv, Pad
  PROVE  ReadInv'
<1>1. /\ phase' = "lex" /\ itr' = 1 /\ tokens' = << >> /\ text' = text
      /\ text \in Seq(Char)
      /\ Len(buffer') \in Nat \ {0}
  <2>1. phase = "wrap" /\ phase' = "lex" /\ UNCHANGED <<text, lexVars>> /\ push_back(Blank)
    BY DEF Pad, Blank
  <2>2. itr = 1 /\ tokens = << >> /\ text \in Seq(Char) /\ buffer \in Seq(Char)
    BY <2>1 DEF LexInv, TypeOK
  <2>3. Len(buffer') = Len(buffer) + 1
    BY <2>1, <2>2, BlankIs, AppendProperties DEF push_back
  <2>. QED
    BY <2>1, <2>2, <2>3 DEF lexVars
<1>2. Len(tokens') = 0 /\ itr' # End'
  BY <1>1 DEF End
<1>3. Ends' = Ends
  BY <1>1, SameReference
<1>4. \A d : (Nth(Ends, d))' = Nth(Ends, d)
  BY <1>3 DEF Nth
<1>5. ReadAsMeant'
  <2>. SUFFICES ASSUME NEW d \in Ends, Nth(Ends, d) <= 0 PROVE FALSE
    BY <1>2, <1>3, <1>4 DEF ReadAsMeant
  <2>1. Nth(Ends, d) \in Nat \ {0}
    BY <1>1, NthIs, NthPositive
  <2>. QED
    BY <2>1
<1>6. BetweenTokens'
  <2>1. Reached' = 0
    BY <1>1 DEF Reached
  <2>2. Nth(Ends, 0) = 0
    <3>1. {d \in Ends : d <= 0} = {}
      BY <1>1, EndsFinite
    <3>. QED
      BY <3>1, FS_EmptySet DEF Nth
  <2>. QED
    BY <1>1, <1>2, <1>3, <2>1, <2>2 DEF BetweenTokens, Nth
<1>. QED
  BY <1>1, <1>2, <1>5, <1>6 DEF ReadInv

LEMMA ReadStep ==
  ASSUME LexInv, KeptInv, ReadInv, [Next \/ Done]_vars
  PROVE  ReadInv'
<1>1. CASE SkipComment \/ EndComment \/ StartComment \/ KeepChar \/ KeepSpace
  <2>1. phase' = "wrap"
    BY <1>1 DEF SkipComment, EndComment, StartComment, KeepChar, KeepSpace, Wrapped, Reading
  <2>. QED
    BY <2>1 DEF ReadInv
<1>2. CASE Finish \/ UNCHANGED vars
  <2>1. /\ UNCHANGED <<text, buffer, origin, itr, tokens>>
        /\ \/ phase' = phase
           \/ /\ phase = "lex" /\ phase' = "done"
              /\ \/ ~(Len(tokens) < MaxTokens)
                 \/ tokens # << >> /\ tokens[Len(tokens)].type = "EndOfFile"
    BY <1>2 DEF Finish, Lexing, vars, wrapVars, lexVars
  <2>2. Len(tokens) \in Nat /\ MaxTokens \in Nat
    BY LexerAssumption DEF LexInv, TypeOK, LexerAssumption
  <2>3. /\ Ends' = Ends /\ End' = End
        /\ \A d : (Nth(Ends, d))' = Nth(Ends, d) /\ (StartOf(Ends, d))' = StartOf(Ends, d)
        /\ EndsToken(origin[itr - 1])' <=> EndsToken(origin[itr - 1])
    BY <2>1, SameReference DEF End, Nth, StartOf, Meant, Commented, EndsToken, InNumber
  <2>4. ReadAsMeant => ReadAsMeant'
    BY <2>1, <2>3 DEF ReadAsMeant, TypeOf, IsToken
  <2>5. AtTheEnd => AtTheEnd'
    BY <2>1, <2>3 DEF AtTheEnd, IsToken
  <2>6. phase # "wrap" => Size' = Size
    BY <2>1 DEF Size
  <2>7. Reached' = Reached /\ Nth(Ends, Reached)' = Nth(Ends, Reached)
    BY <2>1, <2>3 DEF Reached, Nth
  <2>8. phase # "wrap" /\ BetweenTokens => BetweenTokens'
    BY <2>1, <2>3, <2>6, <2>7 DEF BetweenTokens
  <2>. QED
    BY <2>1, <2>2, <2>3, <2>4, <2>5, <2>8 DEF ReadInv
<1>. QED
  BY <1>1, <1>2, ReadPadStep, ReadTokenStep, ReadEndStep DEF Next, Done

LEMMA ReadInvariant == Spec => []ReadInv
<1>1. Init => ReadInv
  BY DEF Init, ReadInv
<1>2. LexInv /\ KeptInv /\ ReadInv /\ [Next \/ Done]_vars => ReadInv'
  BY ReadStep
<1>. QED
  BY <1>1, <1>2, LexInvariant, KeptInvariant, PTL DEF Spec

(***************************************************************************)
(* The tokens are those of the file, with their places, for a file of any  *)
(* length and any limit: no token is lost, made up, joined, split or moved *)
(* by the wrapper's buffer or by the searches of the lexer.                *)
(***************************************************************************)
THEOREM TokensAreExact == Spec => []TokensExact
<1>1. LexInv /\ ReadInv => TokensExact
  BY ReadExactly
<1>. QED
  BY <1>1, LexInvariant, ReadInvariant, PTL
=============================================================================
