--------------------------- MODULE MatcherProofs ---------------------------
(***************************************************************************)
(* Proofs about Matcher, for every program, every projection list and      *)
(* every stack size.                                                       *)
(***************************************************************************)
EXTENDS Matcher, LeastElement, SequenceTheorems, FiniteSetTheorems, TLAPS

(* Nothing is needed to place no projection. *)
LEMMA EmbedsNone == \A P, s : Embeds(P, 0, s)
<1>. SUFFICES ASSUME NEW P, NEW s PROVE Embeds(P, 0, s)
  OBVIOUS
<1>. DEFINE f == [i \in 1 .. 0 |-> 1]
<1>1. f \in [1 .. 0 -> 1 .. Len(s)]
  OBVIOUS
<1>2. \A i \in 1 .. 0 : FALSE
  OBVIOUS
<1>. HIDE DEF f
<1>. QED
  BY <1>1, <1>2 DEF Embeds

(* Whoever placed k projections placed the first j of them. *)
LEMMA EmbedsFewer ==
  ASSUME NEW P, NEW s, NEW k \in Nat, NEW j \in Nat, j <= k, Embeds(P, k, s)
  PROVE  Embeds(P, j, s)
<1>1. PICK f \in [1 .. k -> 1 .. Len(s)] :
        /\ \A i \in 1 .. k : Performs(P[i], s[f[i]])
        /\ \A i, l \in 1 .. k : i < l => f[i] < f[l]
  BY DEF Embeds
<1>. DEFINE g == [i \in 1 .. j |-> f[i]]
<1>2. g \in [1 .. j -> 1 .. Len(s)]
  OBVIOUS
<1>3. \A i \in 1 .. j : Performs(P[i], s[g[i]])
  BY <1>1
<1>4. \A i, l \in 1 .. j : i < l => g[i] < g[l]
  BY <1>1
<1>. QED
  BY <1>2, <1>3, <1>4 DEF Embeds

(* Passing one more statement loses nothing. *)
LEMMA EmbedsLonger ==
  ASSUME NEW P, NEW S, NEW s \in Seq(S), NEW x \in S, NEW k \in Nat, Embeds(P, k, s)
  PROVE  Embeds(P, k, Append(s, x))
<1>1. PICK f \in [1 .. k -> 1 .. Len(s)] :
        /\ \A i \in 1 .. k : Performs(P[i], s[f[i]])
        /\ \A i, l \in 1 .. k : i < l => f[i] < f[l]
  BY DEF Embeds
<1>2. f \in [1 .. k -> 1 .. Len(Append(s, x))]
  OBVIOUS
<1>3. \A i \in 1 .. k : Append(s, x)[f[i]] = s[f[i]]
  OBVIOUS
<1>. QED
  BY <1>1, <1>2, <1>3 DEF Embeds

(* A statement that performs the next projection places one more. *)
LEMMA EmbedsNext ==
  ASSUME NEW P, NEW S, NEW s \in Seq(S), NEW x \in S, NEW k \in Nat \ {0},
         Embeds(P, k - 1, s), Performs(P[k], x)
  PROVE  Embeds(P, k, Append(s, x))
<1>. DEFINE t == Append(s, x)
<1>1. PICK f \in [1 .. k - 1 -> 1 .. Len(s)] :
        /\ \A i \in 1 .. k - 1 : Performs(P[i], s[f[i]])
        /\ \A i, l \in 1 .. k - 1 : i < l => f[i] < f[l]
  BY DEF Embeds
<1>. DEFINE g == [i \in 1 .. k |-> IF i = k THEN Len(s) + 1 ELSE f[i]]
<1>2. g \in [1 .. k -> 1 .. Len(t)]
  OBVIOUS
<1>3. \A i \in 1 .. k : Performs(P[i], t[g[i]])
  <2>. TAKE i \in 1 .. k
  <2>1. CASE i = k
    <3>1. t[g[i]] = x
      BY <2>1
    <3>. QED
      BY <2>1, <3>1
  <2>2. CASE i # k
    <3>1. i \in 1 .. k - 1 /\ g[i] = f[i]
      BY <2>2
    <3>2. t[g[i]] = s[f[i]]
      BY <3>1
    <3>. QED
      BY <3>1, <3>2, <1>1
  <2>. QED
    BY <2>1, <2>2
<1>4. \A i, l \in 1 .. k : i < l => g[i] < g[l]
  <2>. TAKE i, l \in 1 .. k
  <2>. HAVE i < l
  <2>1. i \in 1 .. k - 1 /\ g[i] = f[i] /\ f[i] \in 1 .. Len(s)
    OBVIOUS
  <2>2. CASE l = k
    BY <2>1, <2>2
  <2>3. CASE l # k
    BY <2>1, <2>3, <1>1
  <2>. QED
    BY <2>2, <2>3
<1>. HIDE DEF g, t
<1>5. Embeds(P, k, t)
  BY <1>2, <1>3, <1>4 DEF Embeds
<1>. QED
  BY <1>5 DEF t

----------------------------------------------------------------------------
(***************************************************************************)
(* Type correctness.  The innermost scope is a frame whose projection is   *)
(* one of the list and whose body is a sequence of statements.             *)
(***************************************************************************)
LEMMA TopTyped ==
  ASSUME TypeOK, Running
  PROVE  /\ Len(stack) \in Nat \ {0}
         /\ Top \in Frame
         /\ N \in Nat \ {0}
         /\ BodyOf(Top) \in Seq(Stmt)
<1>1. stack \in Seq(Frame) /\ Len(stack) \in Nat \ {0}
  BY DEF TypeOK, Running
<1>2. Top \in Frame
  BY <1>1 DEF Top
<1>3. N \in Nat \ {0}
  BY DEF TypeOK, N
<1>4. BodyOf(Top) \in Seq(Stmt)
  BY <1>2 DEF BodyOf, TypeOK, Frame
<1>. QED
  BY <1>1, <1>2, <1>3, <1>4

(* Giving fields of a frame values of their types leaves a frame. *)
LEMMA FrameUpdated ==
  ASSUME NEW f \in Frame, NEW m \in BOOLEAN
  PROVE  [f EXCEPT !.matched = m, !.cpy = @ + 1] \in Frame
<1>1. f.cpy + 1 \in Nat \ {0}
  BY DEF Frame
<1>. QED
  BY <1>1 DEF Frame

(* The statement a scope stands at is a statement of its body. *)
LEMMA HereTyped ==
  ASSUME TypeOK, Scanning
  PROVE  /\ Here \in Stmt
         /\ Calls => findFunctionDefinition(Here) \in Fn
<1>1. Running /\ Top.cpy \in Nat \ {0} /\ Top.cpy <= Len(BodyOf(Top))
  BY TopTyped DEF Scanning, AtEnd, Frame
<1>2. Here \in Stmt
  BY <1>1, TopTyped DEF Here
<1>. QED
  BY <1>2 DEF Calls, findFunctionDefinition, Stmt

(* Replacing the innermost frame keeps the stack a stack of frames. *)
LEMMA SetTopTyped ==
  ASSUME TypeOK, Running, NEW f \in Frame, SetTop(f)
  PROVE  /\ stack' \in Seq(Frame)
         /\ Len(stack') = Len(stack)
         /\ stack'[Len(stack)] = f
         /\ \A i \in 1 .. Len(stack) - 1 : stack'[i] = stack[i]
  BY TopTyped DEF TypeOK, SetTop

(* A return within the search drops the innermost frame and changes its caller. *)
LEMMA ReturnTyped ==
  ASSUME TypeOK, Running, NEW w \in Pointer, Return(w), Len(stack) # 1
  PROVE  /\ stack' \in Seq(Frame)
         /\ Len(stack') = Len(stack) - 1
         /\ stack'[Len(stack) - 1] = ReturnTo(stack[Len(stack) - 1], w)
         /\ ReturnTo(stack[Len(stack) - 1], w) \in Frame
         /\ \A i \in 1 .. Len(stack) - 2 : stack'[i] = stack[i]
<1>. DEFINE s == SubSeq(stack, 1, Len(stack) - 1)
<1>1. stack \in Seq(Frame) /\ Len(stack) \in Nat /\ Len(stack) > 1
  <2>1. Len(stack) \in Nat \ {0} /\ Len(stack) # 1
    BY TopTyped
  <2>2. \A n \in Nat \ {0} : n # 1 => n > 1
    OBVIOUS
  <2>. QED
    BY <2>1, <2>2 DEF TypeOK
<1>2. /\ s \in Seq(Frame)
      /\ Len(s) = Len(stack) - 1
      /\ \A i \in 1 .. Len(stack) - 1 : s[i] = stack[i]
  BY <1>1, SubSeqProperties
<1>3. stack' = [s EXCEPT ![Len(stack) - 1] = ReturnTo(s[Len(stack) - 1], w)]
  BY DEF Return
<1>4. s[Len(stack) - 1] = stack[Len(stack) - 1] /\ stack[Len(stack) - 1] \in Frame
  BY <1>1, <1>2
<1>5. ReturnTo(stack[Len(stack) - 1], w) \in Frame
  <2>1. Top.matched \in BOOLEAN
    BY TopTyped DEF Frame
  <2>2. (IF AtEnd THEN w ELSE stack[Len(stack) - 1].child) \in Pointer
    BY <1>4 DEF Frame
  <2>. DEFINE c == stack[Len(stack) - 1]
  <2>3. c.cpy + 1 \in Nat \ {0}
    BY <1>4 DEF Frame
  <2>. QED
    BY <1>4, <2>1, <2>2, <2>3 DEF ReturnTo, Frame
<1>. HIDE DEF s
<1>. QED
  BY <1>1, <1>2, <1>3, <1>4, <1>5

(* The call that starts a search is a frame, on the first projection. *)
LEMMA InitTyped == Init => TypeOK
<1>. SUFFICES ASSUME Init PROVE TypeOK
  OBVIOUS
<1>. USE MatcherAssumption DEF Init
<1>1. code \in [Fn -> Seq(Stmt)] /\ projs \in Seq(Projection) \ {<< >>}
  OBVIOUS
<1>2. N \in Nat \ {0}
  BY <1>1 DEF N
<1>3. stack \in Seq(Frame)
  <2>1. Call(1, Main) \in Frame
    BY <1>2 DEF Call, Frame, Pointer, Null
  <2>. QED
    BY <2>1
<1>. QED
  BY <1>1, <1>2, <1>3 DEF TypeOK, Pointer, Null

(* A step of the search keeps its types: no frame ever holds a null or stray projection. *)
LEMMA TypeStep == TypeOK /\ [Next \/ Done]_vars => TypeOK'
<1>. SUFFICES ASSUME TypeOK, [Next \/ Done]_vars PROVE TypeOK'
  OBVIOUS
<1>1. CASE MatchStmt
  <2>1. Running /\ Scanning
    BY <1>1 DEF MatchStmt, Scanning
  <2>2. [Top EXCEPT !.matched = TRUE, !.cpy = @ + 1] \in Frame
    BY <2>1, TopTyped, FrameUpdated
  <2>3. stack' \in Seq(Frame)
    BY <1>1, <2>1, <2>2, SetTopTyped DEF MatchStmt
  <2>4. trail' \in Seq(Stmt)
    BY <1>1, <2>1, HereTyped DEF MatchStmt, TypeOK
  <2>. QED
    BY <1>1, <2>3, <2>4 DEF MatchStmt, TypeOK, Pointer, N, Frame
<1>2. CASE SkipStmt
  <2>1. Running /\ Scanning
    BY <1>2 DEF SkipStmt, Scanning
  <2>2. [Top EXCEPT !.cpy = @ + 1] \in Frame
    BY <2>1, TopTyped DEF Frame
  <2>3. stack' \in Seq(Frame)
    BY <1>2, <2>1, <2>2, SetTopTyped DEF SkipStmt
  <2>4. trail' \in Seq(Stmt)
    BY <1>2, <2>1, HereTyped DEF SkipStmt, TypeOK
  <2>. QED
    BY <1>2, <2>3, <2>4 DEF SkipStmt, TypeOK, Pointer, N, Frame
<1>3. CASE EnterCallee
  <2>1. Running /\ Scanning /\ Calls
    BY <1>3 DEF EnterCallee, Scanning
  <2>2. Call(Top.self, findFunctionDefinition(Here)) \in Frame
    BY <2>1, TopTyped, HereTyped DEF Call, Frame, Pointer, Null
  <2>3. stack' \in Seq(Frame)
    BY <1>3, <2>2 DEF EnterCallee, TypeOK
  <2>. QED
    BY <1>3, <2>3 DEF EnterCallee, TypeOK, Pointer, N, Frame
<1>4. CASE StackOverflow \/ ReadPastEmptyBody
  <2>1. stack' = << >> /\ verdict' \in {"crash", "overflow"}
    BY <1>4 DEF StackOverflow, ReadPastEmptyBody, Die
  <2>2. UNCHANGED <<code, projs, nested, stop, trail>>
    BY <1>4 DEF StackOverflow, ReadPastEmptyBody, Die
  <2>. QED
    BY <2>1, <2>2 DEF TypeOK, Pointer, N, Frame
<1>5. CASE ContinueChild \/ ContinueNext
  <2>1. PICK k \in 1 .. N : ContinueWith(k)
    BY <1>5, TopTyped DEF ContinueChild, ContinueNext, Frame, Pointer, Null
  <2>2. Running
    BY <2>1 DEF ContinueWith, Scanned
  <2>3. [Top EXCEPT !.self = k, !.matched = FALSE, !.child = Null] \in Frame
    <3>1. Null \in Pointer /\ Top \in Frame
      BY <2>2, TopTyped DEF Pointer, Null
    <3>. QED
      BY <3>1 DEF Frame
  <2>4. stack' \in Seq(Frame)
    BY <2>1, <2>2, <2>3, SetTopTyped DEF ContinueWith
  <2>. QED
    BY <2>1, <2>4 DEF ContinueWith, TypeOK, Pointer, N, Frame
<1>6. CASE ReturnEarly \/ ReturnAtEnd
  <2>1. PICK w \in Pointer : Return(w) /\ Running
    BY <1>6, TopTyped DEF ReturnEarly, ReturnAtEnd, Scanned, Frame, Pointer, Null, NextOf
  <2>2. UNCHANGED <<code, projs, trail>>
    BY <2>1 DEF Return
  <2>3. stack' \in Seq(Frame)
    <3>1. CASE Len(stack) = 1
      BY <2>1, <3>1 DEF Return
    <3>2. CASE Len(stack) # 1
      BY <2>1, <3>2, ReturnTyped
    <3>. QED
      BY <3>1, <3>2
  <2>4. nested' \in Pointer
    BY <2>1 DEF Return, TypeOK
  <2>5. stop' \in Nat \ {0} /\ verdict' \in {"none", "true", "false", "crash", "overflow"}
    BY <2>1, TopTyped DEF Return, TypeOK, Frame
  <2>. QED
    BY <2>2, <2>3, <2>4, <2>5 DEF TypeOK, Pointer, N, Frame
<1>7. CASE UNCHANGED vars
  BY <1>7 DEF vars, TypeOK, Pointer, N, Frame
<1>. QED
  BY <1>1, <1>2, <1>3, <1>4, <1>5, <1>6, <1>7 DEF Next, Done

(* The search keeps its types. *)
THEOREM TypeCorrect == Spec => []TypeOK
  BY InitTyped, TypeStep, PTL DEF Spec

----------------------------------------------------------------------------
(***************************************************************************)
(* The result pointer is exact (PchorProjection.cpp lines 72-94).          *)
(*                                                                         *)
(* PointerExact speaks of finished searches only.  The inductive invariant *)
(* says the same of every frame: whatever projection a scope is searched   *)
(* for, all those before it have been found; so have those before the      *)
(* projection its child pointer names; and once it has matched, its own    *)
(* projection too.  That an enclosing frame is never ahead of an inner one *)
(* (NeverBehindCaller) makes the result an inner call returns right for    *)
(* its caller.                                                             *)
(***************************************************************************)
DoneIn(P, t, p) == Embeds(P, IF p = Null THEN Len(P) ELSE p - 1, t)

Sound(P, t, f) ==
  /\ DoneIn(P, t, f.self)
  /\ f.child # Null => DoneIn(P, t, f.child)
  /\ f.matched => Embeds(P, f.self, t)

SearchInv ==
  /\ TypeOK
  /\ Running <=> verdict = "none"
  /\ Running => nested = Null
  /\ \A i \in 1 .. Len(stack) : Sound(projs, trail, stack[i])
  /\ NeverBehindCaller
  /\ PointerExact

(* Passing a statement takes nothing away from a frame. *)
LEMMA SoundLonger ==
  ASSUME TypeOK, NEW f \in Frame, NEW x \in Stmt, Sound(projs, trail, f)
  PROVE  Sound(projs, Append(trail, x), f)
<1>1. trail \in Seq(Stmt) /\ N \in Nat /\ f.self \in Nat \ {0} /\ f.child \in Nat
  BY DEF TypeOK, Frame, N, Pointer
<1>2. \A p \in Nat : DoneIn(projs, trail, p) => DoneIn(projs, Append(trail, x), p)
  BY <1>1, EmbedsLonger DEF DoneIn, Null, N
<1>. QED
  BY <1>1, <1>2, EmbedsLonger DEF Sound

(* A frame that starts on a projection needs only what was done before it. *)
LEMMA SoundStart ==
  ASSUME NEW P, NEW t, NEW f, DoneIn(P, t, f.self), f.child = Null, f.matched = FALSE
  PROVE  Sound(P, t, f)
  BY DEF Sound

(* Facts about the innermost frame that every step uses. *)
LEMMA TopSound ==
  ASSUME SearchInv, Running
  PROVE  /\ Sound(projs, trail, Top)
         /\ DoneIn(projs, trail, Top.self)
         /\ Top.self \in 1 .. N /\ N = Len(projs)
         /\ Top.child \in Pointer
         /\ Top.child = Null \/ Top.self <= Top.child
         /\ Top.child # Null => DoneIn(projs, trail, Top.child)
<1>1. Len(stack) \in 1 .. Len(stack) /\ Top \in Frame
  BY TopTyped DEF SearchInv
<1>2. Top.self \in 1 .. N /\ Top.child \in Pointer
  BY <1>1 DEF Frame
<1>. QED
  BY <1>1, <1>2 DEF SearchInv, NeverBehindCaller, Top, Sound, N

(* Replacing the innermost frame by a sound one, after a statement or not. *)
LEMMA SetTopSound ==
  ASSUME SearchInv, Running, NEW f \in Frame, SetTop(f), Sound(projs, trail', f),
         \/ trail' = trail
         \/ \E x \in Stmt : trail' = Append(trail, x)
  PROVE  \A i \in 1 .. Len(stack') : Sound(projs, trail', stack'[i])
<1>. SUFFICES ASSUME NEW i \in 1 .. Len(stack') PROVE Sound(projs, trail', stack'[i])
  OBVIOUS
<1>1. /\ Len(stack) \in Nat \ {0} /\ Len(stack') = Len(stack) /\ stack'[Len(stack)] = f
      /\ \A j \in 1 .. Len(stack) - 1 : stack'[j] = stack[j]
  BY SetTopTyped, TopTyped DEF SearchInv
<1>2. CASE i = Len(stack)
  BY <1>1, <1>2
<1>3. CASE i # Len(stack)
  <2>1. i \in 1 .. Len(stack) - 1 /\ stack'[i] = stack[i]
    BY <1>1, <1>3
  <2>2. stack[i] \in Frame /\ Sound(projs, trail, stack[i])
    BY <1>1, <2>1 DEF SearchInv, TypeOK
  <2>. QED
    BY <2>1, <2>2, SoundLonger DEF SearchInv
<1>. QED
  BY <1>2, <1>3

(* Replacing the innermost frame by one that is not behind it. *)
LEMMA SetTopNeverBehind ==
  ASSUME SearchInv, Running, NEW f \in Frame, SetTop(f), code' = code,
         f.fn = Top.fn, Top.self <= f.self, f.child = Null \/ f.self <= f.child
  PROVE  NeverBehindCaller'
<1>. DEFINE L == Len(stack)
<1>1. L \in Nat \ {0} /\ Len(stack') = L /\ stack'[L] = f
      /\ \A i \in 1 .. L - 1 : stack'[i] = stack[i]
  BY SetTopTyped, TopTyped DEF SearchInv
<1>2. \A i \in 1 .. L : stack[i] \in Frame
  BY <1>1 DEF SearchInv, TypeOK
<1>3. \A i \in 1 .. L - 1 : stack[i].self <= stack'[i + 1].self
                          /\ stack'[i + 1].fn = stack[i + 1].fn
  <2>. TAKE i \in 1 .. L - 1
  <2>1. CASE i + 1 = L
    <3>1. stack[i].self <= Top.self /\ Top = stack[i + 1]
      BY <2>1, <1>1 DEF SearchInv, NeverBehindCaller, Top
    <3>2. stack[i].self \in Nat /\ Top.self \in Nat /\ f.self \in Nat
      BY <1>2, TopSound DEF Frame
    <3>. QED
      BY <2>1, <1>1, <3>1, <3>2
  <2>2. CASE i + 1 # L
    <3>1. i + 1 \in 1 .. L - 1
      BY <2>2, <1>1
    <3>. QED
      BY <3>1, <1>1 DEF SearchInv, NeverBehindCaller
  <2>. QED
    BY <2>1, <2>2
<1>4. \A i \in 1 .. L : stack'[i].child = Null \/ stack'[i].self <= stack'[i].child
  BY <1>1 DEF SearchInv, NeverBehindCaller
<1>. QED
  BY <1>1, <1>3, <1>4 DEF SearchInv, NeverBehindCaller, BodyOf, Null, findFunctionDefinition

(* A call on the first projection knows nothing, and claims nothing. *)
Begun == verdict = "none" /\ nested = Null /\ \E f \in Fn : stack = <<Call(1, f)>>

LEMMA SearchBegins == TypeOK /\ Begun => SearchInv
<1>. SUFFICES ASSUME TypeOK, NEW f \in Fn, stack = <<Call(1, f)>>, verdict = "none", nested = Null
              PROVE  SearchInv
  BY DEF Begun
<1>1. Len(stack) = 1
  OBVIOUS
<1>2. Sound(projs, trail, stack[1])
  <2>1. DoneIn(projs, trail, 1)
    BY EmbedsNone DEF DoneIn, Null
  <2>. QED
    BY <2>1, SoundStart DEF Call
<1>3. NeverBehindCaller
  BY <1>1 DEF NeverBehindCaller, Call
<1>. QED
  BY <1>1, <1>2, <1>3 DEF SearchInv, Running, PointerExact

(* One case per action; the returns are where the frames meet. *)
LEMMA SearchStep == SearchInv /\ [Next \/ Done]_vars => SearchInv'
<1>. SUFFICES ASSUME SearchInv, TypeOK', [Next \/ Done]_vars PROVE SearchInv'
  BY TypeStep DEF SearchInv
<1>. USE DEF SearchInv
<1>1. CASE MatchStmt
  <2>. DEFINE f == [Top EXCEPT !.matched = TRUE, !.cpy = @ + 1]
  <2>1. /\ Scanning /\ Running /\ Performs(This, Here) /\ SetTop(f)
        /\ trail' = Append(trail, Here)
        /\ UNCHANGED <<code, projs, verdict, nested, stop>>
    BY <1>1 DEF MatchStmt, Scanning
  <2>2. /\ f \in Frame /\ f.matched
        /\ f.self = Top.self /\ f.fn = Top.fn /\ f.child = Top.child
    BY <2>1, TopTyped, FrameUpdated DEF Frame
  <2>3. Here \in Stmt /\ Top \in Frame
    BY <2>1, HereTyped, TopTyped
  <2>4. Sound(projs, trail', f)
    <3>1. Sound(projs, trail', Top)
      BY <2>1, <2>3, TopSound, SoundLonger
    <3>2. Embeds(projs, Top.self, trail')
      BY <2>1, <2>3, TopSound, EmbedsNext DEF TypeOK, DoneIn, Null, This
    <3>. HIDE DEF f
    <3>. QED
      BY <2>2, <3>1, <3>2 DEF Sound
  <2>. HIDE DEF f
  <2>5. \A i \in 1 .. Len(stack') : Sound(projs, trail', stack'[i])
    BY <2>1, <2>2, <2>3, <2>4, SetTopSound
  <2>6. NeverBehindCaller'
    BY <2>1, <2>2, TopSound, SetTopNeverBehind DEF Frame
  <2>. QED
    BY <2>1, <2>2, <2>5, <2>6, SetTopTyped, TopTyped DEF Running, PointerExact
<1>2. CASE SkipStmt
  <2>. DEFINE f == [Top EXCEPT !.cpy = @ + 1]
  <2>1. /\ Scanning /\ Running /\ SetTop(f)
        /\ trail' = Append(trail, Here)
        /\ UNCHANGED <<code, projs, verdict, nested, stop>>
    BY <1>2 DEF SkipStmt, Scanning
  <2>2. /\ f \in Frame /\ f.matched = Top.matched
        /\ f.self = Top.self /\ f.fn = Top.fn /\ f.child = Top.child
    <3>1. Top \in Frame
      BY <2>1, TopTyped
    <3>2. Top.cpy + 1 \in Nat \ {0}
      BY <3>1 DEF Frame
    <3>. QED
      BY <3>1, <3>2 DEF Frame
  <2>3. Here \in Stmt /\ Top \in Frame
    BY <2>1, HereTyped, TopTyped
  <2>4. Sound(projs, trail', f)
    <3>1. Sound(projs, trail', Top)
      BY <2>1, <2>3, TopSound, SoundLonger
    <3>. HIDE DEF f
    <3>. QED
      BY <2>2, <3>1 DEF Sound
  <2>. HIDE DEF f
  <2>5. \A i \in 1 .. Len(stack') : Sound(projs, trail', stack'[i])
    BY <2>1, <2>2, <2>3, <2>4, SetTopSound
  <2>6. NeverBehindCaller'
    BY <2>1, <2>2, TopSound, SetTopNeverBehind DEF Frame
  <2>. QED
    BY <2>1, <2>2, <2>5, <2>6, SetTopTyped, TopTyped DEF Running, PointerExact
<1>3. CASE EnterCallee
  <2>. DEFINE f == Call(Top.self, findFunctionDefinition(Here))
              L == Len(stack)
  <2>1. /\ Scanning /\ Running
        /\ stack' = Append(stack, f)
        /\ UNCHANGED <<code, projs, verdict, nested, stop, trail>>
    BY <1>3 DEF EnterCallee, Scanning
  <2>2. /\ f.self = Top.self /\ f.child = Null /\ ~f.matched
        /\ f.fn = findFunctionDefinition(Here)
    BY DEF Call
  <2>3. Sound(projs, trail, f)
    BY <2>1, TopSound, SoundStart DEF Call
  <2>. HIDE DEF f
  <2>4. /\ L \in Nat \ {0} /\ Len(stack') = L + 1 /\ stack'[L + 1] = f
        /\ \A i \in 1 .. L : stack'[i] = stack[i]
    BY <2>1, TopTyped DEF TypeOK
  <2>5. \A i \in 1 .. Len(stack') : Sound(projs, trail', stack'[i])
    BY <2>1, <2>3, <2>4
  <2>6. NeverBehindCaller'
    <3>1. \A i \in 1 .. L + 1 : stack'[i].child = Null \/ stack'[i].self <= stack'[i].child
      BY <2>2, <2>4 DEF NeverBehindCaller
    <3>2. ASSUME NEW i \in 1 .. L
          PROVE  /\ ~stack[i].matched
                 /\ stack[i].cpy <= Len(BodyOf(stack[i]))
                 /\ stack[i].self <= stack'[i + 1].self
                 /\ stack'[i + 1].fn = findFunctionDefinition(BodyOf(stack[i])[stack[i].cpy])
      <4>1. CASE i = L
        <5>1. /\ ~Top.matched /\ ~AtEnd /\ Top.cpy \in Nat /\ Len(BodyOf(Top)) \in Nat
              /\ Top.self \in Nat
          BY <2>1, TopTyped DEF Scanning, Frame
        <5>. QED
          BY <4>1, <5>1, <2>2, <2>4 DEF AtEnd, Top, Here
      <4>2. CASE i # L
        <5>1. i \in 1 .. L - 1 /\ i + 1 \in 1 .. L
          BY <4>2, <2>4
        <5>. QED
          BY <5>1, <2>4 DEF NeverBehindCaller
      <4>. QED
        BY <4>1, <4>2
    <3>. QED
      BY <2>1, <2>4, <3>1, <3>2 DEF NeverBehindCaller, BodyOf, Null, findFunctionDefinition
  <2>. QED
    BY <2>1, <2>4, <2>5, <2>6 DEF Running, PointerExact
<1>4. CASE StackOverflow \/ ReadPastEmptyBody
  BY <1>4 DEF StackOverflow, ReadPastEmptyBody, Die, Running, NeverBehindCaller, PointerExact
<1>5. CASE ContinueChild \/ ContinueNext
  <2>1. PICK k \in 1 .. N : /\ ContinueWith(k)
                           /\ Top.self <= k
                           /\ DoneIn(projs, trail, k)
    <3>1. CASE ContinueChild
      BY <3>1, TopSound DEF ContinueChild, Pointer, Null
    <3>2. CASE ContinueNext
      <4>1. Top.self + 1 \in 1 .. N /\ ContinueWith(Top.self + 1) /\ Running /\ Top.matched
        BY <3>2, TopSound DEF ContinueNext, ContinueWith, Scanned
      <4>2. Embeds(projs, Top.self, trail)
        BY <4>1, TopSound DEF Sound
      <4>3. DoneIn(projs, trail, Top.self + 1)
        BY <4>1, <4>2, TopSound DEF DoneIn, Null
      <4>. QED
        BY <4>1, <4>3, TopSound
    <3>. QED
      BY <1>5, <3>1, <3>2
  <2>. DEFINE f == [Top EXCEPT !.self = k, !.matched = FALSE, !.child = Null]
  <2>2. /\ Running /\ SetTop(f)
        /\ UNCHANGED <<code, projs, verdict, nested, stop, trail>>
    BY <2>1 DEF ContinueWith, Scanned
  <2>3. /\ f \in Frame /\ f.matched = FALSE
        /\ f.self = k /\ f.fn = Top.fn /\ f.child = Null
    <3>1. Null \in Pointer /\ Top \in Frame
      BY <2>2, TopTyped DEF Pointer, Null
    <3>. QED
      BY <3>1 DEF Frame
  <2>. HIDE DEF f
  <2>4. Sound(projs, trail', f)
    BY <2>1, <2>2, <2>3, SoundStart
  <2>5. \A i \in 1 .. Len(stack') : Sound(projs, trail', stack'[i])
    BY <2>2, <2>3, <2>4, SetTopSound
  <2>6. NeverBehindCaller'
    BY <2>1, <2>2, <2>3, SetTopNeverBehind
  <2>7. stack' # << >> /\ verdict' = "none"
    <3>1. Len(stack') = Len(stack) /\ Len(stack) # 0
      BY <2>2, <2>3, SetTopTyped, TopTyped
    <3>. QED
      BY <2>2, <3>1
  <2>. QED
    BY <2>2, <2>5, <2>6, <2>7 DEF Running, PointerExact
<1>6. CASE ReturnEarly \/ ReturnAtEnd
  <2>1. PICK w \in Pointer :
          /\ Return(w) /\ Running
          /\ Top.matched => Embeds(projs, Top.self, trail)
          /\ AtEnd => DoneIn(projs, trail, w) /\ (w = Null \/ Top.self <= w)
          /\ ~Top.matched => AtEnd /\ w # Null
          /\ ~AtEnd => Top.self = N
          /\ Top.matched /\ AtEnd => w # 1
    <3>1. CASE ReturnEarly
      BY <3>1, TopSound DEF ReturnEarly, Scanned, Sound, Pointer, Null
    <3>2. CASE ReturnAtEnd
      <4>. DEFINE v == IF Top.matched THEN NextOf(Top.self) ELSE Top.self
      <4>1. Return(v) /\ Running /\ AtEnd /\ Top.self \in 1 .. N /\ N \in Nat
        BY <3>2, TopSound, TopTyped DEF ReturnAtEnd, Scanned, SearchInv
      <4>2. CASE Top.matched
        <5>1. Embeds(projs, Top.self, trail)
          BY <4>1, <4>2, TopSound DEF Sound
        <5>2. /\ v \in Pointer /\ v # 1 /\ (v = Null \/ Top.self <= v)
              /\ DoneIn(projs, trail, v)
          BY <4>1, <4>2, <5>1, TopSound DEF NextOf, Pointer, Null, DoneIn
        <5>. HIDE DEF v
        <5>. QED
          BY <4>1, <4>2, <5>1, <5>2
      <4>3. CASE ~Top.matched
        BY <4>1, <4>3, TopSound DEF Pointer, Null
      <4>. QED
        BY <4>2, <4>3
    <3>. QED
      BY <1>6, <3>1, <3>2
  <2>2. UNCHANGED <<code, projs, trail>> /\ Top.self \in 1 .. N /\ N = Len(projs) /\ N \in Nat
    BY <2>1, TopSound, TopTyped DEF Return
  <2>3. CASE Len(stack) = 1
    <3>1. /\ stack' = << >>
          /\ verdict' = IF Top.matched THEN "true" ELSE "false"
          /\ nested' = IF AtEnd THEN w ELSE nested
      BY <2>1, <2>3 DEF Return
    <3>2. DoneIn(projs, trail, nested')
      BY <2>1, <2>2, <3>1 DEF DoneIn, Null
    <3>3. Top.matched => Embeds(projs, 1, trail)
      BY <2>1, <2>2, EmbedsFewer
    <3>4. PointerExact'
      BY <2>1, <2>2, <3>1, <3>2, <3>3 DEF PointerExact, DoneBefore, DoneIn, N, Null
    <3>. QED
      BY <3>1, <3>4 DEF Running, NeverBehindCaller
  <2>4. CASE Len(stack) # 1
    <3>. DEFINE L == Len(stack)
                c == stack[L - 1]
                f == ReturnTo(c, w)
    <3>1. /\ L \in Nat /\ L > 1 /\ Len(stack') = L - 1
          /\ stack'[L - 1] = f /\ f \in Frame
          /\ \A i \in 1 .. L - 2 : stack'[i] = stack[i]
      <4>1. L \in Nat \ {0} /\ L # 1
        BY <2>1, <2>4, TopTyped
      <4>2. \A n \in Nat \ {0} : n # 1 => n > 1
        OBVIOUS
      <4>. QED
        BY <2>1, <2>4, <4>1, <4>2, ReturnTyped
    <3>2. /\ c = stack[L - 1] /\ c \in Frame /\ L - 1 \in 1 .. L /\ L \in 1 .. L
          /\ Sound(projs, trail, c)
          /\ c.child = Null \/ c.self <= c.child
          /\ c.self <= Top.self
      <4>1. L - 1 \in 1 .. L - 1 /\ L - 1 \in 1 .. L /\ L \in 1 .. L /\ (L - 1) + 1 = L
        BY <3>1
      <4>2. c \in Frame
        BY <4>1 DEF TypeOK
      <4>3. c.self <= stack[(L - 1) + 1].self
        BY <4>1 DEF NeverBehindCaller
      <4>4. Sound(projs, trail, c) /\ (c.child = Null \/ c.self <= c.child)
        BY <4>1 DEF NeverBehindCaller
      <4>. QED
        BY <4>1, <4>2, <4>3, <4>4 DEF Top
    <3>. HIDE DEF c
    <3>3. /\ f.self = c.self /\ f.fn = c.fn /\ f.matched = Top.matched
          /\ f.child = IF AtEnd THEN w ELSE c.child
      BY <3>2 DEF ReturnTo, Frame
    <3>. HIDE DEF f
    <3>4. c.self \in Nat /\ c.self <= Top.self /\ w \in Nat
      BY <3>2, <2>2 DEF Frame, Pointer
    <3>5. Sound(projs, trail, f)
      <4>1. f.matched => Embeds(projs, f.self, trail)
        BY <2>1, <2>2, <3>3, <3>4, EmbedsFewer
      <4>2. f.child # Null => DoneIn(projs, trail, f.child)
        BY <2>1, <3>2, <3>3 DEF Sound
      <4>. QED
        BY <3>2, <3>3, <4>1, <4>2 DEF Sound
    <3>6. f.child = Null \/ f.self <= f.child
      BY <2>1, <2>2, <3>2, <3>3, <3>4
    <3>7. \A i \in 1 .. Len(stack') : Sound(projs, trail', stack'[i])
      <4>. SUFFICES ASSUME NEW i \in 1 .. L - 1 PROVE Sound(projs, trail, stack'[i])
        BY <2>2, <3>1
      <4>1. CASE i = L - 1
        BY <3>1, <3>5, <4>1
      <4>2. CASE i # L - 1
        BY <3>1, <4>2
      <4>. QED
        BY <4>1, <4>2
    <3>8. NeverBehindCaller'
      <4>1. \A i \in 1 .. L - 1 : stack'[i].child = Null \/ stack'[i].self <= stack'[i].child
        <5>. TAKE i \in 1 .. L - 1
        <5>1. CASE i = L - 1
          BY <3>1, <3>6, <5>1
        <5>2. CASE i # L - 1
          BY <3>1, <5>2 DEF NeverBehindCaller
        <5>. QED
          BY <5>1, <5>2
      <4>2. \A i \in 1 .. L - 2 : /\ stack'[i] = stack[i]
                               /\ stack'[i + 1].self = stack[i + 1].self
                               /\ stack'[i + 1].fn = stack[i + 1].fn
        <5>. TAKE i \in 1 .. L - 2
        <5>1. CASE i + 1 = L - 1
          BY <3>1, <3>2, <3>3, <5>1
        <5>2. CASE i + 1 # L - 1
          <6>1. i + 1 \in 1 .. L - 2
            BY <3>1, <5>2
          <6>. QED
            BY <6>1, <3>1
        <5>. QED
          BY <5>1, <5>2
      <4>. QED
        BY <2>2, <3>1, <4>1, <4>2, SMTT(20) DEF NeverBehindCaller, BodyOf, Null, findFunctionDefinition
    <3>9. stack' # << >> /\ verdict' = "none" /\ nested' = nested
      BY <2>1, <2>4, <3>1 DEF Return
    <3>. QED
      BY <2>1, <2>2, <3>7, <3>8, <3>9 DEF Running, PointerExact
  <2>. QED
    BY <2>3, <2>4
<1>7. CASE UNCHANGED vars
  BY <1>7 DEF vars, Running, NeverBehindCaller, PointerExact, DoneBefore, BodyOf, N, Pointer
<1>. QED
  BY <1>1, <1>2, <1>3, <1>4, <1>5, <1>6, <1>7 DEF Next, Done

LEMMA SearchInvariant == Spec => []SearchInv
<1>1. Init => SearchInv
  BY InitTyped, SearchBegins, MatcherAssumption DEF Init, Begun
<1>. QED
  BY <1>1, SearchStep, PTL DEF Spec

(***************************************************************************)
(* Whatever pointer a finished search leaves in its caller's, every        *)
(* projection before it was performed, in order, by statements the search  *)
(* passed (PchorProjection.cpp lines 83-94); and an acceptance is never    *)
(* for nothing.                                                            *)
(***************************************************************************)
THEOREM PointerIsExact == Spec => []PointerExact
<1>1. SearchInv => PointerExact
  BY DEF SearchInv
<1>. QED
  BY <1>1, SearchInvariant, PTL

(***************************************************************************)
(* A nested call never searches for a projection that an enclosing call    *)
(* has passed, and never hands one back (lines 57-58, 72-94).              *)
(***************************************************************************)
THEOREM NeverBehind == Spec => []NeverBehindCaller
<1>1. SearchInv => NeverBehindCaller
  BY DEF SearchInv
<1>. QED
  BY <1>1, SearchInvariant, PTL

----------------------------------------------------------------------------
(***************************************************************************)
(* A program whose calls fit the stack never exhausts it.  If rank says    *)
(* how deep the calls of every function can nest, the ranks of the frames  *)
(* fall with each call: i frames leave at most MaxDepth - i to go.         *)
(***************************************************************************)
Falls(C, rank) == \A f \in Fn : \A i \in DOMAIN C[f] :
                    C[f][i].callee \in Fn => rank[C[f][i].callee] < rank[f]

RoomLeft(C, st) ==
  \A rank \in [Fn -> 0 .. MaxDepth - 1] :
    Falls(C, rank) => \A i \in 1 .. Len(st) : rank[st[i].fn] + i <= MaxDepth

DepthInv == RoomLeft(code, stack) /\ OverflowOnlyIfTooDeep

(* Calls fit the stack when some ranking of the functions falls along them. *)
LEMMA FitsMeansFalls ==
  ASSUME CallsFit
  PROVE  \E rank \in [Fn -> 0 .. MaxDepth - 1] : Falls(code, rank)
  BY DEF CallsFit, Falls, CalledBy

(* The callee of the statement at hand has less room than its caller. *)
LEMMA CalleeFalls ==
  ASSUME TypeOK, Scanning, Calls, RoomLeft(code, stack),
         NEW rank \in [Fn -> 0 .. MaxDepth - 1], Falls(code, rank)
  PROVE  /\ rank[findFunctionDefinition(Here)] < rank[Top.fn]
         /\ rank[Top.fn] + Len(stack) <= MaxDepth
<1>1. /\ Running /\ Top \in Frame /\ BodyOf(Top) \in Seq(Stmt)
      /\ Top.cpy \in Nat \ {0} /\ Top.cpy <= Len(BodyOf(Top))
      /\ Top.fn \in Fn /\ Len(stack) \in 1 .. Len(stack)
  BY TopTyped DEF Scanning, AtEnd, Frame
<1>2. Top.cpy \in DOMAIN code[Top.fn] /\ findFunctionDefinition(Here) \in Fn
  BY <1>1, HereTyped DEF BodyOf
<1>3. rank[findFunctionDefinition(Here)] < rank[Top.fn]
  BY <1>1, <1>2 DEF Falls, findFunctionDefinition, Here, BodyOf
<1>4. rank[Top.fn] + Len(stack) <= MaxDepth
  BY <1>1 DEF RoomLeft, Top
<1>. QED
  BY <1>3, <1>4

(* The other steps open no scope: every frame left keeps its function. *)
LEMMA NoNewScope ==
  ASSUME TypeOK,
         \/ MatchStmt \/ SkipStmt \/ ReadPastEmptyBody
         \/ ContinueChild \/ ContinueNext \/ ReturnEarly \/ ReturnAtEnd
  PROVE  /\ code' = code
         /\ verdict' = verdict \/ verdict' # "overflow"
         /\ Len(stack') <= Len(stack)
         /\ \A i \in 1 .. Len(stack') : stack'[i].fn = stack[i].fn
<1>1. CASE \E f \in Frame : Running /\ SetTop(f) /\ f.fn = Top.fn /\ UNCHANGED <<code, verdict>>
  <2>1. PICK f \in Frame : Running /\ SetTop(f) /\ f.fn = Top.fn /\ UNCHANGED <<code, verdict>>
    BY <1>1
  <2>2. /\ Len(stack') = Len(stack) /\ Len(stack) \in Nat /\ stack'[Len(stack)].fn = Top.fn
        /\ \A i \in 1 .. Len(stack) - 1 : stack'[i] = stack[i]
    BY <2>1, SetTopTyped, TopTyped
  <2>. QED
    BY <2>1, <2>2 DEF Top
<1>2. CASE stack' = << >> /\ code' = code /\ verdict' # "overflow"
  <2>1. Len(stack') = 0 /\ Len(stack) \in Nat
    BY <1>2 DEF TypeOK
  <2>. QED
    BY <1>2, <2>1
<1>3. CASE \E w \in Pointer : Running /\ Return(w)
  <2>1. PICK w \in Pointer : Running /\ Return(w)
    BY <1>3
  <2>2. CASE Len(stack) = 1
    BY <2>1, <2>2, <1>2 DEF Return
  <2>3. CASE Len(stack) # 1
    <3>. DEFINE L == Len(stack)
                c == stack[L - 1]
    <3>1. /\ Len(stack') = L - 1 /\ stack'[L - 1] = ReturnTo(c, w)
          /\ \A i \in 1 .. L - 2 : stack'[i] = stack[i]
          /\ L \in Nat \ {0} /\ stack \in Seq(Frame)
      BY <2>1, <2>3, ReturnTyped, TopTyped DEF TypeOK
    <3>2. L - 1 \in 1 .. L
      BY <3>1, <2>3
    <3>3. c \in Frame
      BY <3>1, <3>2
    <3>4. ReturnTo(c, w).fn = c.fn
      BY <3>3 DEF ReturnTo, Frame
    <3>. HIDE DEF c
    <3>5. \A i \in 1 .. L - 1 : stack'[i].fn = stack[i].fn
      BY <3>1, <3>4 DEF c
    <3>6. UNCHANGED <<code, verdict>>
      BY <2>1, <2>3 DEF Return
    <3>. QED
      BY <3>1, <3>5, <3>6
  <2>. QED
    BY <2>2, <2>3
<1>4. CASE MatchStmt
  <2>. DEFINE f == [Top EXCEPT !.matched = TRUE, !.cpy = @ + 1]
  <2>1. Running /\ SetTop(f) /\ UNCHANGED <<code, verdict>>
    BY <1>4 DEF MatchStmt, Scanning
  <2>2. f \in Frame /\ f.fn = Top.fn
    BY <2>1, TopTyped, FrameUpdated DEF Frame
  <2>. QED
    BY <2>1, <2>2, <1>1
<1>5. CASE SkipStmt
  <2>. DEFINE f == [Top EXCEPT !.cpy = @ + 1]
  <2>1. Running /\ SetTop(f) /\ UNCHANGED <<code, verdict>>
    BY <1>5 DEF SkipStmt, Scanning
  <2>2. f \in Frame /\ f.fn = Top.fn
    <3>1. Top \in Frame
      BY <2>1, TopTyped
    <3>2. Top.cpy + 1 \in Nat \ {0}
      BY <3>1 DEF Frame
    <3>. QED
      BY <3>1, <3>2 DEF Frame
  <2>. QED
    BY <2>1, <2>2, <1>1
<1>6. CASE ContinueChild \/ ContinueNext
  <2>1. PICK k \in 1 .. N : ContinueWith(k) /\ Running
    BY <1>6, TopTyped DEF ContinueChild, ContinueNext, Frame, Pointer, Null
  <2>. DEFINE f == [Top EXCEPT !.self = k, !.matched = FALSE, !.child = Null]
  <2>2. SetTop(f) /\ UNCHANGED <<code, verdict>>
    BY <2>1 DEF ContinueWith
  <2>3. f \in Frame /\ f.fn = Top.fn
    <3>1. Null \in Pointer /\ Top \in Frame
      BY <2>1, TopTyped DEF Pointer, Null
    <3>. QED
      BY <3>1 DEF Frame
  <2>. QED
    BY <2>1, <2>2, <2>3, <1>1
<1>7. CASE ReturnEarly \/ ReturnAtEnd
  BY <1>7, <1>3, TopTyped DEF ReturnEarly, ReturnAtEnd, Scanned, Frame, Pointer, Null, NextOf
<1>8. CASE ReadPastEmptyBody
  BY <1>8, <1>2 DEF ReadPastEmptyBody, Die
<1>. QED
  BY <1>4, <1>5, <1>6, <1>7, <1>8

(***************************************************************************)
(* A search stays among the functions that calls lead to from where it is: *)
(* in any set of functions that calls do not leave, the scopes of a search *)
(* that is in it stay in it, and it dies in no empty body but one of them. *)
(***************************************************************************)
LEMMA CalleeCalled ==
  ASSUME TypeOK, Scanning, Calls
  PROVE  findFunctionDefinition(Here) \in CalledBy(Top.fn)
<1>1. /\ Top.cpy \in Nat \ {0} /\ Top.cpy <= Len(BodyOf(Top))
      /\ BodyOf(Top) \in Seq(Stmt)
  BY TopTyped DEF Scanning, AtEnd, Frame
<1>2. Top.cpy \in DOMAIN code[Top.fn] /\ findFunctionDefinition(Here) \in Fn
  BY <1>1, HereTyped DEF BodyOf
<1>. QED
  BY <1>2 DEF CalledBy, findFunctionDefinition, Here, BodyOf

LEMMA ScopesWithin ==
  ASSUME TypeOK, Next, verdict = "none",
         NEW S \in SUBSET Fn, \A f \in S : CalledBy(f) \subseteq S,
         \A i \in 1 .. Len(stack) : stack[i].fn \in S
  PROVE  /\ \A i \in 1 .. Len(stack') : stack'[i].fn \in S
         /\ verdict' = "crash" => \E f \in S : code[f] = << >>
<1>1. Running => Top.fn \in S /\ Len(stack) \in Nat \ {0}
  BY TopTyped DEF Top
<1>2. CASE EnterCallee
  <2>1. /\ Scanning /\ Running /\ Calls /\ verdict' = verdict
        /\ stack' = Append(stack, Call(Top.self, findFunctionDefinition(Here)))
    BY <1>2 DEF EnterCallee, Scanning
  <2>2. /\ Len(stack') = Len(stack) + 1
        /\ stack'[Len(stack) + 1].fn = findFunctionDefinition(Here)
        /\ \A i \in 1 .. Len(stack) : stack'[i] = stack[i]
    BY <2>1, TopTyped DEF TypeOK, Call
  <2>3. findFunctionDefinition(Here) \in S
    BY <1>1, <2>1, CalleeCalled
  <2>. QED
    BY <1>1, <2>1, <2>2, <2>3
<1>3. CASE StackOverflow
  BY <1>3 DEF StackOverflow, Die
<1>4. CASE \/ MatchStmt \/ SkipStmt \/ ReadPastEmptyBody
           \/ ContinueChild \/ ContinueNext \/ ReturnEarly \/ ReturnAtEnd
  <2>1. /\ Len(stack') <= Len(stack)
        /\ \A i \in 1 .. Len(stack') : stack'[i].fn = stack[i].fn
    BY <1>4, NoNewScope
  <2>2. ASSUME verdict' = "crash" PROVE ReadPastEmptyBody
    BY <1>4, <2>2 DEF MatchStmt, SkipStmt, ContinueChild, ContinueNext, ContinueWith,
                      ReturnEarly, ReturnAtEnd, Return
  <2>3. ReadPastEmptyBody => Running /\ code[Top.fn] = << >>
    BY DEF ReadPastEmptyBody, BodyOf
  <2>4. Len(stack) \in Nat /\ \A i \in 1 .. Len(stack') : i \in 1 .. Len(stack)
    <3>1. Len(stack) \in Nat
      BY DEF TypeOK
    <3>. QED
      BY <2>1, <3>1
  <2>. QED
    BY <1>1, <2>1, <2>2, <2>3, <2>4
<1>. QED
  BY <1>2, <1>3, <1>4 DEF Next

(* If the calls in that set fit the stack, so does the search. *)
LEMMA RoomWithin ==
  ASSUME TypeOK, Next, verdict = "none",
         NEW S \in SUBSET Fn, \A f \in S : CalledBy(f) \subseteq S,
         NEW rank \in [S -> 0 .. MaxDepth - 1],
         \A f \in S : \A g \in CalledBy(f) : rank[g] < rank[f],
         \A i \in 1 .. Len(stack) : stack[i].fn \in S /\ rank[stack[i].fn] + i <= MaxDepth
  PROVE  /\ verdict' # "overflow"
         /\ \A i \in 1 .. Len(stack') : rank[stack'[i].fn] + i <= MaxDepth
<1>. DEFINE L == Len(stack)
            g == findFunctionDefinition(Here)
<1>1. ASSUME Scanning, Calls
      PROVE  /\ L \in Nat \ {0} /\ MaxDepth \in Nat
             /\ rank[g] \in Nat /\ rank[g] + L + 1 <= MaxDepth
  <2>1. Running /\ L \in Nat \ {0} /\ Top = stack[L]
    BY <1>1, TopTyped DEF Scanning, Top
  <2>2. Top.fn \in S /\ rank[Top.fn] + L <= MaxDepth
    BY <2>1
  <2>3. g \in S /\ rank[g] < rank[Top.fn]
    BY <1>1, <2>2, CalleeCalled
  <2>4. rank[g] \in Nat /\ rank[Top.fn] \in Nat /\ MaxDepth \in Nat
    BY <2>2, <2>3, MatcherAssumption
  <2>. HIDE DEF L, g
  <2>. QED
    BY <2>1, <2>2, <2>3, <2>4
<1>2. CASE EnterCallee
  <2>1. /\ Scanning /\ Running /\ Calls /\ verdict' = verdict
        /\ stack' = Append(stack, Call(Top.self, g))
    BY <1>2 DEF EnterCallee, Scanning
  <2>2. Len(stack') = L + 1 /\ stack'[L + 1].fn = g /\ \A i \in 1 .. L : stack'[i] = stack[i]
    BY <2>1, TopTyped DEF TypeOK, Call
  <2>3. L \in Nat \ {0} /\ rank[g] + (L + 1) <= MaxDepth
    BY <1>1, <2>1
  <2>4. ASSUME NEW i \in 1 .. L + 1 PROVE rank[stack'[i].fn] + i <= MaxDepth
    <3>1. CASE i = L + 1
      BY <2>2, <2>3, <3>1
    <3>2. CASE i # L + 1
      BY <2>2, <2>3, <3>2
    <3>. QED
      BY <3>1, <3>2
  <2>. QED
    BY <2>1, <2>2, <2>4
<1>3. CASE StackOverflow
  <2>1. Scanning /\ Calls /\ L = MaxDepth
    BY <1>3 DEF StackOverflow
  <2>2. L \in Nat /\ rank[g] \in Nat /\ rank[g] + L + 1 <= MaxDepth
    BY <1>1, <2>1
  <2>. HIDE DEF L, g
  <2>. QED
    BY <2>1, <2>2
<1>4. CASE \/ MatchStmt \/ SkipStmt \/ ReadPastEmptyBody
           \/ ContinueChild \/ ContinueNext \/ ReturnEarly \/ ReturnAtEnd
  <2>1. /\ verdict' = verdict \/ verdict' # "overflow"
        /\ Len(stack') <= L
        /\ \A i \in 1 .. Len(stack') : stack'[i].fn = stack[i].fn
    BY <1>4, NoNewScope
  <2>2. \A i \in 1 .. Len(stack') : i \in 1 .. L
    <3>1. L \in Nat
      BY DEF TypeOK
    <3>. HIDE DEF L
    <3>. QED
      BY <2>1, <3>1
  <2>. HIDE DEF L
  <2>3. ASSUME NEW i \in 1 .. Len(stack') PROVE rank[stack'[i].fn] + i <= MaxDepth
    <3>1. stack'[i].fn = stack[i].fn /\ rank[stack[i].fn] + i <= MaxDepth
      BY <2>1, <2>2 DEF L
    <3>. QED
      BY <3>1
  <2>. QED
    BY <2>1, <2>3
<1>. QED
  BY <1>2, <1>3, <1>4 DEF Next

(***************************************************************************)
(* A program whose calls can be ranked within the stack never exhausts it  *)
(* (PchorProjection.cpp lines 51-58): the only overflow is one the         *)
(* program's own call graph asks for.                                      *)
(***************************************************************************)
THEOREM NoOverflow == Spec => []OverflowOnlyIfTooDeep
<1>. USE MatcherAssumption
<1>1. Init => DepthInv
  <2>. SUFFICES ASSUME Init PROVE DepthInv
    OBVIOUS
  <2>1. stack = <<Call(1, Main)>> /\ Len(stack) = 1 /\ stack[1].fn = Main /\ verdict = "none"
    BY DEF Init, Call
  <2>. QED
    BY <2>1 DEF DepthInv, RoomLeft, OverflowOnlyIfTooDeep
<1>2. TypeOK /\ TypeOK' /\ DepthInv /\ [Next \/ Done]_vars => DepthInv'
  <2>. SUFFICES ASSUME TypeOK, TypeOK', DepthInv, [Next \/ Done]_vars PROVE DepthInv'
    OBVIOUS
  <2>1. CASE EnterCallee
    <3>. DEFINE g == findFunctionDefinition(Here)
                L == Len(stack)
    <3>1. /\ Scanning /\ Running /\ Calls /\ L < MaxDepth /\ g \in Fn
          /\ stack' = Append(stack, Call(Top.self, g))
          /\ UNCHANGED <<code, verdict>>
      BY <2>1, HereTyped DEF EnterCallee, Scanning
    <3>2. /\ L \in Nat \ {0} /\ Len(stack') = L + 1 /\ stack'[L + 1].fn = g
          /\ \A i \in 1 .. L : stack'[i] = stack[i]
      BY <3>1, TopTyped DEF TypeOK, Call
    <3>3. ASSUME NEW rank \in [Fn -> 0 .. MaxDepth - 1], Falls(code, rank)
          PROVE  rank[g] < rank[Top.fn] /\ rank[Top.fn] + L <= MaxDepth
      BY <3>1, <3>3, CalleeFalls DEF DepthInv
    <3>4. ASSUME NEW rank \in [Fn -> 0 .. MaxDepth - 1], Falls(code, rank),
                 NEW i \in 1 .. L + 1
          PROVE  rank[stack'[i].fn] + i <= MaxDepth
      <4>1. CASE i = L + 1
        <5>1. rank[g] \in Nat /\ rank[Top.fn] \in Nat
          BY <3>1, TopTyped DEF Frame
        <5>. QED
          BY <4>1, <5>1, <3>2, <3>3, <3>4
      <4>2. CASE i # L + 1
        BY <4>2, <3>2, <3>4 DEF DepthInv, RoomLeft
      <4>. QED
        BY <4>1, <4>2
    <3>. HIDE DEF g
    <3>5. RoomLeft(code, stack')
      <4>1. Len(stack') = L + 1
        BY <3>2
      <4>. HIDE DEF L
      <4>. QED
        BY <3>4, <4>1 DEF RoomLeft
    <3>. QED
      BY <3>1, <3>5 DEF DepthInv, OverflowOnlyIfTooDeep, CallsFit, CalledBy
  <2>2. CASE StackOverflow
    <3>1. Scanning /\ Running /\ Calls /\ Len(stack) = MaxDepth /\ stack' = << >> /\ code' = code
      BY <2>2 DEF StackOverflow, Scanning, Die
    <3>2. ~CallsFit
      <4>. SUFFICES ASSUME CallsFit PROVE FALSE
        OBVIOUS
      <4>1. PICK rank \in [Fn -> 0 .. MaxDepth - 1] : Falls(code, rank)
        BY FitsMeansFalls
      <4>2. /\ rank[findFunctionDefinition(Here)] < rank[Top.fn]
            /\ rank[Top.fn] + Len(stack) <= MaxDepth
        BY <3>1, <4>1, CalleeFalls DEF DepthInv
      <4>3. rank[findFunctionDefinition(Here)] \in Nat /\ rank[Top.fn] \in Nat
        BY <3>1, TopTyped, HereTyped DEF Frame
      <4>. QED
        BY <3>1, <4>2, <4>3
    <3>. QED
      BY <3>1, <3>2 DEF DepthInv, RoomLeft, OverflowOnlyIfTooDeep, CallsFit, CalledBy
  <2>3. CASE /\ code' = code
             /\ verdict' = verdict \/ verdict' # "overflow"
             /\ Len(stack') <= Len(stack)
             /\ \A i \in 1 .. Len(stack') : stack'[i].fn = stack[i].fn
    <3>1. Len(stack') \in Nat /\ Len(stack) \in Nat
      BY DEF TypeOK
    <3>2. \A i \in 1 .. Len(stack') : i \in 1 .. Len(stack)
      BY <2>3, <3>1
    <3>3. ASSUME NEW rank \in [Fn -> 0 .. MaxDepth - 1], Falls(code, rank),
                 NEW i \in 1 .. Len(stack')
          PROVE  rank[stack'[i].fn] + i <= MaxDepth
      <4>1. stack'[i].fn = stack[i].fn
        BY <2>3
      <4>2. rank[stack[i].fn] + i <= MaxDepth
        BY <3>2, <3>3 DEF DepthInv, RoomLeft
      <4>. QED
        BY <4>1, <4>2
    <3>4. RoomLeft(code, stack')
      BY <3>3 DEF RoomLeft
    <3>. QED
      BY <2>3, <3>4 DEF DepthInv, OverflowOnlyIfTooDeep, CallsFit, CalledBy
  <2>4. CASE UNCHANGED vars
    BY <2>4 DEF vars, DepthInv, RoomLeft, OverflowOnlyIfTooDeep, CallsFit, CalledBy
  <2>. QED
    BY <2>1, <2>2, <2>3, <2>4, NoNewScope DEF Next, Done
<1>. QED
  BY <1>1, <1>2, TypeCorrect, PTL DEF Spec, DepthInv

----------------------------------------------------------------------------
(***************************************************************************)
(* In a body without calls the search is greedy, and greedy is best: no    *)
(* way of placing the list is ahead of it.                                 *)
(***************************************************************************)
(* A statement that does not perform the last of k projections is of no use. *)
LEMMA EmbedsShorter ==
  ASSUME NEW P, NEW S, NEW s \in Seq(S), NEW x \in S, NEW k \in Nat \ {0},
         Embeds(P, k, Append(s, x)), ~Performs(P[k], x)
  PROVE  Embeds(P, k, s)
<1>. DEFINE t == Append(s, x)
<1>1. PICK f \in [1 .. k -> 1 .. Len(t)] :
        /\ \A i \in 1 .. k : Performs(P[i], t[f[i]])
        /\ \A i, l \in 1 .. k : i < l => f[i] < f[l]
  BY DEF Embeds
<1>2. Len(t) = Len(s) + 1 /\ t[Len(s) + 1] = x /\ \A i \in 1 .. Len(s) : t[i] = s[i]
  OBVIOUS
<1>. HIDE DEF t
<1>3. \A i \in 1 .. k : f[i] \in 1 .. Len(s)
  <2>1. f[k] # Len(s) + 1
    BY <1>1, <1>2
  <2>2. f[k] \in 1 .. Len(s) + 1 /\ Len(s) \in Nat
    BY <1>1, <1>2
  <2>3. \A i \in 1 .. k : i # k => f[i] < f[k]
    BY <1>1
  <2>. QED
    BY <1>1, <1>2, <2>1, <2>2, <2>3
<1>4. f \in [1 .. k -> 1 .. Len(s)]
  BY <1>1, <1>3
<1>5. \A i \in 1 .. k : Performs(P[i], s[f[i]])
  BY <1>1, <1>2, <1>3
<1>. QED
  BY <1>1, <1>4, <1>5 DEF Embeds

(* One statement places at most one projection more. *)
LEMMA EmbedsOneMore ==
  ASSUME NEW P, NEW S, NEW s \in Seq(S), NEW x \in S, NEW k \in Nat,
         Embeds(P, k + 1, Append(s, x))
  PROVE  Embeds(P, k, s)
<1>. DEFINE t == Append(s, x)
<1>1. PICK f \in [1 .. k + 1 -> 1 .. Len(t)] :
        /\ \A i \in 1 .. k + 1 : Performs(P[i], t[f[i]])
        /\ \A i, l \in 1 .. k + 1 : i < l => f[i] < f[l]
  BY DEF Embeds
<1>2. Len(t) = Len(s) + 1 /\ \A i \in 1 .. Len(s) : t[i] = s[i]
  OBVIOUS
<1>. HIDE DEF t
<1>. DEFINE g == [i \in 1 .. k |-> f[i]]
<1>3. \A i \in 1 .. k : f[i] \in 1 .. Len(s)
  <2>1. \A i \in 1 .. k : f[i] < f[k + 1]
    BY <1>1
  <2>. QED
    BY <1>1, <1>2, <2>1
<1>4. g \in [1 .. k -> 1 .. Len(s)]
  BY <1>3
<1>5. \A i \in 1 .. k : Performs(P[i], s[g[i]])
  BY <1>1, <1>2, <1>3
<1>6. \A i, l \in 1 .. k : i < l => g[i] < g[l]
  BY <1>1
<1>. QED
  BY <1>4, <1>5, <1>6 DEF Embeds

(***************************************************************************)
(* The only frame is the method's own.  What is before its iterator does   *)
(* not place the projection searched for; when it does, because that one   *)
(* was found just now, it does not place the next.                         *)
(***************************************************************************)
Before(f) == SubSeq(code[Main], 1, f.cpy - 1)

Greedy ==
  /\ Len(stack) <= 1
  /\ Running => /\ Top.fn = Main /\ Top.child = Null
                /\ Top.cpy <= Len(code[Main]) + 1
                /\ ~Embeds(projs, IF Top.matched THEN Top.self + 1 ELSE Top.self, Before(Top))
  /\ verdict = "false" => ~Embeds(projs, N, code[Main])

GreedyInv == CallFree => Greedy

(* Passing the statement at the iterator. *)
LEMMA BeforeNext ==
  ASSUME TypeOK, Scanning, Top.fn = Main, NEW f, f.cpy = Top.cpy + 1, f.fn = Main
  PROVE  /\ Before(f) = Append(Before(Top), Here)
         /\ Before(Top) \in Seq(Stmt) /\ Here \in Stmt
         /\ f.cpy <= Len(code[Main]) + 1
<1>1. code[Main] \in Seq(Stmt) /\ Top.cpy \in 1 .. Len(code[Main]) /\ Here = code[Main][Top.cpy]
  BY TopTyped DEF Scanning, AtEnd, BodyOf, Frame, Here
<1>2. ASSUME NEW s \in Seq(Stmt), NEW c \in 1 .. Len(s)
      PROVE  SubSeq(s, 1, (c + 1) - 1) = Append(SubSeq(s, 1, c - 1), s[c])
  BY <1>2
<1>3. ASSUME NEW s \in Seq(Stmt), NEW c \in 1 .. Len(s)
      PROVE  SubSeq(s, 1, c - 1) \in Seq(Stmt) /\ s[c] \in Stmt /\ c + 1 <= Len(s) + 1
  BY <1>3
<1>. QED
  BY <1>1, <1>2, <1>3 DEF Before

LEMMA GreedyStep == TypeOK /\ GreedyInv /\ [Next \/ Done]_vars => GreedyInv'
<1>. SUFFICES ASSUME TypeOK, GreedyInv, [Next \/ Done]_vars, CallFree' PROVE Greedy'
  BY DEF GreedyInv
<1>1. code' = code /\ projs' = projs
  BY DEF Next, Done, vars, MatchStmt, SkipStmt, EnterCallee, StackOverflow, ReadPastEmptyBody,
         Die, ContinueChild, ContinueNext, ContinueWith, ReturnEarly, ReturnAtEnd, Return
<1>2. CallFree /\ Greedy
  BY <1>1 DEF GreedyInv, CallFree
<1>3. ASSUME Running
      PROVE  /\ Len(stack) = 1 /\ Top \in Frame /\ Top.fn = Main /\ Top.child = Null
             /\ stack \in Seq(Frame) /\ N \in Nat \ {0} /\ code[Main] \in Seq(Stmt)
             /\ Top.self \in Nat \ {0} /\ Top.cpy \in Nat \ {0}
  <2>1. Len(stack) \in Nat \ {0} /\ Top \in Frame /\ N \in Nat \ {0} /\ BodyOf(Top) \in Seq(Stmt)
    BY <1>3, TopTyped
  <2>2. Len(stack) <= 1 /\ Top.fn = Main /\ Top.child = Null
    BY <1>2, <1>3 DEF Greedy
  <2>3. code[Main] \in Seq(Stmt)
    BY <2>1, <2>2 DEF BodyOf
  <2>4. Top.self \in Nat \ {0} /\ Top.cpy \in Nat \ {0}
    BY <2>1 DEF Frame
  <2>5. Len(stack) = 1
    <3>1. \A n \in Nat \ {0} : n <= 1 => n = 1
      OBVIOUS
    <3>. QED
      BY <2>1, <2>2, <3>1
  <2>6. stack \in Seq(Frame)
    BY DEF TypeOK
  <2>. QED
    BY <2>1, <2>2, <2>3, <2>4, <2>5, <2>6
<1>4. ASSUME NEW f, Running, SetTop(f), UNCHANGED verdict, f.fn = Main, f.child = Null,
             f.cpy <= Len(code[Main]) + 1,
             ~Embeds(projs, IF f.matched THEN f.self + 1 ELSE f.self, Before(f))
      PROVE  Greedy'
  <2>1. Len(stack') = 1 /\ Top' = f
    BY <1>3, <1>4 DEF SetTop, Top
  <2>2. Top'.fn = Main /\ Top'.child = Null /\ Top'.cpy <= Len(code'[Main]) + 1
    BY <1>1, <1>4, <2>1
  <2>3. Before(Top)' = Before(f)
    BY <1>1, <2>1 DEF Before
  <2>4. ~Embeds(projs', IF Top'.matched THEN Top'.self + 1 ELSE Top'.self, Before(Top)')
    BY <1>1, <1>4, <2>1, <2>3
  <2>5. verdict' = "false" => ~Embeds(projs', N', code'[Main])
    BY <1>1, <1>2, <1>4 DEF Greedy, N
  <2>. QED
    BY <2>1, <2>2, <2>4, <2>5 DEF Greedy
<1>5. CASE MatchStmt
  <2>. DEFINE f == [Top EXCEPT !.matched = TRUE, !.cpy = @ + 1]
  <2>1. Scanning /\ Running /\ SetTop(f) /\ UNCHANGED verdict
    BY <1>5 DEF MatchStmt, Scanning
  <2>2. /\ f.matched /\ f.self = Top.self /\ f.fn = Main /\ f.child = Null
        /\ f.cpy = Top.cpy + 1
    BY <1>3, <2>1 DEF Frame
  <2>. HIDE DEF f
  <2>3. ~Embeds(projs, Top.self, Before(Top))
    BY <1>2, <2>1 DEF Greedy, Scanning
  <2>4. /\ Before(f) = Append(Before(Top), Here)
        /\ Before(Top) \in Seq(Stmt) /\ Here \in Stmt
        /\ f.cpy <= Len(code[Main]) + 1
    BY <1>3, <2>1, <2>2, BeforeNext
  <2>5. ~Embeds(projs, Top.self + 1, Before(f))
    BY <1>3, <2>1, <2>3, <2>4, EmbedsOneMore
  <2>. QED
    BY <1>4, <2>1, <2>2, <2>4, <2>5
<1>6. CASE SkipStmt
  <2>. DEFINE f == [Top EXCEPT !.cpy = @ + 1]
  <2>1. Scanning /\ Running /\ SetTop(f) /\ ~Performs(This, Here) /\ UNCHANGED verdict
    BY <1>6 DEF SkipStmt, Scanning
  <2>2. /\ f.matched = Top.matched /\ ~Top.matched /\ f.self = Top.self /\ f.fn = Main
        /\ f.child = Null /\ f.cpy = Top.cpy + 1
    BY <1>3, <2>1 DEF Frame, Scanning
  <2>. HIDE DEF f
  <2>3. ~Embeds(projs, Top.self, Before(Top))
    BY <1>2, <2>1, <2>2 DEF Greedy
  <2>4. /\ Before(f) = Append(Before(Top), Here)
        /\ Before(Top) \in Seq(Stmt) /\ Here \in Stmt
        /\ f.cpy <= Len(code[Main]) + 1
    BY <1>3, <2>1, <2>2, BeforeNext
  <2>5. ~Embeds(projs, Top.self, Before(f))
    BY <1>3, <2>1, <2>3, <2>4, EmbedsShorter DEF This
  <2>. QED
    BY <1>4, <2>1, <2>2, <2>4, <2>5
<1>7. CASE EnterCallee
  <2>1. Scanning /\ Running /\ findFunctionDefinition(Here) # NoFn
    BY <1>7 DEF EnterCallee, Scanning, Calls
  <2>2. Top.cpy \in DOMAIN code[Main] /\ Here = code[Main][Top.cpy]
    BY <1>3, <2>1 DEF Scanning, AtEnd, BodyOf, Here
  <2>. QED
    BY <1>2, <2>1, <2>2 DEF CallFree, findFunctionDefinition
<1>8. CASE StackOverflow \/ ReadPastEmptyBody
  BY <1>8 DEF StackOverflow, ReadPastEmptyBody, Die, Greedy, Running
<1>9. CASE ContinueChild \/ ContinueNext
  <2>. DEFINE f == [Top EXCEPT !.self = Top.self + 1, !.matched = FALSE, !.child = Null]
  <2>1. Running /\ Top.matched /\ SetTop(f) /\ UNCHANGED verdict
    BY <1>3, <1>9 DEF ContinueChild, ContinueNext, ContinueWith, Scanned
  <2>2. /\ ~f.matched /\ f.self = Top.self + 1 /\ f.fn = Main /\ f.child = Null
        /\ f.cpy = Top.cpy
    BY <1>3, <2>1 DEF Frame
  <2>. HIDE DEF f
  <2>3. /\ f.cpy <= Len(code[Main]) + 1 /\ Before(f) = Before(Top)
        /\ ~Embeds(projs, Top.self + 1, Before(Top))
    BY <1>2, <2>1, <2>2 DEF Greedy, Before
  <2>. QED
    BY <1>4, <2>1, <2>2, <2>3
<1>10. CASE ReturnEarly \/ ReturnAtEnd
  <2>1. PICK w : Return(w) /\ Running /\ Scanned
    BY <1>10 DEF ReturnEarly, ReturnAtEnd, Scanned
  <2>2. stack' = << >> /\ verdict' = IF Top.matched THEN "true" ELSE "false"
    BY <1>3, <2>1 DEF Return
  <2>3. ASSUME ~Top.matched PROVE ~Embeds(projs, N, code[Main])
    <3>1. Top.cpy = Len(code[Main]) + 1
      BY <1>2, <1>3, <2>1, <2>3 DEF Scanned, AtEnd, BodyOf, Greedy
    <3>2. Before(Top) = code[Main]
      BY <1>3, <2>1, <3>1 DEF Before
    <3>3. ~Embeds(projs, Top.self, code[Main])
      BY <1>2, <2>1, <2>3, <3>2 DEF Greedy
    <3>4. Top.self \in Nat /\ Top.self <= N
      BY <1>3, <2>1 DEF Frame
    <3>. QED
      BY <1>3, <2>1, <3>3, <3>4, EmbedsFewer
  <2>. QED
    BY <1>1, <2>2, <2>3 DEF Greedy, Running, N
<1>11. CASE UNCHANGED vars
  BY <1>2, <1>11 DEF vars, Greedy, Running, Top, Before, N
<1>. QED
  BY <1>5, <1>6, <1>7, <1>8, <1>9, <1>10, <1>11 DEF Next, Done

(***************************************************************************)
(* A method without calls is only rejected if its body cannot be said to   *)
(* perform the list in any way (PchorProjection.cpp lines 34-62).          *)
(***************************************************************************)
THEOREM FlatIsComplete == Spec => []FlatComplete
<1>1. Init => GreedyInv
  <2>. SUFFICES ASSUME Init, TypeOK PROVE Greedy
    BY InitTyped DEF GreedyInv
  <2>1. stack = <<Call(1, Main)>> /\ Len(stack) = 1 /\ Top = Call(1, Main)
    BY DEF Init, Top
  <2>2. Before(Top) = << >> /\ Len(code[Main]) \in Nat
    BY <2>1, MatcherAssumption DEF Before, Call, TypeOK
  <2>3. ~Embeds(projs, 1, << >>)
    BY DEF Embeds
  <2>. QED
    BY <2>1, <2>2, <2>3 DEF Greedy, Init, Call
<1>2. TypeOK /\ GreedyInv /\ [Next \/ Done]_vars => GreedyInv'
  BY GreedyStep
<1>3. GreedyInv => FlatComplete
  BY DEF GreedyInv, Greedy, FlatComplete
<1>. QED
  BY <1>1, <1>2, <1>3, TypeCorrect, PTL DEF Spec

----------------------------------------------------------------------------
(***************************************************************************)
(* What a search of the list P in the code C does next, when it is in the  *)
(* scopes stk: the scopes it is in then, and the verdict.                  *)
(***************************************************************************)
Advance(C, P, stk) ==
  LET f == stk[Len(stk)]
      atEnd == f.cpy > Len(C[f.fn])
      here == C[f.fn][f.cpy]
      performs == Performs(P[f.self], here)
      calls == Inspects(P[f.self], here) /\ ~performs /\ here.callee # NoFn
      going(g) == <<[stk EXCEPT ![Len(stk)] = g], "none">>
      onward(k) == going([f EXCEPT !.self = k, !.matched = FALSE, !.child = Null])
      written == IF f.matched THEN (IF f.self < Len(P) THEN f.self + 1 ELSE Null) ELSE f.self
      result(g) == [g EXCEPT !.matched = f.matched,
                             !.cpy = @ + 1,
                             !.child = IF atEnd THEN written ELSE @]
  IN  IF ~f.matched /\ ~atEnd
        THEN IF performs THEN going([f EXCEPT !.matched = TRUE, !.cpy = @ + 1])
             ELSE IF ~calls THEN going([f EXCEPT !.cpy = @ + 1])
             ELSE IF Len(stk) < MaxDepth THEN <<Append(stk, Call(f.self, here.callee)), "none">>
             ELSE << << >>, "overflow" >>
      ELSE IF ~atEnd /\ f.child # Null THEN onward(f.child)
      ELSE IF ~atEnd /\ f.self < Len(P) THEN onward(f.self + 1)
      ELSE IF Len(stk) = 1 THEN << << >>, IF f.matched THEN "true" ELSE "false" >>
      ELSE <<[SubSeq(stk, 1, Len(stk) - 1) EXCEPT ![Len(stk) - 1] = result(@)], "none">>

(* The search has no choice but that of dying in an empty scope. *)
LEMMA StepAdvances ==
  MatcherAssumption /\ SearchInv /\ Next =>
    verdict' = "crash" \/ <<stack', verdict'>> = Advance(code, projs, stack)
<1>. SUFFICES ASSUME MatcherAssumption, TypeOK, Running, verdict = "none", Next
              PROVE  verdict' = "crash" \/ <<stack', verdict'>> = Advance(code, projs, stack)
  <2>1. Next => Running
    BY DEF Next, MatchStmt, SkipStmt, EnterCallee, StackOverflow, ReadPastEmptyBody,
           ContinueChild, ContinueNext, ReturnEarly, ReturnAtEnd, Scanning, Scanned
  <2>. QED
    BY <2>1 DEF SearchInv
<1>. USE DEF Advance, Scanning, Scanned, AtEnd, Here, BodyOf, Top, This, Calls, SetTop, N,
             findFunctionDefinition
<1>0. /\ Top.self \in 1 .. N /\ N \in Nat /\ Len(stack) \in Nat
      /\ Top.matched \in BOOLEAN
  BY TopTyped DEF Frame
<1>1. CASE MatchStmt
  BY <1>1 DEF MatchStmt
<1>2. CASE SkipStmt
  BY <1>2 DEF SkipStmt
<1>3. CASE EnterCallee
  BY <1>3 DEF EnterCallee
<1>4. CASE StackOverflow
  BY <1>4, SMTT(60) DEF StackOverflow, Die
<1>5. CASE ReadPastEmptyBody
  BY <1>5 DEF ReadPastEmptyBody, Die
<1>6. CASE ContinueChild
  BY <1>6 DEF ContinueChild, ContinueWith
<1>7. CASE ContinueNext
  BY <1>7 DEF ContinueNext, ContinueWith
<1>8. CASE ReturnEarly
  <2>1. Scanned /\ ~AtEnd /\ Top.child = Null /\ Top.self = N /\ Return(Null)
    BY <1>8 DEF ReturnEarly
  <2>2. ~(Top.self < N)
    BY <1>0, <2>1
  <2>3. CASE Len(stack) = 1
    BY <2>1, <2>2, <2>3 DEF Return, ReturnTo
  <2>4. CASE Len(stack) # 1
    BY <2>1, <2>2, <2>4 DEF Return, ReturnTo
  <2>. QED
    BY <2>3, <2>4
<1>9. CASE ReturnAtEnd
  BY <1>9 DEF ReturnAtEnd, Return, ReturnTo, NextOf
<1>. QED
  BY <1>1, <1>2, <1>3, <1>4, <1>5, <1>6, <1>7, <1>8, <1>9 DEF Next

(***************************************************************************)
(* A search of the list P begun with method m comes by the scopes stk with *)
(* the verdict v, none while there are any.                                *)
(***************************************************************************)
Run(C, P, m, n, r) ==
  /\ r = [i \in 0 .. n |-> r[i]]
  /\ r[0] = << <<Call(1, m)>>, "none" >>
  /\ \A i \in 0 .. n - 1 : r[i][1] # << >> /\ r[i + 1] = Advance(C, P, r[i][1])

Reached(C, P, m, stk, v) ==
  \E n \in Nat : \E r : Run(C, P, m, n, r) /\ r[n] = <<stk, v>>

(* It begins with one scope, and without a verdict. *)
LEMMA ReachedStart == \A C, P, m : Reached(C, P, m, <<Call(1, m)>>, "none")
<1>. TAKE C, P, m
<1>. DEFINE r == [i \in 0 .. 0 |-> << <<Call(1, m)>>, "none" >>]
<1>1. Run(C, P, m, 0, r)
  BY DEF Run
<1>2. r[0] = << <<Call(1, m)>>, "none" >>
  OBVIOUS
<1>. HIDE DEF r
<1>. QED
  BY <1>1, <1>2, 0 \in Nat DEF Reached

(* From where it is, it comes by what is next. *)
LEMMA ReachedNext ==
  \A C, P, m, stk, v, new, w :
    Reached(C, P, m, stk, v) /\ stk # << >> /\ <<new, w>> = Advance(C, P, stk)
      => Reached(C, P, m, new, w)
<1>. SUFFICES ASSUME NEW C, NEW P, NEW m, NEW stk, NEW v,
                     Reached(C, P, m, stk, v), stk # << >>,
                     NEW new, NEW w, <<new, w>> = Advance(C, P, stk)
              PROVE  Reached(C, P, m, new, w)
  OBVIOUS
<1>0. PICK n \in Nat : \E r : Run(C, P, m, n, r) /\ r[n] = <<stk, v>>
  BY DEF Reached
<1>1. PICK r : Run(C, P, m, n, r) /\ r[n] = <<stk, v>>
  BY <1>0
<1>. DEFINE q == [i \in 0 .. n + 1 |-> IF i = n + 1 THEN <<new, w>> ELSE r[i]]
<1>2. q[n + 1] = <<new, w>> /\ \A i \in 0 .. n : q[i] = r[i]
  OBVIOUS
<1>3. q = [i \in 0 .. n + 1 |-> q[i]]
  OBVIOUS
<1>. HIDE DEF q
<1>4. ASSUME NEW i \in 0 .. n
      PROVE  q[i][1] # << >> /\ q[i + 1] = Advance(C, P, q[i][1])
  <2>1. CASE i = n
    <3>1. q[i] = <<stk, v>>
      BY <1>1, <1>2, <2>1
    <3>2. q[i][1] = stk
      BY <3>1
    <3>. QED
      BY <1>2, <2>1, <3>2
  <2>2. CASE i # n
    <3>1. i \in 0 .. n - 1 /\ i + 1 \in 0 .. n
      BY <2>2
    <3>2. r[i][1] # << >> /\ r[i + 1] = Advance(C, P, r[i][1])
      BY <1>1, <3>1 DEF Run
    <3>. QED
      BY <1>2, <3>1, <3>2
  <2>. QED
    BY <2>1, <2>2
<1>5. q[0] = << <<Call(1, m)>>, "none" >>
  BY <1>1, <1>2 DEF Run
<1>6. Run(C, P, m, n + 1, q)
  <2>1. 0 .. (n + 1) - 1 = 0 .. n
    OBVIOUS
  <2>. QED
    BY <1>3, <1>4, <1>5, <2>1 DEF Run
<1>. QED
  BY <1>2, <1>6, n + 1 \in Nat DEF Reached

(* Two runs agree as far as both go. *)
LEMMA RunsAgree ==
  ASSUME NEW C, NEW P, NEW m, NEW n \in Nat, NEW r, NEW k \in Nat, NEW q,
         Run(C, P, m, n, r), Run(C, P, m, k, q)
  PROVE  \A i \in Nat : i <= n /\ i <= k => r[i] = q[i]
<1>. DEFINE Bad == {i \in Nat : i <= n /\ i <= k /\ r[i] # q[i]}
<1>1. SUFFICES ASSUME Bad # {} PROVE FALSE
  OBVIOUS
<1>2. PICK i \in Bad : \A j \in Bad : i <= j
  <2>1. Bad \subseteq Nat
    OBVIOUS
  <2>. QED
    BY <1>1, <2>1, Least
<1>3. i # 0
  BY DEF Run
<1>4. i - 1 \in Nat /\ i - 1 <= n /\ i - 1 <= k /\ i - 1 \notin Bad
      /\ i - 1 \in 0 .. n - 1 /\ i - 1 \in 0 .. k - 1 /\ (i - 1) + 1 = i
  BY <1>2, <1>3
<1>5. r[i - 1] = q[i - 1]
  BY <1>4
<1>6. r[i] = Advance(C, P, r[i - 1][1]) /\ q[i] = Advance(C, P, q[i - 1][1])
  BY <1>4 DEF Run
<1>. QED
  BY <1>5, <1>6

(* A search that ends ends with one verdict. *)
LEMMA ReachedOnce ==
  \A C, P, m, v, w :
    Reached(C, P, m, << >>, v) /\ Reached(C, P, m, << >>, w) => v = w
<1>. SUFFICES ASSUME NEW C, NEW P, NEW m, NEW v, NEW w,
                     Reached(C, P, m, << >>, v), Reached(C, P, m, << >>, w)
              PROVE  v = w
  OBVIOUS
<1>0. PICK n \in Nat, k \in Nat :
         (\E r : Run(C, P, m, n, r) /\ r[n] = << << >>, v >>)
         /\ (\E q : Run(C, P, m, k, q) /\ q[k] = << << >>, w >>)
  BY DEF Reached
<1>1. PICK r : Run(C, P, m, n, r) /\ r[n] = << << >>, v >>
  BY <1>0
<1>2. PICK q : Run(C, P, m, k, q) /\ q[k] = << << >>, w >>
  BY <1>0
<1>3. \A i \in Nat : i <= n /\ i <= k => r[i] = q[i]
  <2>1. Run(C, P, m, n, r)
    BY <1>1
  <2>2. Run(C, P, m, k, q)
    BY <1>2
  <2>. QED
    BY <2>1, <2>2, RunsAgree, SMTT(30)
<1>4. CASE n < k
  <2>1. n \in 0 .. k - 1 /\ r[n] = q[n]
    BY <1>3, <1>4
  <2>2. q[n][1] # << >>
    BY <1>2, <2>1 DEF Run
  <2>. QED
    BY <1>1, <2>1, <2>2
<1>5. CASE k < n
  <2>1. k \in 0 .. n - 1 /\ r[k] = q[k]
    BY <1>3, <1>5
  <2>2. r[k][1] # << >>
    BY <1>1, <2>1 DEF Run
  <2>. QED
    BY <1>2, <2>1, <2>2
<1>6. CASE n = k
  BY <1>1, <1>2, <1>3, <1>6
<1>. QED
  BY <1>4, <1>5, <1>6

----------------------------------------------------------------------------
(***************************************************************************)
(* Evidence in the order of execution.  What a function does is defined    *)
(* by recursion, on the statements of its body and on the levels of calls  *)
(* that are followed; that there are such functions is by the least        *)
(* number for which there are none.                                        *)
(***************************************************************************)
(* u[k] is what the first k statements of the body b do. *)
Tells(u, b, calls, m) ==
  u = [k \in 0 .. m |-> IF k = 0 THEN << >> ELSE u[k - 1] \o Part(b[k], calls)]

LEMMA TellsExists ==
  ASSUME NEW b, NEW calls, NEW m \in Nat
  PROVE  \E u : Tells(u, b, calls, m)
<1>. DEFINE Bad == {i \in Nat : ~\E u : Tells(u, b, calls, i)}
<1>1. SUFFICES ASSUME Bad # {} PROVE FALSE
  OBVIOUS
<1>2. PICK i \in Bad : \A j \in Bad : i <= j
  <2>1. Bad \subseteq Nat
    OBVIOUS
  <2>. QED
    BY <1>1, <2>1, Least
<1>3. i # 0
  <2>1. Tells([k \in 0 .. 0 |-> << >>], b, calls, 0)
    BY DEF Tells
  <2>. QED
    BY <2>1
<1>4. PICK u : Tells(u, b, calls, i - 1)
  <2>1. i - 1 \in Nat /\ ~(i <= i - 1)
    BY <1>3
  <2>. QED
    BY <1>2, <2>1
<1>. DEFINE v == [k \in 0 .. i |-> IF k = 0 THEN << >> ELSE u[k - 1] \o Part(b[k], calls)]
<1>5. ASSUME NEW k \in 0 .. i - 1 PROVE v[k] = u[k]
  <2>1. k \in 0 .. i
    OBVIOUS
  <2>2. u[k] = IF k = 0 THEN << >> ELSE u[k - 1] \o Part(b[k], calls)
    BY <1>4 DEF Tells
  <2>. QED
    BY <2>1, <2>2
<1>6. \A k \in 0 .. i : k # 0 => k - 1 \in 0 .. i - 1
  BY <1>3
<1>7. Tells(v, b, calls, i)
  BY <1>5, <1>6 DEF Tells
<1>. QED
  BY <1>7

(* The same, for the code C. *)
UptoIn(C, f, calls) ==
  LET upto[k \in 0 .. Len(C[f])] ==
        IF k = 0 THEN << >> ELSE upto[k - 1] \o Part(C[f][k], calls)
  IN  upto

InlinedIn(C) ==
  LET does[d \in 0 .. MaxDepth] ==
        IF d = 0 THEN << >> ELSE [f \in Fn |-> UptoIn(C, f, does[d - 1])[Len(C[f])]]
  IN  does

LEMMA InlinedCode == Inlined = InlinedIn(code)
<1>1. \A f, calls : Upto(f, calls) = UptoIn(code, f, calls)
  BY DEF Upto, UptoIn
<1>. QED
  BY DEF Inlined, InlinedIn, Upto, UptoIn

LEMMA UptoTells ==
  ASSUME NEW C, NEW f, NEW calls, Len(C[f]) \in Nat
  PROVE  Tells(UptoIn(C, f, calls), C[f], calls, Len(C[f]))
<1>. DEFINE u == CHOOSE u1 : Tells(u1, C[f], calls, Len(C[f]))
<1>1. Tells(u, C[f], calls, Len(C[f]))
  BY TellsExists
<1>2. UptoIn(C, f, calls) = u
  BY DEF UptoIn, Tells
<1>. HIDE DEF u
<1>. QED
  BY <1>1, <1>2

(* What k statements do is a list of statements, with which whoever does   *)
(* more begins.                                                            *)
LEMMA TellsType ==
  ASSUME NEW b \in Seq(Stmt), NEW calls, \A g \in DOMAIN calls : calls[g] \in Seq(Stmt),
         NEW u, Tells(u, b, calls, Len(b))
  PROVE  /\ u[0] = << >>
         /\ \A k \in 0 .. Len(b) : u[k] \in Seq(Stmt)
         /\ \A k \in 1 .. Len(b) : /\ u[k] = u[k - 1] \o Part(b[k], calls)
                                   /\ Part(b[k], calls) \in Seq(Stmt)
<1>1. u[0] = << >>
  BY DEF Tells
<1>2. ASSUME NEW k \in 1 .. Len(b)
      PROVE  u[k] = u[k - 1] \o Part(b[k], calls) /\ Part(b[k], calls) \in Seq(Stmt)
  <2>1. k \in 0 .. Len(b) /\ k # 0
    OBVIOUS
  <2>2. u[k] = u[k - 1] \o Part(b[k], calls)
    BY <2>1 DEF Tells
  <2>3. b[k] \in Stmt
    OBVIOUS
  <2>4. <<b[k]>> \in Seq(Stmt)
    BY <2>3
  <2>. QED
    BY <2>2, <2>4 DEF Part
<1>. DEFINE Bad == {i \in 0 .. Len(b) : u[i] \notin Seq(Stmt)}
<1>3. Bad = {}
  <2>1. SUFFICES ASSUME Bad # {} PROVE FALSE
    OBVIOUS
  <2>2. PICK i \in Bad : \A j \in Bad : i <= j
    <3>1. Bad \subseteq Nat
      OBVIOUS
    <3>. QED
      BY <2>1, <3>1, Least
  <2>3. i # 0
    <3>1. << >> \in Seq(Stmt)
      OBVIOUS
    <3>. QED
      BY <1>1, <3>1
  <2>4. i \in 1 .. Len(b) /\ u[i - 1] \in Seq(Stmt)
    <3>1. i \in 1 .. Len(b) /\ i - 1 \in 0 .. Len(b) /\ ~(i <= i - 1)
      BY <2>3
    <3>. QED
      BY <2>2, <3>1
  <2>. DEFINE x == u[i - 1]
              y == Part(b[i], calls)
  <2>5. x \in Seq(Stmt) /\ y \in Seq(Stmt) /\ u[i] = x \o y
    BY <1>2, <2>4
  <2>. HIDE DEF x, y
  <2>6. x \o y \in Seq(Stmt)
    BY <2>5, ConcatProperties
  <2>. QED
    BY <2>5, <2>6
<1>. QED
  BY <1>1, <1>2, <1>3

LEMMA TellsOn ==
  ASSUME NEW b \in Seq(Stmt), NEW calls, \A g \in DOMAIN calls : calls[g] \in Seq(Stmt),
         NEW u, Tells(u, b, calls, Len(b)), NEW k \in 0 .. Len(b)
  PROVE  \E y \in Seq(Stmt) : u[Len(b)] = u[k] \o y
<1>. DEFINE n == Len(b)
            Rest(j) == \E y \in Seq(Stmt) : u[n] = u[n - j] \o y
            Bad == {j \in 0 .. n : ~Rest(j)}
<1>1. /\ n \in Nat
      /\ \A j \in 0 .. n : u[j] \in Seq(Stmt)
      /\ \A j \in 1 .. n : \E x \in Seq(Stmt) : u[j] = u[j - 1] \o x
  <2>1. \A j \in 1 .. n : u[j] = u[j - 1] \o Part(b[j], calls) /\ Part(b[j], calls) \in Seq(Stmt)
    BY TellsType, Zenon
  <2>2. n \in Nat
    OBVIOUS
  <2>3. \A j \in 0 .. n : u[j] \in Seq(Stmt)
    BY TellsType, Zenon
  <2>. HIDE DEF n
  <2>. QED
    BY <2>1, <2>2, <2>3, Zenon
<1>2. Rest(0)
  <2>. DEFINE z == u[n]
  <2>1. z \in Seq(Stmt) /\ n - 0 = n
    BY <1>1
  <2>. HIDE DEF z
  <2>2. z = z \o << >> /\ << >> \in Seq(Stmt)
    BY <2>1, ConcatEmptySeq
  <2>. QED
    BY <2>1, <2>2 DEF z
<1>3. ASSUME NEW j \in 1 .. n, Rest(j - 1) PROVE Rest(j)
  <2>1. PICK y \in Seq(Stmt) : u[n] = u[n - (j - 1)] \o y
    BY <1>3
  <2>2. n - (j - 1) \in 1 .. n /\ (n - (j - 1)) - 1 = n - j /\ n - j \in 0 .. n
    BY <1>1
  <2>3. PICK x \in Seq(Stmt) : u[n - (j - 1)] = u[n - j] \o x
    BY <1>1, <2>2
  <2>4. PICK z \in Seq(Stmt) : z = x \o y
    BY ConcatProperties
  <2>. DEFINE w == u[n - j]
  <2>5. w \in Seq(Stmt)
    BY <1>1, <2>2
  <2>6. u[n] = (w \o x) \o y
    BY <2>1, <2>3
  <2>. HIDE DEF w
  <2>7. (w \o x) \o y = w \o (x \o y)
    BY <2>5, SMTT(20)
  <2>8. u[n] = w \o z
    BY <2>4, <2>6, <2>7, Zenon
  <2>. QED
    BY <2>8 DEF w
<1>. HIDE DEF Rest, n
<1>4. Bad = {}
  <2>1. SUFFICES ASSUME Bad # {} PROVE FALSE
    OBVIOUS
  <2>2. PICK i \in Bad : \A j \in Bad : i <= j
    <3>1. Bad \subseteq Nat
      BY <1>1
    <3>. QED
      BY <2>1, <3>1, Least
  <2>3. i # 0
    BY <1>2
  <2>4. i \in 1 .. n /\ i - 1 \in 0 .. n /\ ~(i <= i - 1)
    BY <1>1, <2>3
  <2>. QED
    BY <1>3, <2>2, <2>4
<1>5. n - k \in 0 .. n /\ n - (n - k) = k
  BY <1>1 DEF n
<1>. QED
  BY <1>4, <1>5 DEF Rest, n

(***************************************************************************)
(* With d levels of calls followed, every function does what its           *)
(* statements do, with d - 1 levels followed for the functions they call;  *)
(* with none, nothing is known of any.                                     *)
(***************************************************************************)
Follows(v, C, m) ==
  v = [d \in 0 .. m |->
         IF d = 0 THEN << >> ELSE [f \in Fn |-> UptoIn(C, f, v[d - 1])[Len(C[f])]]]

LEMMA FollowsExists ==
  ASSUME NEW C, NEW m \in Nat
  PROVE  \E v : Follows(v, C, m)
<1>. DEFINE Bad == {i \in Nat : ~\E v : Follows(v, C, i)}
<1>1. SUFFICES ASSUME Bad # {} PROVE FALSE
  OBVIOUS
<1>2. PICK i \in Bad : \A j \in Bad : i <= j
  <2>1. Bad \subseteq Nat
    OBVIOUS
  <2>. QED
    BY <1>1, <2>1, Least
<1>3. i # 0
  <2>1. Follows([k \in 0 .. 0 |-> << >>], C, 0)
    BY DEF Follows
  <2>. QED
    BY <2>1
<1>4. PICK u : Follows(u, C, i - 1)
  <2>1. i - 1 \in Nat /\ ~(i <= i - 1)
    BY <1>3
  <2>. QED
    BY <1>2, <2>1
<1>. DEFINE Level(d, w) ==
              IF d = 0 THEN << >> ELSE [f \in Fn |-> UptoIn(C, f, w)[Len(C[f])]]
            v == [d \in 0 .. i |-> Level(d, u[d - 1])]
<1>. HIDE DEF Level
<1>5. ASSUME NEW k \in 0 .. i - 1 PROVE v[k] = u[k]
  <2>1. k \in 0 .. i
    OBVIOUS
  <2>2. u[k] = Level(k, u[k - 1])
    BY <1>4 DEF Follows, Level
  <2>. QED
    BY <2>1, <2>2
<1>6. \A k \in 0 .. i : Level(k, u[k - 1]) = Level(k, v[k - 1])
  <2>. TAKE k \in 0 .. i
  <2>1. CASE k = 0
    BY <2>1 DEF Level
  <2>2. CASE k # 0
    <3>1. k - 1 \in 0 .. i - 1
      BY <1>3, <2>2
    <3>2. v[k - 1] = u[k - 1]
      BY <1>5, <3>1
    <3>. QED
      BY <3>2
  <2>. QED
    BY <2>1, <2>2
<1>7. v = [k \in 0 .. i |-> Level(k, v[k - 1])]
  BY <1>6
<1>. HIDE DEF v
<1>8. Follows(v, C, i)
  BY <1>7 DEF Follows, Level
<1>. QED
  BY <1>8

LEMMA InlinedFollows == \A C : Follows(InlinedIn(C), C, MaxDepth)
<1>. TAKE C
<1>. DEFINE v == CHOOSE v1 : Follows(v1, C, MaxDepth)
<1>1. Follows(v, C, MaxDepth)
  BY FollowsExists, MatcherAssumption
<1>2. InlinedIn(C) = v
  BY DEF InlinedIn, Follows
<1>. HIDE DEF v
<1>. QED
  BY <1>1, <1>2

(* What the functions do is known by name, and is a list of statements. *)
LEMMA InlinedType ==
  ASSUME NEW C \in [Fn -> Seq(Stmt)]
  PROVE  /\ DOMAIN InlinedIn(C)[0] = {}
         /\ \A d \in 1 .. MaxDepth :
              /\ DOMAIN InlinedIn(C)[d] = Fn
              /\ \A f \in Fn :
                   /\ InlinedIn(C)[d][f] = UptoIn(C, f, InlinedIn(C)[d - 1])[Len(C[f])]
                   /\ InlinedIn(C)[d][f] \in Seq(Stmt)
<1>. DEFINE v == InlinedIn(C)
<1>0. MaxDepth \in Nat \ {0}
  BY MatcherAssumption
<1>. HIDE DEF v
<1>1. v[0] = << >>
  BY <1>0, InlinedFollows DEF Follows, v
<1>2. ASSUME NEW d \in 1 .. MaxDepth
      PROVE  v[d] = [f \in Fn |-> UptoIn(C, f, v[d - 1])[Len(C[f])]]
  <2>1. d \in 0 .. MaxDepth /\ d # 0
    BY <1>0
  <2>. DEFINE Level(k, w) ==
                IF k = 0 THEN << >> ELSE [f \in Fn |-> UptoIn(C, f, w)[Len(C[f])]]
  <2>2. v = [k \in 0 .. MaxDepth |-> Level(k, v[k - 1])]
    BY InlinedFollows DEF Follows, v
  <2>. HIDE DEF Level
  <2>3. v[d] = Level(d, v[d - 1])
    BY <2>1, <2>2
  <2>. QED
    BY <2>1, <2>3 DEF Level
<1>. DEFINE Good(d) == \A f \in DOMAIN v[d] : v[d][f] \in Seq(Stmt)
            Bad == {d \in 0 .. MaxDepth : ~Good(d)}
<1>3. Good(0) /\ DOMAIN v[0] = {}
  BY <1>1
<1>4. ASSUME NEW d \in 1 .. MaxDepth, Good(d - 1) PROVE Good(d)
  <2>. SUFFICES ASSUME NEW f \in Fn PROVE v[d][f] \in Seq(Stmt)
    BY <1>2
  <2>1. C[f] \in Seq(Stmt) /\ Len(C[f]) \in Nat
    OBVIOUS
  <2>2. Tells(UptoIn(C, f, v[d - 1]), C[f], v[d - 1], Len(C[f]))
    BY <2>1, UptoTells
  <2>3. Len(C[f]) \in 0 .. Len(C[f])
    BY <2>1
  <2>4. UptoIn(C, f, v[d - 1])[Len(C[f])] \in Seq(Stmt)
    BY <1>4, <2>1, <2>2, <2>3, TellsType
  <2>. QED
    BY <1>2, <2>4, ZenonT(40)
<1>. HIDE DEF Good
<1>5. Bad = {}
  <2>1. SUFFICES ASSUME Bad # {} PROVE FALSE
    OBVIOUS
  <2>2. PICK i \in Bad : \A j \in Bad : i <= j
    <3>1. Bad \subseteq Nat
      BY <1>0
    <3>. QED
      BY <2>1, <3>1, Least
  <2>3. i # 0
    BY <1>3
  <2>4. i \in 1 .. MaxDepth /\ i - 1 \in 0 .. MaxDepth /\ ~(i <= i - 1)
    BY <1>0, <2>3
  <2>. QED
    BY <1>4, <2>2, <2>4
<1>6. ASSUME NEW d \in 1 .. MaxDepth
      PROVE  /\ DOMAIN v[d] = Fn
             /\ \A f \in Fn : /\ v[d][f] = UptoIn(C, f, v[d - 1])[Len(C[f])]
                              /\ v[d][f] \in Seq(Stmt)
  <2>1. d \in 0 .. MaxDepth
    BY <1>0
  <2>2. Good(d)
    BY <1>5, <2>1
  <2>. QED
    BY <1>2, <2>2, ZenonT(40) DEF Good
<1>. QED
  BY <1>3, <1>6 DEF v

----------------------------------------------------------------------------
(***************************************************************************)
(* The statements of s that are no calls are found in t, in their order,   *)
(* each at a place of its own.                                             *)
(***************************************************************************)
Spread(s, t) ==
  \E h \in [Passed(s) -> DOMAIN t] :
    /\ \A i \in Passed(s) : t[h[i]] = s[i]
    /\ \A i, j \in Passed(s) : i < j => h[i] < h[j]

LEMMA SpreadNothing == \A t : Spread(<< >>, t)
<1>. TAKE t
<1>1. Passed(<< >>) = {}
  BY DEF Passed
<1>. DEFINE h == [i \in {} |-> 1]
<1>2. h \in [{} -> DOMAIN t]
  OBVIOUS
<1>. HIDE DEF h
<1>. QED
  BY <1>1, <1>2 DEF Spread

LEMMA SpreadOne ==
  ASSUME NEW x \in Stmt, NEW t, x.callee # NoFn \/ t = <<x>>
  PROVE  Spread(<<x>>, t)
<1>. DEFINE s == <<x>>
<1>0. DOMAIN s = {1} /\ s[1] = x
  OBVIOUS
<1>. HIDE DEF s
<1>1. CASE x.callee # NoFn
  <2>1. Passed(s) = {}
    BY <1>0, <1>1 DEF Passed
  <2>. DEFINE h == [i \in {} |-> 1]
  <2>2. h \in [{} -> DOMAIN t]
    OBVIOUS
  <2>. HIDE DEF h
  <2>. QED
    BY <2>1, <2>2 DEF Spread, s
<1>2. CASE t = s
  <2>1. \A i \in Passed(s) : i = 1
    BY <1>0 DEF Passed
  <2>. DEFINE h == [i \in Passed(s) |-> 1]
  <2>2. h \in [Passed(s) -> DOMAIN t]
    BY <1>0, <1>2
  <2>3. \A i \in Passed(s) : t[h[i]] = s[i]
    BY <1>2, <2>1
  <2>4. \A i, j \in Passed(s) : i < j => h[i] < h[j]
    BY <2>1
  <2>. HIDE DEF h
  <2>. QED
    BY <2>2, <2>3, <2>4 DEF Spread, s
<1>. QED
  BY <1>1, <1>2 DEF s

LEMMA SpreadJoin ==
  ASSUME NEW s1 \in Seq(Stmt), NEW s2 \in Seq(Stmt), NEW t1 \in Seq(Stmt), NEW t2 \in Seq(Stmt),
         Spread(s1, t1), Spread(s2, t2)
  PROVE  Spread(s1 \o s2, t1 \o t2)
<1>. DEFINE s == s1 \o s2
            t == t1 \o t2
            m == Len(s1)
            n == Len(t1)
<1>1. PICK h1 \in [Passed(s1) -> DOMAIN t1] :
        /\ \A i \in Passed(s1) : t1[h1[i]] = s1[i]
        /\ \A i, j \in Passed(s1) : i < j => h1[i] < h1[j]
  BY DEF Spread
<1>2. PICK h2 \in [Passed(s2) -> DOMAIN t2] :
        /\ \A i \in Passed(s2) : t2[h2[i]] = s2[i]
        /\ \A i, j \in Passed(s2) : i < j => h2[i] < h2[j]
  BY DEF Spread
<1>3. m \in Nat /\ n \in Nat /\ Len(s2) \in Nat /\ Len(t2) \in Nat
      /\ DOMAIN s = 1 .. m + Len(s2) /\ DOMAIN t = 1 .. n + Len(t2)
      /\ DOMAIN s1 = 1 .. m /\ DOMAIN s2 = 1 .. Len(s2)
      /\ DOMAIN t1 = 1 .. n /\ DOMAIN t2 = 1 .. Len(t2)
  OBVIOUS
<1>4. /\ \A i \in 1 .. m + Len(s2) : s[i] = IF i <= m THEN s1[i] ELSE s2[i - m]
      /\ \A i \in 1 .. n + Len(t2) : t[i] = IF i <= n THEN t1[i] ELSE t2[i - n]
  OBVIOUS
<1>. HIDE DEF s, t, m, n
<1>5. ASSUME NEW i \in Passed(s)
      PROVE  /\ i \in Nat
             /\ i <= m => i \in Passed(s1) /\ s[i] = s1[i]
             /\ ~(i <= m) => i - m \in Passed(s2) /\ s[i] = s2[i - m]
  <2>1. i \in 1 .. m + Len(s2) /\ s[i].callee = NoFn
    BY <1>3 DEF Passed
  <2>2. i <= m => i \in 1 .. m
    BY <1>3, <2>1
  <2>3. ~(i <= m) => i - m \in 1 .. Len(s2)
    BY <1>3, <2>1
  <2>. QED
    BY <1>3, <1>4, <2>1, <2>2, <2>3 DEF Passed
<1>6. /\ \A i \in Passed(s1) : h1[i] \in 1 .. n
      /\ \A i \in Passed(s2) : h2[i] \in 1 .. Len(t2)
  BY <1>3
<1>. DEFINE h == [i \in Passed(s) |-> IF i <= m THEN h1[i] ELSE n + h2[i - m]]
<1>7. ASSUME NEW i \in Passed(s) PROVE h[i] \in DOMAIN t /\ t[h[i]] = s[i]
  <2>1. CASE i <= m
    <3>1. h[i] = h1[i] /\ h1[i] \in 1 .. n /\ i \in Passed(s1) /\ s[i] = s1[i]
      BY <1>5, <1>6, <2>1
    <3>2. h[i] \in 1 .. n + Len(t2) /\ h[i] <= n
      BY <1>3, <3>1
    <3>. QED
      BY <1>1, <1>3, <1>4, <3>1, <3>2
  <2>2. CASE ~(i <= m)
    <3>. DEFINE k == h2[i - m]
    <3>1. h[i] = n + k /\ k \in 1 .. Len(t2) /\ i - m \in Passed(s2) /\ s[i] = s2[i - m]
      BY <1>5, <1>6, <2>2
    <3>2. t2[k] = s2[i - m]
      BY <1>2, <3>1
    <3>. HIDE DEF k, h
    <3>3. h[i] \in 1 .. n + Len(t2) /\ ~(h[i] <= n) /\ h[i] - n = k
      BY <1>3, <3>1
    <3>. QED
      BY <1>3, <1>4, <3>1, <3>2, <3>3
  <2>. QED
    BY <2>1, <2>2
<1>8. ASSUME NEW i \in Passed(s), NEW j \in Passed(s), i < j PROVE h[i] < h[j]
  <2>1. CASE j <= m
    <3>1. i <= m /\ i \in Passed(s1) /\ j \in Passed(s1)
      BY <1>3, <1>5, <1>8, <2>1
    <3>. QED
      BY <1>1, <1>8, <2>1, <3>1
  <2>2. CASE i <= m /\ ~(j <= m)
    <3>1. h1[i] \in 1 .. n /\ h2[j - m] \in 1 .. Len(t2)
      BY <1>5, <1>6, <2>2
    <3>2. h[i] = h1[i] /\ h[j] = n + h2[j - m]
      BY <2>2
    <3>. HIDE DEF h
    <3>. QED
      BY <1>3, <3>1, <3>2
  <2>3. CASE ~(i <= m)
    <3>1. ~(j <= m) /\ i - m \in Passed(s2) /\ j - m \in Passed(s2) /\ i - m < j - m
      BY <1>3, <1>5, <1>8, <2>3
    <3>2. h2[i - m] < h2[j - m] /\ h2[i - m] \in 1 .. Len(t2) /\ h2[j - m] \in 1 .. Len(t2)
      BY <1>2, <1>6, <3>1
    <3>3. h[i] = n + h2[i - m] /\ h[j] = n + h2[j - m]
      BY <2>3, <3>1
    <3>. HIDE DEF h
    <3>. QED
      BY <1>3, <3>2, <3>3
  <2>. QED
    BY <2>1, <2>2, <2>3
<1>9. h \in [Passed(s) -> DOMAIN t]
  BY <1>7
<1>. HIDE DEF h
<1>10. Spread(s, t)
  BY <1>7, <1>8, <1>9 DEF Spread
<1>. QED
  BY <1>10 DEF s, t

(***************************************************************************)
(* A finding by way of places is one by way of ranks: where the places are *)
(* taken in order, a set of places is as large as the set they are for.    *)
(***************************************************************************)
LEMMA ImageCard ==
  ASSUME NEW P \in SUBSET Nat, NEW n \in Nat, \A i \in P : i <= n, NEW h,
         \A i \in P : h[i] \in Nat, \A i, j \in P : i < j => h[i] < h[j]
  PROVE  Cardinality({h[i] : i \in P}) = Cardinality(P)
<1>. DEFINE T == {h[i] : i \in P}
            g == [i \in P |-> h[i]]
<1>1. IsFiniteSet(P)
  BY FS_BoundedSetOfNaturals
<1>2. g \in [P -> T]
  OBVIOUS
<1>3. \A i, j \in P : g[i] = g[j] => i = j
  <2>. SUFFICES ASSUME NEW i \in P, NEW j \in P, h[i] = h[j], i # j PROVE FALSE
    OBVIOUS
  <2>1. i \in Nat /\ j \in Nat /\ (i < j \/ j < i)
    OBVIOUS
  <2>2. h[i] < h[j] \/ h[j] < h[i]
    BY <2>1
  <2>. QED
    BY <2>2
<1>4. \A x \in T : \E i \in P : g[i] = x
  OBVIOUS
<1>. HIDE DEF g, T
<1>5. g \in Bijection(P, T)
  BY <1>2, <1>3, <1>4 DEF Bijection, Injection, Surjection, IsInjective
<1>6. ExistsBijection(P, T)
  BY <1>5 DEF ExistsBijection
<1>7. Cardinality(T) = Cardinality(P)
  BY <1>1, <1>6, FS_Bijection
<1>. QED
  BY <1>7 DEF T

LEMMA SpreadRank ==
  ASSUME NEW s \in Seq(Stmt), NEW t \in Seq(Stmt), Spread(s, t)
  PROVE  \E found \in SUBSET DOMAIN t :
           /\ Cardinality(found) = Cardinality(Passed(s))
           /\ \A i \in Passed(s), j \in found :
                Rank(Passed(s), i) = Rank(found, j) => t[j] = s[i]
<1>. DEFINE P == Passed(s)
            n == Len(s)
<1>1. P \in SUBSET (1 .. n) /\ n \in Nat
  BY DEF Passed
<1>2. PICK h \in [P -> DOMAIN t] :
        /\ \A i \in P : t[h[i]] = s[i]
        /\ \A i, j \in P : i < j => h[i] < h[j]
  BY DEF Spread
<1>3. DOMAIN t \subseteq Nat
  OBVIOUS
<1>. HIDE DEF P, n
<1>4. P \in SUBSET Nat /\ \A i \in P : i \in Nat /\ i <= n /\ h[i] \in Nat
  BY <1>1, <1>2, <1>3
<1>5. \A Q \in SUBSET P : Cardinality({h[i] : i \in Q}) = Cardinality(Q)
  <2>. TAKE Q \in SUBSET P
  <2>1. Q \in SUBSET Nat /\ (\A i \in Q : i <= n) /\ (\A i \in Q : h[i] \in Nat)
    BY <1>4
  <2>2. \A i, j \in Q : i < j => h[i] < h[j]
    BY <1>2
  <2>. QED
    BY <1>1, <2>1, <2>2, ImageCard
<1>. DEFINE found == {h[i] : i \in P}
            Upto1(k) == {i \in P : i <= k}
<1>6. found \in SUBSET DOMAIN t
  BY <1>2
<1>7. ASSUME NEW k \in P PROVE Rank(found, h[k]) = Cardinality(Upto1(k))
  <2>1. {x \in found : x <= h[k]} = {h[i] : i \in Upto1(k)}
    <3>1. ASSUME NEW i \in P PROVE h[i] <= h[k] <=> i <= k
      <4>1. i \in Nat /\ k \in Nat /\ h[i] \in Nat /\ h[k] \in Nat
        BY <1>4
      <4>2. (i < k => h[i] < h[k]) /\ (k < i => h[k] < h[i]) /\ (i = k => h[i] = h[k])
        BY <1>2
      <4>. DEFINE x == h[i]
                  y == h[k]
      <4>. HIDE DEF x, y
      <4>. QED
        BY <4>1, <4>2 DEF x, y
    <3>. QED
      BY <3>1
  <2>. QED
    BY <1>5, <2>1 DEF Rank
<1>8. \A k \in P : Rank(P, k) = Cardinality(Upto1(k))
  BY DEF Rank
<1>9. ASSUME NEW i \in P, NEW k \in P, Cardinality(Upto1(i)) = Cardinality(Upto1(k)) PROVE i = k
  <2>1. \A k1 \in P : IsFiniteSet(Upto1(k1))
    <3>1. ASSUME NEW k1 \in P PROVE IsFiniteSet(Upto1(k1))
      <4>1. Upto1(k1) \in SUBSET Nat /\ \A x \in Upto1(k1) : x <= n
        BY <1>4
      <4>. QED
        BY <1>1, <4>1, FS_BoundedSetOfNaturals
    <3>. QED
      BY <3>1
  <2>2. ASSUME NEW a \in P, NEW b \in P, a < b, Cardinality(Upto1(a)) = Cardinality(Upto1(b))
        PROVE  FALSE
    <3>1. a \in Nat /\ b \in Nat
      BY <1>4
    <3>2. Upto1(a) \in SUBSET Upto1(b)
      <4>1. \A x \in P : x <= a => x <= b
        BY <1>4, <2>2, <3>1
      <4>. QED
        BY <4>1
    <3>3. b \in Upto1(b) /\ b \notin Upto1(a)
      BY <2>2, <3>1
    <3>. HIDE DEF Upto1
    <3>4. Upto1(a) = Upto1(b)
      BY <2>1, <2>2, <3>2, FS_Subset
    <3>. QED
      BY <3>3, <3>4
  <2>3. i \in Nat /\ k \in Nat
    BY <1>4
  <2>. HIDE DEF Upto1
  <2>4. ~(i < k) /\ ~(k < i)
    BY <1>9, <2>2
  <2>. QED
    BY <2>3, <2>4
<1>10. Cardinality(found) = Cardinality(P)
  BY <1>5
<1>11. ASSUME NEW i \in P, NEW j \in found, Rank(P, i) = Rank(found, j) PROVE t[j] = s[i]
  <2>1. PICK k \in P : j = h[k]
    OBVIOUS
  <2>2. i = k
    BY <1>7, <1>8, <1>9, <1>11, <2>1, ZenonT(40)
  <2>. QED
    BY <1>2, <2>1, <2>2
<1>. HIDE DEF found
<1>. QED
  BY <1>6, <1>10, <1>11 DEF P

(***************************************************************************)
(* What the scope f has passed, at the i-th place of the stack, does: its  *)
(* calls are followed for the levels that the stack still has room for.    *)
(***************************************************************************)
Ran(C, i, f) == UptoIn(C, f.fn, InlinedIn(C)[MaxDepth - i])[f.cpy - 1]

LEMMA RanTells ==
  ASSUME NEW C \in [Fn -> Seq(Stmt)], NEW i \in 1 .. MaxDepth, NEW f \in Fn
  PROVE  LET calls == InlinedIn(C)[MaxDepth - i]
         IN  /\ Tells(UptoIn(C, f, calls), C[f], calls, Len(C[f]))
             /\ \A g \in DOMAIN calls : g \in Fn /\ calls[g] \in Seq(Stmt)
             /\ InlinedIn(C)[MaxDepth - i + 1][f] = UptoIn(C, f, calls)[Len(C[f])]
             /\ DOMAIN InlinedIn(C)[MaxDepth - i + 1] = Fn
<1>. DEFINE calls == InlinedIn(C)[MaxDepth - i]
<1>0. MaxDepth \in Nat \ {0}
  BY MatcherAssumption
<1>1. Tells(UptoIn(C, f, calls), C[f], calls, Len(C[f]))
  BY UptoTells
<1>2. MaxDepth - i = 0 \/ MaxDepth - i \in 1 .. MaxDepth
  BY <1>0
<1>3. \A g \in DOMAIN calls : g \in Fn /\ calls[g] \in Seq(Stmt)
  BY <1>2, InlinedType
<1>4. MaxDepth - i + 1 \in 1 .. MaxDepth /\ (MaxDepth - i + 1) - 1 = MaxDepth - i
  BY <1>0
<1>5. /\ InlinedIn(C)[MaxDepth - i + 1][f] = UptoIn(C, f, calls)[Len(C[f])]
      /\ DOMAIN InlinedIn(C)[MaxDepth - i + 1] = Fn
  BY <1>4, InlinedType
<1>. QED
  BY <1>1, <1>3, <1>5

LEMMA RanType ==
  ASSUME NEW C \in [Fn -> Seq(Stmt)], NEW i \in 1 .. MaxDepth, NEW f,
         f.fn \in Fn, f.cpy \in Nat \ {0}, f.cpy <= Len(C[f.fn]) + 1
  PROVE  /\ Ran(C, i, f) \in Seq(Stmt)
         /\ f.cpy = 1 => Ran(C, i, f) = << >>
         /\ \E y \in Seq(Stmt) : InlinedIn(C)[MaxDepth - i + 1][f.fn] = Ran(C, i, f) \o y
<1>. DEFINE calls == InlinedIn(C)[MaxDepth - i]
            u == UptoIn(C, f.fn, calls)
            b == C[f.fn]
<1>1. /\ Tells(u, b, calls, Len(b))
      /\ \A g \in DOMAIN calls : calls[g] \in Seq(Stmt)
      /\ InlinedIn(C)[MaxDepth - i + 1][f.fn] = u[Len(b)]
  BY RanTells
<1>2. b \in Seq(Stmt) /\ Len(b) \in Nat
  OBVIOUS
<1>3. f.cpy - 1 \in 0 .. Len(b) /\ (f.cpy = 1 => f.cpy - 1 = 0)
  BY <1>2
<1>4. Ran(C, i, f) = u[f.cpy - 1]
  BY DEF Ran
<1>. HIDE DEF u, b, calls
<1>5. u[0] = << >> /\ u[f.cpy - 1] \in Seq(Stmt)
  BY <1>1, <1>2, <1>3, TellsType
<1>6. \E y \in Seq(Stmt) : u[Len(b)] = u[f.cpy - 1] \o y
  BY <1>1, <1>2, <1>3, TellsOn, ZenonT(40)
<1>7. f.cpy = 1 => Ran(C, i, f) = << >>
  BY <1>3, <1>4, <1>5
<1>8. \E y \in Seq(Stmt) : InlinedIn(C)[MaxDepth - i + 1][f.fn] = Ran(C, i, f) \o y
  BY <1>1, <1>4, <1>6, Zenon
<1>. QED
  BY <1>4, <1>5, <1>7, <1>8, Zenon

(* Passing a statement adds what it does. *)
LEMMA RanNext ==
  ASSUME NEW C \in [Fn -> Seq(Stmt)], NEW i \in 1 .. MaxDepth, NEW f, NEW g,
         f.fn \in Fn, f.cpy \in 1 .. Len(C[f.fn]), g.fn = f.fn, g.cpy = f.cpy + 1
  PROVE  LET part == Part(C[f.fn][f.cpy], InlinedIn(C)[MaxDepth - i])
         IN  part \in Seq(Stmt) /\ Ran(C, i, g) = Ran(C, i, f) \o part
<1>. DEFINE calls == InlinedIn(C)[MaxDepth - i]
            u == UptoIn(C, f.fn, calls)
            b == C[f.fn]
            k == f.cpy
<1>1. /\ Tells(u, b, calls, Len(b))
      /\ \A h \in DOMAIN calls : calls[h] \in Seq(Stmt)
  BY RanTells
<1>2. b \in Seq(Stmt) /\ k \in 1 .. Len(b)
  OBVIOUS
<1>3. Ran(C, i, f) = u[k - 1]
  BY DEF Ran
<1>4. Ran(C, i, g) = u[k]
  <2>1. g.cpy - 1 = k
    BY <1>2
  <2>. QED
    BY <2>1 DEF Ran
<1>. HIDE DEF u, calls, b, k
<1>5. u[k] = u[k - 1] \o Part(b[k], calls) /\ Part(b[k], calls) \in Seq(Stmt)
  BY <1>1, <1>2, TellsType, Zenon
<1>6. Part(b[k], calls) \in Seq(Stmt) /\ Ran(C, i, g) = Ran(C, i, f) \o Part(b[k], calls)
  BY <1>3, <1>4, <1>5, Zenon
<1>. QED
  BY <1>6, Zenon DEF b, calls, k

(***************************************************************************)
(* a[i] is what the run has done when it stands where the first i scopes   *)
(* do: the last is all it has done, and holds the evidence.                *)
(***************************************************************************)
Execution(C, stk, a) ==
  /\ a[0] = << >>
  /\ \A i \in 1 .. Len(stk) : a[i] = a[i - 1] \o Ran(C, i, stk[i])

Evidence ==
  \E a \in [0 .. Len(stack) -> Seq(Stmt)] :
    Execution(code, stack, a) /\ Spread(trail, a[Len(stack)])

EvidenceInv ==
  /\ \A i \in 1 .. Len(stack) : stack[i].cpy <= Len(BodyOf(stack[i])) + 1
  /\ Len(stack) <= MaxDepth
  /\ Running => stack[1].fn = Main /\ Evidence
  /\ verdict \in {"true", "false"} => Spread(trail, InlinedIn(code)[MaxDepth][Main])

(* What the innermost scope adds to the execution. *)
LEMMA ExecutionTop ==
  ASSUME TypeOK, EvidenceInv, Running
  PROVE  /\ code \in [Fn -> Seq(Stmt)] /\ trail \in Seq(Stmt)
         /\ Len(stack) \in 1 .. MaxDepth /\ MaxDepth \in Nat
         /\ Top = stack[Len(stack)] /\ Top.fn \in Fn
         /\ Top.cpy \in 1 .. Len(code[Top.fn]) + 1 /\ Len(code[Top.fn]) \in Nat
         /\ \A i \in 1 .. Len(stack) :
              /\ stack[i] \in Frame /\ stack[i].fn \in Fn
              /\ stack[i].cpy \in Nat \ {0} /\ stack[i].cpy <= Len(code[stack[i].fn]) + 1
<1>1. code \in [Fn -> Seq(Stmt)] /\ trail \in Seq(Stmt) /\ stack \in Seq(Frame)
  BY DEF TypeOK
<1>2. Len(stack) \in 1 .. MaxDepth /\ MaxDepth \in Nat
  BY TopTyped, MatcherAssumption DEF EvidenceInv
<1>3. \A i \in 1 .. Len(stack) :
        /\ stack[i] \in Frame /\ stack[i].fn \in Fn
        /\ stack[i].cpy \in Nat \ {0} /\ stack[i].cpy <= Len(code[stack[i].fn]) + 1
  <2>. TAKE i \in 1 .. Len(stack)
  <2>1. stack[i] \in Frame
    BY <1>1
  <2>2. stack[i].fn \in Fn /\ stack[i].cpy \in Nat \ {0}
    BY <2>1 DEF Frame
  <2>3. stack[i].cpy <= Len(code[stack[i].fn]) + 1
    BY DEF EvidenceInv, BodyOf
  <2>. QED
    BY <2>1, <2>2, <2>3
<1>4. Top = stack[Len(stack)] /\ Len(stack) \in 1 .. Len(stack)
  BY <1>2 DEF Top
<1>5. Top.fn \in Fn /\ Len(code[Top.fn]) \in Nat
  BY <1>1, <1>3, <1>4
<1>6. Top.cpy \in 1 .. Len(code[Top.fn]) + 1
  BY <1>3, <1>4, <1>5
<1>. QED
  BY <1>1, <1>2, <1>3, <1>4, <1>5, <1>6

(* What is left to say when the search goes on. *)
LEMMA EvidenceGoesOn ==
  ASSUME code' = code, verdict' = "none", Len(stack') <= MaxDepth,
         \A i \in 1 .. Len(stack') : stack'[i].cpy <= Len(code[stack'[i].fn]) + 1,
         stack'[1].fn = Main, Evidence'
  PROVE  EvidenceInv'
  BY DEF EvidenceInv, BodyOf

(* Going on with the same statement adds nothing. *)
LEMMA EvidenceSame ==
  ASSUME TypeOK, EvidenceInv, Running, NEW f \in Frame, SetTop(f),
         f.fn = Top.fn, f.cpy = Top.cpy, UNCHANGED <<code, verdict, trail>>, verdict = "none"
  PROVE  EvidenceInv'
<1>. DEFINE n == Len(stack)
<1>1. /\ n \in 1 .. MaxDepth /\ Top = stack[n]
      /\ Top.cpy <= Len(code[Top.fn]) + 1
      /\ \A i \in 1 .. n : stack[i].cpy <= Len(code[stack[i].fn]) + 1
  BY ExecutionTop
<1>2. /\ Len(stack') = n /\ stack'[n] = f
      /\ \A i \in 1 .. n - 1 : stack'[i] = stack[i]
  BY SetTopTyped
<1>3. \A i \in 1 .. n : stack'[i].fn = stack[i].fn /\ stack'[i].cpy = stack[i].cpy
  BY <1>1, <1>2
<1>4. Evidence'
  <2>1. PICK a \in [0 .. n -> Seq(Stmt)] : Execution(code, stack, a) /\ Spread(trail, a[n])
    BY DEF EvidenceInv, Evidence
  <2>2. Execution(code, stack', a)
    BY <1>2, <1>3, <2>1 DEF Execution, Ran
  <2>. QED
    BY <1>2, <2>1, <2>2 DEF Evidence
<1>5. stack'[1].fn = Main /\ n <= MaxDepth
  <2>1. stack[1].fn = Main /\ n <= MaxDepth /\ 1 \in 1 .. n
    BY <1>1 DEF EvidenceInv
  <2>. QED
    BY <1>3, <2>1
<1>6. \A i \in 1 .. n : stack'[i].cpy <= Len(code[stack'[i].fn]) + 1
  BY <1>1, <1>3
<1>. HIDE DEF n
<1>. QED
  BY <1>2, <1>4, <1>5, <1>6, EvidenceGoesOn

(***************************************************************************)
(* A statement the search passes without entering it is one the execution  *)
(* does at this place, unless it is a call.                                *)
(***************************************************************************)
LEMMA EvidencePassed ==
  ASSUME TypeOK, EvidenceInv, Scanning, NEW f \in Frame, SetTop(f),
         f.fn = Top.fn, f.cpy = Top.cpy + 1, trail' = Append(trail, Here),
         UNCHANGED <<code, verdict>>, verdict = "none"
  PROVE  EvidenceInv'
<1>. DEFINE n == Len(stack)
            part == Part(Here, InlinedIn(code)[MaxDepth - n])
<1>0. Running
  BY DEF Scanning
<1>1. /\ n \in 1 .. MaxDepth /\ n \in Nat /\ Top = stack[n] /\ code \in [Fn -> Seq(Stmt)]
      /\ trail \in Seq(Stmt) /\ Top \in Frame
      /\ Top.fn \in Fn /\ Top.cpy \in 1 .. Len(code[Top.fn]) + 1 /\ Len(code[Top.fn]) \in Nat
      /\ \A i \in 1 .. n : stack[i].cpy <= Len(code[stack[i].fn]) + 1
  <2>1. n \in Nat /\ Top \in Frame
    BY <1>0, TopTyped
  <2>2. /\ n \in 1 .. MaxDepth /\ Top = stack[n] /\ code \in [Fn -> Seq(Stmt)]
        /\ trail \in Seq(Stmt)
        /\ Top.fn \in Fn /\ Top.cpy \in 1 .. Len(code[Top.fn]) + 1 /\ Len(code[Top.fn]) \in Nat
    BY <1>0, ExecutionTop
  <2>3. \A i \in 1 .. n : stack[i].cpy <= Len(code[stack[i].fn]) + 1
    BY <1>0, ExecutionTop
  <2>. QED
    BY <2>1, <2>2, <2>3
<1>2. /\ Len(stack') = n /\ stack'[n] = f
      /\ \A i \in 1 .. n - 1 : stack'[i] = stack[i]
  BY <1>0, SetTopTyped
<1>3. Here \in Stmt /\ Here = code[Top.fn][Top.cpy] /\ Top.cpy \in 1 .. Len(code[Top.fn])
  BY <1>1, HereTyped DEF Here, Scanning, AtEnd, BodyOf
<1>4. part \in Seq(Stmt) /\ Ran(code, n, f) = Ran(code, n, Top) \o part
  BY <1>1, <1>3, RanNext
<1>5. Spread(<<Here>>, part)
  <2>1. \A g \in DOMAIN InlinedIn(code)[MaxDepth - n] : g \in Fn
    BY <1>1, RanTells
  <2>2. Here.callee # NoFn \/ part = <<Here>>
    BY <2>1, MatcherAssumption DEF Part
  <2>. QED
    BY <1>3, <2>2, SpreadOne
<1>6. PICK a \in [0 .. n -> Seq(Stmt)] : Execution(code, stack, a) /\ Spread(trail, a[n])
  BY <1>0 DEF EvidenceInv, Evidence
<1>7. /\ a[n] \in Seq(Stmt) /\ a[n - 1] \in Seq(Stmt) /\ a[n] = a[n - 1] \o Ran(code, n, Top)
      /\ Ran(code, n, Top) \in Seq(Stmt)
  <2>1. n \in 0 .. n /\ n - 1 \in 0 .. n /\ n \in 1 .. n
    BY <1>1
  <2>2. Ran(code, n, Top) \in Seq(Stmt)
    <3>1. Top.cpy \in Nat \ {0} /\ Top.cpy <= Len(code[Top.fn]) + 1
      BY <1>1
    <3>. QED
      BY <1>1, <3>1, RanType
  <2>. QED
    BY <1>1, <1>6, <2>1, <2>2 DEF Execution
<1>. HIDE DEF part
<1>8. PICK z \in Seq(Stmt) : /\ z = a[n] \o part
                             /\ z = a[n - 1] \o Ran(code, n, f)
                             /\ Spread(trail', z)
  <2>. DEFINE x == a[n - 1]
              y == Ran(code, n, Top)
              an == a[n]
  <2>1. x \in Seq(Stmt) /\ y \in Seq(Stmt) /\ an = x \o y /\ an \in Seq(Stmt)
    BY <1>7
  <2>. HIDE DEF x, y, an
  <2>2. (x \o y) \o part = x \o (y \o part) /\ an \o part \in Seq(Stmt)
    BY <1>4, <2>1, SMTT(20)
  <2>3. trail' = trail \o <<Here>> /\ <<Here>> \in Seq(Stmt)
    <3>. DEFINE h == Here
    <3>1. h \in Stmt /\ trail \in Seq(Stmt)
      BY <1>1, <1>3
    <3>. HIDE DEF h
    <3>2. Append(trail, h) = trail \o <<h>> /\ <<h>> \in Seq(Stmt)
      BY <3>1
    <3>. QED
      BY <3>2 DEF h
  <2>4. Spread(trail \o <<Here>>, an \o part)
    BY <1>1, <1>4, <1>5, <1>6, <2>1, <2>3, SpreadJoin DEF an
  <2>5. an \o part = x \o Ran(code, n, f)
    BY <1>4, <2>1, <2>2, Zenon DEF y
  <2>. QED
    BY <2>2, <2>3, <2>4, <2>5, Zenon DEF an, x
<1>. DEFINE b == [a EXCEPT ![n] = z]
<1>9. /\ b \in [0 .. n -> Seq(Stmt)] /\ b[n] = z
      /\ \A i \in 0 .. n - 1 : b[i] = a[i]
  BY <1>1
<1>. HIDE DEF b
<1>10. ASSUME NEW i \in 1 .. n PROVE b[i] = b[i - 1] \o Ran(code, i, stack'[i])
  <2>1. i - 1 \in 0 .. n - 1 /\ b[i - 1] = a[i - 1]
    BY <1>1, <1>9
  <2>2. CASE i = n
    BY <1>2, <1>8, <1>9, <2>1, <2>2
  <2>3. CASE i # n
    <3>1. i \in 1 .. n - 1 /\ i \in 0 .. n - 1
      BY <1>1, <2>3
    <3>2. a[i] = a[i - 1] \o Ran(code, i, stack[i])
      BY <1>6 DEF Execution
    <3>. QED
      BY <1>2, <1>9, <2>1, <3>1, <3>2
  <2>. QED
    BY <2>2, <2>3
<1>11. b[0] = << >>
  <2>1. a[0] = << >>
    BY <1>6 DEF Execution
  <2>2. 0 \in 0 .. n - 1
    BY <1>1
  <2>. QED
    BY <1>9, <2>1, <2>2
<1>12. Evidence'
  <2>1. Execution(code', stack', b)
    BY <1>2, <1>10, <1>11 DEF Execution
  <2>. QED
    BY <1>2, <1>8, <1>9, <2>1 DEF Evidence
<1>13. ASSUME NEW i \in 1 .. n
       PROVE  stack'[i].fn = stack[i].fn /\ stack'[i].cpy <= Len(code[stack'[i].fn]) + 1
  <2>1. CASE i = n
    BY <1>1, <1>2, <1>3, <2>1, SMTT(20)
  <2>2. CASE i # n
    <3>1. i \in 1 .. n - 1
      BY <1>1, <2>2
    <3>. QED
      BY <1>1, <1>2, <3>1
  <2>. QED
    BY <2>1, <2>2
<1>14. stack'[1].fn = Main /\ n <= MaxDepth
  <2>1. stack[1].fn = Main /\ n <= MaxDepth /\ 1 \in 1 .. n
    BY <1>0, <1>1 DEF EvidenceInv
  <2>. QED
    BY <1>13, <2>1
<1>. HIDE DEF n
<1>. QED
  BY <1>2, <1>12, <1>13, <1>14, EvidenceGoesOn

(* A callee has done nothing yet when it is entered. *)
LEMMA EvidenceEnter ==
  ASSUME TypeOK, EvidenceInv, EnterCallee, verdict = "none"
  PROVE  EvidenceInv'
<1>. DEFINE n == Len(stack)
            g == Call(Top.self, findFunctionDefinition(Here))
<1>0. Running /\ Scanning /\ Calls
  BY DEF EnterCallee, Scanning
<1>1. /\ n \in 1 .. MaxDepth /\ n \in Nat /\ MaxDepth \in Nat
      /\ code \in [Fn -> Seq(Stmt)] /\ stack \in Seq(Frame)
      /\ \A i \in 1 .. n : stack[i].cpy <= Len(code[stack[i].fn]) + 1
  <2>1. n \in Nat /\ stack \in Seq(Frame)
    BY <1>0, TopTyped DEF TypeOK
  <2>2. n \in 1 .. MaxDepth /\ MaxDepth \in Nat /\ code \in [Fn -> Seq(Stmt)]
    BY <1>0, ExecutionTop
  <2>3. \A i \in 1 .. n : stack[i].cpy <= Len(code[stack[i].fn]) + 1
    BY <1>0, ExecutionTop
  <2>. QED
    BY <2>1, <2>2, <2>3
<1>2. /\ n < MaxDepth /\ stack' = Append(stack, g) /\ code' = code /\ trail' = trail
      /\ verdict' = "none"
  BY DEF EnterCallee
<1>3. g.fn \in Fn /\ g.cpy = 1
  BY <1>0, HereTyped DEF Call
<1>. HIDE DEF g
<1>4. /\ Len(stack') = n + 1 /\ stack'[n + 1] = g
      /\ \A i \in 1 .. n : stack'[i] = stack[i]
  BY <1>1, <1>2
<1>5. PICK a \in [0 .. n -> Seq(Stmt)] : Execution(code, stack, a) /\ Spread(trail, a[n])
  BY <1>0 DEF EvidenceInv, Evidence
<1>6. Ran(code, n + 1, g) = << >>
  <2>1. n + 1 \in 1 .. MaxDepth /\ 1 \in Nat \ {0} /\ Len(code[g.fn]) \in Nat
    BY <1>1, <1>2, <1>3
  <2>2. g.cpy \in Nat \ {0} /\ g.cpy <= Len(code[g.fn]) + 1
    BY <1>3, <2>1
  <2>. QED
    BY <1>1, <1>3, <2>1, <2>2, RanType
<1>. DEFINE b == [i \in 0 .. n + 1 |-> IF i = n + 1 THEN a[n] ELSE a[i]]
<1>7. /\ b \in [0 .. n + 1 -> Seq(Stmt)] /\ b[n + 1] = a[n]
      /\ \A i \in 0 .. n : b[i] = a[i]
  BY <1>1
<1>. HIDE DEF b
<1>8. ASSUME NEW i \in 1 .. n + 1 PROVE b[i] = b[i - 1] \o Ran(code, i, stack'[i])
  <2>1. CASE i = n + 1
    <3>. DEFINE x == a[n]
    <3>1. x \in Seq(Stmt)
      BY <1>1
    <3>. HIDE DEF x
    <3>2. x \o << >> = x
      BY <3>1
    <3>3. (n + 1) - 1 = n /\ n \in 0 .. n
      BY <1>1
    <3>. QED
      BY <1>4, <1>6, <1>7, <2>1, <3>2, <3>3 DEF x
  <2>2. CASE i # n + 1
    <3>1. i \in 1 .. n /\ i \in 0 .. n /\ i - 1 \in 0 .. n
      BY <1>1, <2>2
    <3>. QED
      BY <1>4, <1>5, <1>7, <3>1 DEF Execution
  <2>. QED
    BY <2>1, <2>2
<1>9. b[0] = << >>
  <2>1. a[0] = << >>
    BY <1>5 DEF Execution
  <2>2. 0 \in 0 .. n
    BY <1>1
  <2>. QED
    BY <1>7, <2>1, <2>2
<1>10. Evidence'
  <2>1. Execution(code', stack', b)
    BY <1>2, <1>4, <1>8, <1>9 DEF Execution
  <2>. QED
    BY <1>2, <1>4, <1>5, <1>7, <2>1 DEF Evidence
<1>11. ASSUME NEW i \in 1 .. n + 1 PROVE stack'[i].cpy <= Len(code[stack'[i].fn]) + 1
  <2>1. CASE i = n + 1
    <3>1. Len(code[g.fn]) \in Nat
      BY <1>1, <1>3
    <3>. QED
      BY <1>3, <1>4, <2>1, <3>1
  <2>2. CASE i # n + 1
    <3>1. i \in 1 .. n
      BY <1>1, <2>2
    <3>. QED
      BY <1>1, <1>4, <3>1
  <2>. QED
    BY <2>1, <2>2
<1>12. stack'[1].fn = Main /\ n + 1 <= MaxDepth
  <2>1. stack[1].fn = Main /\ 1 \in 1 .. n
    BY <1>0, <1>1 DEF EvidenceInv
  <2>. QED
    BY <1>1, <1>2, <1>4, <2>1
<1>. HIDE DEF n
<1>. QED
  BY <1>2, <1>4, <1>10, <1>11, <1>12, EvidenceGoesOn

(***************************************************************************)
(* A return leaves the rest of the callee to the execution: it is behind   *)
(* the call statement for the caller, evidence or not.                     *)
(***************************************************************************)
LEMMA EvidenceReturn ==
  ASSUME TypeOK, EvidenceInv, NeverBehindCaller, Running, verdict = "none",
         NEW w \in Pointer, Return(w), Len(stack) # 1
  PROVE  EvidenceInv'
<1>. DEFINE n == Len(stack)
            c == stack[n - 1]
            g == ReturnTo(c, w)
            part == Part(code[c.fn][c.cpy], InlinedIn(code)[MaxDepth - (n - 1)])
            R == Ran(code, n, Top)
            Q == Ran(code, n - 1, c)
<1>1. /\ n \in Nat /\ n \in 2 .. MaxDepth /\ MaxDepth \in Nat /\ Top = stack[n]
      /\ code \in [Fn -> Seq(Stmt)] /\ trail \in Seq(Stmt)
      /\ Top.fn \in Fn /\ Top.cpy \in Nat \ {0} /\ Top.cpy <= Len(code[Top.fn]) + 1
  <2>1. n \in Nat /\ Top \in Frame
    BY TopTyped
  <2>2. n \in 1 .. MaxDepth /\ MaxDepth \in Nat /\ n # 1
    BY ExecutionTop, Zenon
  <2>3. n \in 2 .. MaxDepth
    <3>. HIDE DEF n
    <3>. QED
      BY <2>1, <2>2
  <2>4. /\ Top = stack[n] /\ code \in [Fn -> Seq(Stmt)] /\ trail \in Seq(Stmt)
        /\ Top.fn \in Fn /\ Top.cpy \in 1 .. Len(code[Top.fn]) + 1 /\ Len(code[Top.fn]) \in Nat
    BY ExecutionTop
  <2>5. Top.cpy \in Nat \ {0} /\ Top.cpy <= Len(code[Top.fn]) + 1
    BY <2>4
  <2>. QED
    BY <2>1, <2>2, <2>3, <2>4, <2>5
<1>2. \A i \in 1 .. n : /\ stack[i] \in Frame /\ stack[i].fn \in Fn
                        /\ stack[i].cpy \in Nat \ {0}
                        /\ stack[i].cpy <= Len(code[stack[i].fn]) + 1
  BY ExecutionTop
<1>3. n - 1 \in 1 .. n /\ n - 1 \in 1 .. n - 1 /\ (n - 1) + 1 = n /\ n - 1 \in 1 .. MaxDepth
      /\ n - 2 \in 0 .. n /\ n - 2 \in 0 .. n - 2 /\ (n - 1) - 1 = n - 2 /\ n \in 1 .. MaxDepth
  BY <1>1
<1>4. /\ Len(stack') = n - 1 /\ stack'[n - 1] = g
      /\ \A i \in 1 .. n - 2 : stack'[i] = stack[i]
  BY ReturnTyped
<1>5. g.fn = c.fn /\ g.cpy = c.cpy + 1
  <2>1. c \in Frame
    BY <1>2, <1>3
  <2>. QED
    BY <2>1 DEF ReturnTo, Frame
<1>6. /\ c.fn \in Fn /\ c.cpy \in 1 .. Len(code[c.fn]) /\ Len(code[c.fn]) \in Nat
      /\ Top.fn = code[c.fn][c.cpy].callee
  <2>1. c.fn \in Fn /\ c.cpy \in Nat \ {0} /\ Len(code[c.fn]) \in Nat
    BY <1>1, <1>2, <1>3
  <2>2. /\ c.cpy <= Len(code[c.fn])
        /\ stack[(n - 1) + 1].fn = code[c.fn][c.cpy].callee
    BY <1>3 DEF NeverBehindCaller, BodyOf, findFunctionDefinition
  <2>3. c.cpy \in 1 .. Len(code[c.fn])
    BY <2>1, <2>2
  <2>. QED
    BY <1>1, <1>3, <2>1, <2>2, <2>3
<1>7. code' = code /\ trail' = trail /\ verdict' = "none"
  BY DEF Return
<1>8. part \in Seq(Stmt) /\ Ran(code, n - 1, g) = Q \o part
  BY <1>1, <1>3, <1>5, <1>6, RanNext
<1>9. Q \in Seq(Stmt)
  <2>1. c.cpy \in Nat \ {0} /\ c.cpy <= Len(code[c.fn]) + 1
    BY <1>2, <1>3
  <2>. QED
    BY <1>1, <1>3, <1>6, <2>1, RanType
<1>10. R \in Seq(Stmt) /\ \E y \in Seq(Stmt) : part = R \o y
  <2>1. /\ R \in Seq(Stmt)
        /\ \E y \in Seq(Stmt) : InlinedIn(code)[MaxDepth - n + 1][Top.fn] = R \o y
    <3>1. /\ code \in [Fn -> Seq(Stmt)] /\ n \in 1 .. MaxDepth /\ Top.fn \in Fn
          /\ Top.cpy \in Nat \ {0} /\ Top.cpy <= Len(code[Top.fn]) + 1
      BY <1>1, <1>3
    <3>. HIDE DEF n
    <3>. QED
      BY <3>1, RanType
  <2>2. DOMAIN InlinedIn(code)[MaxDepth - n + 1] = Fn
    BY <1>1, <1>3, RanTells
  <2>3. MaxDepth - (n - 1) = MaxDepth - n + 1
    BY <1>1
  <2>4. part = InlinedIn(code)[MaxDepth - n + 1][Top.fn]
    BY <1>1, <1>6, <2>2, <2>3 DEF Part
  <2>. QED
    BY <2>1, <2>4
<1>11. PICK y \in Seq(Stmt) : part = R \o y
  BY <1>10
<1>12. PICK a \in [0 .. n -> Seq(Stmt)] : Execution(code, stack, a) /\ Spread(trail, a[n])
  BY DEF EvidenceInv, Evidence
<1>13. /\ a[n - 2] \in Seq(Stmt) /\ a[n] \in Seq(Stmt)
       /\ a[n - 1] = a[n - 2] \o Q /\ a[n] = a[n - 1] \o R
  <2>1. a[n - 1] = a[(n - 1) - 1] \o Q
    BY <1>3, <1>12 DEF Execution
  <2>2. a[n] = a[n - 1] \o R
    <3>1. n \in 1 .. n
      BY <1>1
    <3>. QED
      BY <1>1, <1>12, <3>1, Zenon DEF Execution
  <2>3. n \in 0 .. n
    BY <1>1
  <2>. QED
    BY <1>3, <2>1, <2>2, <2>3
<1>. HIDE DEF part, R, Q
<1>14. PICK z \in Seq(Stmt) : /\ z = a[n - 2] \o Ran(code, n - 1, g)
                              /\ Spread(trail, z)
  <2>. DEFINE x == a[n - 2]
              an == a[n]
  <2>1. x \in Seq(Stmt) /\ an \in Seq(Stmt) /\ an = (x \o Q) \o R
    BY <1>13
  <2>0. Q \in Seq(Stmt) /\ part \in Seq(Stmt) /\ x \in Seq(Stmt)
    BY <1>8, <1>9, <2>1
  <2>. HIDE DEF x, an
  <2>2. x \o (Q \o part) = (x \o Q) \o part /\ (x \o Q) \o part \in Seq(Stmt)
    BY <2>0, SMTT(20)
  <2>3. PICK q \in Seq(Stmt) : q = x \o Q
    <3>1. x \o Q \in Seq(Stmt)
      BY <2>0
    <3>. QED
      BY <3>1
  <2>4. q \o (R \o y) = (q \o R) \o y
    BY <1>10, SMTT(20)
  <2>5. (x \o Q) \o part = an \o y
    BY <1>11, <2>1, <2>3, <2>4, Zenon
  <2>6. Spread(trail, an \o y)
    <3>1. trail \o << >> = trail /\ << >> \in Seq(Stmt)
      BY <1>1
    <3>2. Spread(trail \o << >>, an \o y)
      BY <1>1, <1>12, <2>1, <3>1, SpreadNothing, SpreadJoin DEF an
    <3>. QED
      BY <3>1, <3>2
  <2>. QED
    BY <1>8, <2>2, <2>5, <2>6, Zenon DEF x
<1>. DEFINE b == [i \in 0 .. n - 1 |-> IF i = n - 1 THEN z ELSE a[i]]
<1>15. /\ b \in [0 .. n - 1 -> Seq(Stmt)] /\ b[n - 1] = z
       /\ \A i \in 0 .. n - 2 : b[i] = a[i]
  <2>1. \A i \in 0 .. n - 1 : i \in 0 .. n
    BY <1>1
  <2>2. \A i \in 0 .. n - 2 : i \in 0 .. n - 1 /\ i # n - 1
    BY <1>1
  <2>3. n - 1 \in 0 .. n - 1
    BY <1>1
  <2>. QED
    BY <2>1, <2>2, <2>3
<1>. HIDE DEF b
<1>16. ASSUME NEW i \in 1 .. n - 1 PROVE b[i] = b[i - 1] \o Ran(code, i, stack'[i])
  <2>1. CASE i = n - 1
    <3>1. b[i - 1] = a[n - 2]
      BY <1>3, <1>15, <2>1
    <3>. QED
      BY <1>4, <1>14, <1>15, <2>1, <3>1
  <2>2. CASE i # n - 1
    <3>1. i \in 1 .. n - 2 /\ i \in 0 .. n - 2 /\ i - 1 \in 0 .. n - 2 /\ i \in 1 .. n
      BY <1>1, <2>2
    <3>2. a[i] = a[i - 1] \o Ran(code, i, stack[i])
      BY <1>12, <3>1 DEF Execution
    <3>. QED
      BY <1>4, <1>15, <3>1, <3>2
  <2>. QED
    BY <2>1, <2>2
<1>17. b[0] = << >>
  <2>1. a[0] = << >>
    BY <1>12 DEF Execution
  <2>2. 0 \in 0 .. n - 2
    BY <1>1
  <2>. QED
    BY <1>15, <2>1, <2>2
<1>18. Evidence'
  <2>1. Execution(code', stack', b)
    BY <1>4, <1>7, <1>16, <1>17 DEF Execution
  <2>. QED
    BY <1>4, <1>7, <1>14, <1>15, <2>1 DEF Evidence
<1>19. ASSUME NEW i \in 1 .. n - 1
       PROVE  stack'[i].fn = stack[i].fn /\ stack'[i].cpy <= Len(code[stack'[i].fn]) + 1
  <2>1. CASE i = n - 1
    BY <1>4, <1>5, <1>6, <2>1, SMTT(20)
  <2>2. CASE i # n - 1
    <3>1. i \in 1 .. n - 2 /\ i \in 1 .. n
      BY <1>1, <2>2
    <3>. QED
      BY <1>2, <1>4, <3>1
  <2>. QED
    BY <2>1, <2>2
<1>20. stack'[1].fn = Main /\ n - 1 <= MaxDepth
  <2>1. stack[1].fn = Main /\ 1 \in 1 .. n - 1
    BY <1>1 DEF EvidenceInv
  <2>. QED
    BY <1>1, <1>19, <2>1
<1>. HIDE DEF n
<1>. QED
  BY <1>4, <1>7, <1>18, <1>19, <1>20, EvidenceGoesOn

(* The outermost return: what is left of the method is behind the evidence. *)
LEMMA EvidenceVerdict ==
  ASSUME TypeOK, EvidenceInv, Running, NEW w, Return(w), Len(stack) = 1
  PROVE  EvidenceInv'
<1>. DEFINE R == Ran(code, 1, Top)
            whole == InlinedIn(code)[MaxDepth][Main]
<1>1. /\ MaxDepth \in Nat /\ 1 \in 1 .. MaxDepth /\ Top = stack[1]
      /\ code \in [Fn -> Seq(Stmt)] /\ trail \in Seq(Stmt)
      /\ Top.fn \in Fn /\ Top.cpy \in Nat \ {0} /\ Top.cpy <= Len(code[Top.fn]) + 1
  <2>1. /\ Len(stack) \in 1 .. MaxDepth /\ MaxDepth \in Nat
        /\ Top = stack[Len(stack)] /\ code \in [Fn -> Seq(Stmt)] /\ trail \in Seq(Stmt)
        /\ Top.fn \in Fn /\ Top.cpy \in 1 .. Len(code[Top.fn]) + 1 /\ Len(code[Top.fn]) \in Nat
    BY ExecutionTop
  <2>2. Top.cpy \in Nat \ {0} /\ Top.cpy <= Len(code[Top.fn]) + 1
    BY <2>1
  <2>. QED
    BY <2>1, <2>2
<1>2. Top.fn = Main
  BY <1>1 DEF EvidenceInv
<1>3. R \in Seq(Stmt) /\ \E y \in Seq(Stmt) : whole = R \o y
  <2>1. /\ R \in Seq(Stmt)
        /\ \E y \in Seq(Stmt) : InlinedIn(code)[MaxDepth - 1 + 1][Top.fn] = R \o y
    BY <1>1, RanType
  <2>2. MaxDepth - 1 + 1 = MaxDepth
    BY <1>1
  <2>. QED
    BY <1>2, <2>1, <2>2
<1>4. PICK y \in Seq(Stmt) : whole = R \o y
  BY <1>3
<1>5. PICK a \in [0 .. 1 -> Seq(Stmt)] : Execution(code, stack, a) /\ Spread(trail, a[1])
  BY DEF EvidenceInv, Evidence
<1>6. a[1] = << >> \o R
  <2>1. 1 \in 1 .. Len(stack) /\ 1 - 1 = 0
    OBVIOUS
  <2>. QED
    BY <1>1, <1>5, <2>1 DEF Execution
<1>. HIDE DEF R, whole
<1>7. << >> \o R = R
  BY <1>3
<1>8. Spread(trail, whole)
  <2>1. trail \o << >> = trail /\ << >> \in Seq(Stmt)
    BY <1>1
  <2>2. Spread(trail, R)
    BY <1>5, <1>6, <1>7
  <2>3. Spread(trail \o << >>, R \o y)
    BY <1>1, <1>3, <2>1, <2>2, SpreadNothing, SpreadJoin
  <2>. QED
    BY <1>4, <2>1, <2>3
<1>9. code' = code /\ trail' = trail /\ stack' = << >>
  BY DEF Return
<1>. QED
  BY <1>1, <1>8, <1>9 DEF EvidenceInv, Running, whole

LEMMA EvidenceStart == Init => EvidenceInv
<1>. SUFFICES ASSUME Init PROVE EvidenceInv
  OBVIOUS
<1>. DEFINE g == Call(1, Main)
<1>1. /\ code \in [Fn -> Seq(Stmt)] /\ stack = <<g>> /\ trail = << >> /\ verdict = "none"
      /\ Main \in Fn /\ MaxDepth \in Nat \ {0} /\ Len(code[Main]) \in Nat
  BY MatcherAssumption DEF Init
<1>2. g.fn = Main /\ g.cpy = 1
  BY DEF Call
<1>. HIDE DEF g
<1>3. Len(stack) = 1 /\ stack[1] = g /\ 1 \in 1 .. MaxDepth
  BY <1>1
<1>4. Ran(code, 1, g) = << >>
  <2>1. g.fn \in Fn /\ g.cpy \in Nat \ {0} /\ g.cpy <= Len(code[g.fn]) + 1
    BY <1>1, <1>2
  <2>. QED
    <3>1. /\ code \in [Fn -> Seq(Stmt)] /\ 1 \in 1 .. MaxDepth /\ g.cpy = 1
          /\ g.fn \in Fn /\ g.cpy \in Nat \ {0} /\ g.cpy <= Len(code[g.fn]) + 1
      BY <1>1, <1>2, <1>3, <2>1
    <3>. QED
      BY <3>1, RanType, Zenon
<1>5. Evidence
  <2>. DEFINE a == [i \in 0 .. 1 |-> << >>]
  <2>1. << >> \in Seq(Stmt) /\ << >> \o << >> = << >>
    OBVIOUS
  <2>2. a \in [0 .. 1 -> Seq(Stmt)] /\ a[0] = << >> /\ a[1] = << >>
    BY <2>1
  <2>. HIDE DEF a
  <2>3. Execution(code, stack, a)
    <3>1. \A i \in 1 .. 1 : i = 1 /\ i - 1 = 0
      OBVIOUS
    <3>2. a[1] = a[0] \o Ran(code, 1, stack[1])
      BY <1>3, <1>4, <2>1, <2>2, Zenon
    <3>. QED
      BY <1>3, <2>2, <3>1, <3>2 DEF Execution
  <2>4. Spread(trail, a[1])
    BY <1>1, SpreadNothing
  <2>. QED
    BY <1>3, <2>2, <2>3, <2>4 DEF Evidence
<1>6. \A i \in 1 .. Len(stack) : stack[i].cpy <= Len(BodyOf(stack[i])) + 1
  <2>1. \A i \in 1 .. 1 : i = 1
    OBVIOUS
  <2>2. g.cpy <= Len(BodyOf(g)) + 1
    BY <1>1, <1>2 DEF BodyOf
  <2>. QED
    BY <1>3, <2>1, <2>2
<1>. QED
  BY <1>1, <1>2, <1>3, <1>5, <1>6 DEF EvidenceInv

LEMMA EvidenceStep == SearchInv /\ EvidenceInv /\ [Next \/ Done]_vars => EvidenceInv'
<1>. SUFFICES ASSUME SearchInv, EvidenceInv, [Next \/ Done]_vars PROVE EvidenceInv'
  OBVIOUS
<1>0. TypeOK /\ NeverBehindCaller /\ (Running => verdict = "none")
  BY DEF SearchInv
<1>1. CASE MatchStmt \/ SkipStmt
  <2>. DEFINE f == IF Performs(This, Here) THEN [Top EXCEPT !.matched = TRUE, !.cpy = @ + 1]
                                           ELSE [Top EXCEPT !.cpy = @ + 1]
  <2>1. /\ Scanning /\ Running /\ SetTop(f) /\ trail' = Append(trail, Here)
        /\ UNCHANGED <<code, verdict>>
    BY <1>1 DEF MatchStmt, SkipStmt, Scanning
  <2>2. Top \in Frame
    BY <1>0, <2>1, TopTyped
  <2>3. f \in Frame /\ f.fn = Top.fn /\ f.cpy = Top.cpy + 1
    <3>1. Top.cpy + 1 \in Nat \ {0}
      BY <2>2 DEF Frame
    <3>. QED
      BY <2>2, <3>1 DEF Frame
  <2>. HIDE DEF f
  <2>. QED
    BY <1>0, <2>1, <2>3, EvidencePassed
<1>2. CASE EnterCallee
  <2>1. Running
    BY <1>2 DEF EnterCallee, Scanning
  <2>. QED
    BY <1>0, <1>2, <2>1, EvidenceEnter
<1>3. CASE StackOverflow \/ ReadPastEmptyBody
  <2>1. stack' = << >> /\ verdict' \in {"crash", "overflow"}
    BY <1>3 DEF StackOverflow, ReadPastEmptyBody, Die
  <2>. QED
    BY <2>1, MatcherAssumption DEF EvidenceInv, Running
<1>4. CASE ContinueChild \/ ContinueNext
  <2>1. PICK k \in 1 .. N : ContinueWith(k)
    BY <1>0, <1>4, TopTyped DEF ContinueChild, ContinueNext, Frame, Pointer, Null
  <2>. DEFINE f == [Top EXCEPT !.self = k, !.matched = FALSE, !.child = Null]
  <2>2. Running /\ SetTop(f) /\ UNCHANGED <<code, verdict, trail>>
    BY <2>1 DEF ContinueWith, Scanned
  <2>3. f \in Frame /\ f.fn = Top.fn /\ f.cpy = Top.cpy
    <3>1. Null \in Pointer /\ Top \in Frame
      BY <1>0, <2>2, TopTyped DEF Pointer, Null
    <3>. QED
      BY <3>1 DEF Frame
  <2>. HIDE DEF f
  <2>. QED
    BY <1>0, <2>2, <2>3, EvidenceSame
<1>5. CASE ReturnEarly \/ ReturnAtEnd
  <2>1. PICK w \in Pointer : Return(w) /\ Running
    BY <1>0, <1>5, TopTyped DEF ReturnEarly, ReturnAtEnd, Scanned, Frame, Pointer, Null, NextOf
  <2>2. CASE Len(stack) = 1
    BY <1>0, <2>1, <2>2, EvidenceVerdict
  <2>3. CASE Len(stack) # 1
    BY <1>0, <2>1, <2>3, EvidenceReturn
  <2>. QED
    BY <2>2, <2>3
<1>6. CASE UNCHANGED vars
  BY <1>6 DEF vars, EvidenceInv, Evidence, Running, BodyOf, Execution
<1>. QED
  BY <1>1, <1>2, <1>3, <1>4, <1>5, <1>6 DEF Next, Done

(***************************************************************************)
(* Whatever helpers the search has entered, left in the middle or given    *)
(* up, the statements it took as evidence are done by the method in the    *)
(* order in which it took them (PchorProjection.cpp lines 34-94).          *)
(***************************************************************************)
THEOREM EvidenceIsInOrder == Spec => []EvidenceInOrder
<1>1. Spec => []SearchInv
  BY SearchInvariant
<1>2. TypeOK /\ EvidenceInv => EvidenceInOrder
  <2>. SUFFICES ASSUME TypeOK, EvidenceInv, verdict \in {"true", "false"}
                PROVE  EvidenceInOrder
    BY DEF EvidenceInOrder
  <2>. DEFINE does == InlinedIn(code)[MaxDepth][Main]
  <2>1. does \in Seq(Stmt) /\ trail \in Seq(Stmt)
    <3>1. /\ code \in [Fn -> Seq(Stmt)] /\ trail \in Seq(Stmt)
          /\ MaxDepth \in 1 .. MaxDepth /\ Main \in Fn
      BY MatcherAssumption DEF TypeOK
    <3>. QED
      BY <3>1, InlinedType
  <2>2. Spread(trail, does)
    BY DEF EvidenceInv
  <2>3. Inlined[MaxDepth][Main] = does
    BY InlinedCode
  <2>. HIDE DEF does
  <2>4. \E found \in SUBSET DOMAIN does :
          /\ Cardinality(found) = Cardinality(Passed(trail))
          /\ \A i \in Passed(trail), j \in found :
               Rank(Passed(trail), i) = Rank(found, j) => does[j] = trail[i]
    BY <2>1, <2>2, SpreadRank
  <2>. QED
    BY <2>3, <2>4 DEF EvidenceInOrder
<1>. QED
  BY <1>1, <1>2, EvidenceStart, EvidenceStep, TypeCorrect, PTL DEF Spec
=============================================================================
