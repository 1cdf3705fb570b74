-------------------------- MODULE ProjectionProofs --------------------------
(***************************************************************************)
(* Theorems of Projection, for every set of choreographies, every width of *)
(* size_t and every index declaration.                                     *)
(***************************************************************************)
EXTENDS Projection, LeastElement, SequenceTheorems, FiniteSetTheorems, TLAPS

----------------------------------------------------------------------------
(* The bounds of a loop, and its counter, never leave size_t. *)
LEMMA SuccessorTyped == \A n \in SizeT : Successor(n) \in SizeT
  BY SizeAssumption DEF SizeT, Successor

(* The bounds computed for an iteration are numbers of size_t. *)
LEMMA BoundsTyped == \A it \in Iteration : min(it) \in SizeT /\ max(it) \in SizeT
<1> SUFFICES ASSUME NEW it \in Iteration PROVE min(it) \in SizeT /\ max(it) \in SizeT
  OBVIOUS
<1>1. Lower[it.over] \in SizeT /\ Upper[it.over] \in SizeT
  BY SizeAssumption DEF Iteration
<1>2. \A n \in SizeT : Predecessor(n) \in SizeT
  BY SizeAssumption DEF SizeT, Predecessor
<1> QED
  BY <1>1, <1>2 DEF min, max

(* Binding an identifier keeps a map of identifiers to numbers one. *)
LEMMA BindTyped ==
  ASSUME NEW env, IsMap(env, Id, SizeT), NEW x \in Id, NEW v \in SizeT
  PROVE  IsMap(Bind(env, x, v), Id, SizeT)
  BY DEF IsMap, Bind

(* So does erasing one. *)
LEMMA EraseTyped ==
  ASSUME NEW env, IsMap(env, Id, SizeT), NEW x
  PROVE  IsMap(Erase(env, x), Id, SizeT)
  BY DEF IsMap, Erase

(* A projection appended to a map of lists leaves a map of lists. *)
LEMMA AddProjectionTyped ==
  ASSUME NEW map, IsMap(map, ParticipantKey, Seq(LocalType)),
         NEW k \in ParticipantKey, NEW p \in LocalType
  PROVE  /\ IsMap(addProjection(map, k, p), ParticipantKey, Seq(LocalType))
         /\ DOMAIN addProjection(map, k, p) = DOMAIN map \cup {k}
<1> DEFINE new == addProjection(map, k, p)
<1>1. DOMAIN new = DOMAIN map \cup {k}
  BY DEF addProjection
<1>2. ASSUME NEW j \in DOMAIN map \cup {k} PROVE new[j] \in Seq(LocalType)
  <2>1. CASE j # k
    BY <2>1, <1>2 DEF addProjection, IsMap
  <2>2. CASE j = k
    <3>1. (IF k \in DOMAIN map THEN map[k] ELSE << >>) \in Seq(LocalType)
      BY DEF IsMap
    <3>2. Append(IF k \in DOMAIN map THEN map[k] ELSE << >>, p) \in Seq(LocalType)
      BY <3>1
    <3> QED
      BY <2>2, <3>2 DEF addProjection
  <2> QED
    BY <2>1, <2>2
<1>3. new = [j \in DOMAIN new |-> new[j]]
  BY DEF addProjection
<1> QED
  BY <1>1, <1>2, <1>3 DEF IsMap

----------------------------------------------------------------------------
(* The innermost list is a frame, and is in the choreography. *)
LEMMA TopTyped ==
  ASSUME TypeOK, Running
  PROVE  /\ Len(stack) \in Nat \ {0}
         /\ Top \in Frame
         /\ choreo.lists[Top.list] \in Seq(CommunicationExpr \cup ForEachExpr \cup ListExpr)
<1>1. stack \in Seq(Frame) /\ stack # << >>
  BY DEF TypeOK, Running
<1>2. Len(stack) \in Nat \ {0} /\ Top \in Frame
  BY <1>1 DEF Top
<1>3. choreo.lists \in [ListId -> Seq(CommunicationExpr \cup ForEachExpr \cup ListExpr)]
  BY DEF TypeOK, Choreo
<1> QED
  BY <1>2, <1>3 DEF Frame

(* What the visit stands at is the expression its tag says. *)
LEMMA HereTyped ==
  ASSUME TypeOK, NEW tag, At(tag)
  PROVE  /\ tag = "com" => Here \in CommunicationExpr
         /\ tag = "forEach" => Here \in ForEachExpr
         /\ tag = "list" => Here \in ListExpr
<1> DEFINE E == CommunicationExpr \cup ForEachExpr \cup ListExpr
           s == choreo.lists[Top.list]
<1>1. Running /\ Top.pos <= Len(s) /\ Here.tag = tag
  <2>1. Running /\ ~AtEnd /\ Here.tag = tag
    BY DEF At
  <2>2. Top \in Frame /\ s \in Seq(E)
    BY <2>1, TopTyped
  <2> QED
    BY <2>1, <2>2 DEF AtEnd, Frame
<1>2. s \in Seq(E) /\ Top.pos \in Nat \ {0}
  BY <1>1, TopTyped DEF Frame
<1>3. Here \in E
  BY <1>1, <1>2 DEF Here
<1> QED
  BY <1>1, <1>3 DEF CommunicationExpr, ForEachExpr, ListExpr

(* Moving past an expression, and leaving a list, keep the stack typed. *)
LEMMA StackMoves ==
  ASSUME TypeOK, Running
  PROVE  /\ Advanced \in Seq(Frame)
         /\ Popped \in Seq(Frame)
         /\ Len(Advanced) = Len(stack)
         /\ \A i \in DOMAIN stack : Advanced[i].var = stack[i].var /\ Advanced[i].el = stack[i].el
         /\ DOMAIN Popped = 1 .. Len(stack) - 1
         /\ \A i \in DOMAIN Popped : Popped[i] = stack[i]
<1>1. stack \in Seq(Frame) /\ Len(stack) \in Nat \ {0} /\ Top \in Frame
  BY TopTyped DEF TypeOK
<1> DEFINE t == [Top EXCEPT !.pos = @ + 1]
<1>2. t \in Frame /\ t.var = Top.var /\ t.el = Top.el
  BY <1>1 DEF Frame
<1>3. Advanced = [stack EXCEPT ![Len(stack)] = t]
  BY <1>1 DEF Advanced, Top
<1>4. Advanced \in Seq(Frame) /\ Len(Advanced) = Len(stack)
  BY <1>1, <1>2, <1>3
<1>5. \A i \in DOMAIN stack : Advanced[i] = IF i = Len(stack) THEN t ELSE stack[i]
  BY <1>1, <1>3
<1>6. \A i \in DOMAIN stack : Advanced[i].var = stack[i].var /\ Advanced[i].el = stack[i].el
  BY <1>2, <1>5 DEF Top
<1>7. Popped \in Seq(Frame) /\ Len(Popped) = Len(stack) - 1
  BY <1>1 DEF Popped
<1>8. \A i \in 1 .. Len(stack) - 1 : Popped[i] = stack[i]
  BY <1>1 DEF Popped
<1> QED
  BY <1>1, <1>4, <1>6, <1>7, <1>8

(* The visit of a communication attributes local types to declared keys. *)
LEMMA ComTyped ==
  ASSUME TypeOK, At("com"), Evaluates(Here)
  PROVE  /\ Key(Here.from) \in ParticipantKey \cap DeclaredKeys
         /\ Key(Here.to) \in ParticipantKey \cap DeclaredKeys
         /\ \A kind \in {"send", "receive"} : Local(kind, Here) \in LocalType
<1>1. Here \in CommunicationExpr
  BY HereTyped
<1>2. ASSUME NEW e \in Role \X Seq(Term), InRange(Key(e))
      PROVE  Key(e) \in ParticipantKey \cap DeclaredKeys
  <2> DEFINE r == e[1]
             v == eval(e[2], indexIdentifierMap)
  <2>1. r \in Role /\ Key(e) = <<r, v>> /\ v \in Lower[IndexOf[r]] .. Upper[IndexOf[r]]
    BY <1>2 DEF Key, InRange
  <2>2. Lower[IndexOf[r]] \in SizeT /\ Upper[IndexOf[r]] \in SizeT
    BY <2>1, SizeAssumption
  <2>3. v \in SizeT
    <3> HIDE DEF r, v
    <3> QED
      BY <2>1, <2>2, SizeAssumption DEF SizeT
  <2> HIDE DEF r, v
  <2> QED
    BY <2>1, <2>3 DEF ParticipantKey, DeclaredKeys
<1>3. Here.from \in Role \X Seq(Term) /\ Here.to \in Role \X Seq(Term)
  BY <1>1 DEF CommunicationExpr
<1>4. \A kind \in {"send", "receive"} : Local(kind, Here) \in LocalType
  BY <1>1 DEF CommunicationExpr, Local, LocalType, Evaluates
<1> QED
  BY <1>2, <1>3, <1>4 DEF Evaluates

(***************************************************************************)
(* The inductive invariant: the three invariants the runs check, which     *)
(* need nothing else than one another.                                     *)
(***************************************************************************)
WalkInv == TypeOK /\ KeysDeclared /\ ScopesExact

(* A projection starts with no participant and no identifier. *)
LEMMA InitWalk == Init => WalkInv
<1> SUFFICES ASSUME Init PROVE WalkInv
  OBVIOUS
<1>1. choreo \in Choreo /\ choreo.top \in ListId
  BY ChoreoAssumption DEF Init, Choreo
<1>2. Visiting(choreo.top) \in Frame
  BY <1>1, SizeAssumption DEF Visiting, Pass, Frame, SizeT
<1>3. DOMAIN Empty = {} /\ \A D, R : IsMap(Empty, D, R)
  BY DEF Empty, IsMap
<1>4. TypeOK
  BY <1>1, <1>2, <1>3 DEF Init, TypeOK
<1> QED
  BY <1>3, <1>4 DEF Init, WalkInv, KeysDeclared, ScopesExact

(* ScopesExact survives a step that keeps the frames' loops and the map. *)
LEMMA SameLoops ==
  ASSUME ScopesExact, DOMAIN stack \subseteq DOMAIN stack', indexIdentifierMap' = indexIdentifierMap,
         \A i \in DOMAIN stack : stack'[i].var = stack[i].var /\ stack'[i].el = stack[i].el,
         \A i \in DOMAIN stack' \ DOMAIN stack : stack'[i].var \notin DOMAIN indexIdentifierMap
  PROVE  ScopesExact'
<1> SUFFICES ASSUME NEW x \in DOMAIN indexIdentifierMap
             PROVE  \E i \in Loops(x)' : /\ \A j \in Loops(x)' : j <= i
                                        /\ indexIdentifierMap[x] = stack'[i].el
  BY DEF ScopesExact
<1>1. PICK i \in Loops(x) : (\A j \in Loops(x) : j <= i) /\ indexIdentifierMap[x] = stack[i].el
  BY DEF ScopesExact
<1>2. Loops(x)' = Loops(x)
  BY DEF Loops
<1> QED
  BY <1>1, <1>2 DEF Loops

(* Every step of the walk keeps the invariant. *)
LEMMA NextWalk == WalkInv /\ [Next \/ Done]_vars => WalkInv'
<1> SUFFICES ASSUME WalkInv, [Next \/ Done]_vars PROVE WalkInv'
  OBVIOUS
<1> USE DEF WalkInv
<1>0. /\ stack \in Seq(Frame) /\ choreo \in Choreo
      /\ IsMap(indexIdentifierMap, Id, SizeT)
      /\ IsMap(projectionMap, ParticipantKey, Seq(LocalType))
  BY DEF TypeOK
<1>n. \A x \in DOMAIN indexIdentifierMap : x # NoId
  BY <1>0, SizeAssumption DEF IsMap
<1>1. CASE VisitCom
  <2>0. At("com") /\ Running
    BY <1>1 DEF VisitCom, At
  <2>1. DEFINE sent == addProjection(projectionMap, Key(Here.from), Local("send", Here))
               both == addProjection(sent, Key(Here.to), Local("receive", Here))
  <2>2. projectionMap' = both
    BY <1>1 DEF VisitCom
  <2>3. /\ Key(Here.from) \in ParticipantKey \cap DeclaredKeys
        /\ Key(Here.to) \in ParticipantKey \cap DeclaredKeys
        /\ \A kind \in {"send", "receive"} : Local(kind, Here) \in LocalType
    BY <1>1, ComTyped DEF VisitCom
  <2>4. /\ IsMap(sent, ParticipantKey, Seq(LocalType))
        /\ DOMAIN sent = DOMAIN projectionMap \cup {Key(Here.from)}
    BY <1>0, <2>3, AddProjectionTyped
  <2>5. /\ IsMap(both, ParticipantKey, Seq(LocalType))
        /\ DOMAIN both = DOMAIN sent \cup {Key(Here.to)}
    <3> HIDE DEF sent
    <3> QED BY <2>3, <2>4, AddProjectionTyped
  <2> HIDE DEF sent, both
  <2>6. KeysDeclared'
    BY <2>2, <2>3, <2>4, <2>5 DEF KeysDeclared, DeclaredKeys
  <2>7. stack' = Advanced /\ UNCHANGED <<choreo, indexIdentifierMap, mappingSuccess, outcome>>
    BY <1>1 DEF VisitCom
  <2>8. TypeOK'
    BY <2>0, <2>2, <2>5, <2>7, StackMoves DEF TypeOK
  <2>9. ScopesExact'
    BY <1>0, <2>0, <2>7, StackMoves, SameLoops
  <2> QED
    BY <2>6, <2>8, <2>9
<1>2. CASE Throw
  <2>1. DOMAIN Empty = {} /\ \A D, R : IsMap(Empty, D, R)
    BY DEF Empty, IsMap
  <2>2. TypeOK'
    BY <1>2, <2>1 DEF Throw, TypeOK
  <2> QED
    BY <1>2, <2>1, <2>2 DEF Throw, KeysDeclared, ScopesExact
<1>3. CASE VisitList
  <2>0. At("list") /\ Running
    BY <1>3 DEF VisitList, At
  <2>1. Here.body \in ListId
    BY <2>0, HereTyped DEF ListExpr
  <2>2. Visiting(Here.body) \in Frame /\ Visiting(Here.body).var = NoId
    BY <2>1, SizeAssumption DEF Visiting, Pass, Frame, SizeT
  <2>3. stack' = Append(Advanced, Visiting(Here.body))
        /\ UNCHANGED <<choreo, indexIdentifierMap, projectionMap, mappingSuccess, outcome>>
    BY <1>3 DEF VisitList
  <2>4. TypeOK'
    BY <2>0, <2>2, <2>3, StackMoves DEF TypeOK
  <2>5. /\ DOMAIN stack' = 1 .. Len(stack) + 1
        /\ \A i \in DOMAIN stack : stack'[i] = Advanced[i]
        /\ stack'[Len(stack) + 1] = Visiting(Here.body)
    BY <1>0, <2>0, <2>2, <2>3, StackMoves
  <2>6. ScopesExact'
    <3>1. \A i \in DOMAIN stack : stack'[i].var = stack[i].var /\ stack'[i].el = stack[i].el
      BY <2>0, <2>5, StackMoves
    <3>2. \A i \in DOMAIN stack' \ DOMAIN stack : stack'[i].var \notin DOMAIN indexIdentifierMap
      BY <1>0, <1>n, <2>2, <2>5
    <3>3. DOMAIN stack \subseteq DOMAIN stack'
      BY <1>0, <2>5
    <3> QED
      BY <2>3, <3>1, <3>2, <3>3, SameLoops
  <2> QED
    BY <2>3, <2>4, <2>6 DEF KeysDeclared, DeclaredKeys
<1>4. CASE SkipForEach
  <2>0. Running
    BY <1>4 DEF SkipForEach, At
  <2>1. stack' = Advanced /\ UNCHANGED <<choreo, indexIdentifierMap, projectionMap, outcome>>
        /\ mappingSuccess' = FALSE
    BY <1>4 DEF SkipForEach
  <2>2. TypeOK'
    BY <2>0, <2>1, StackMoves DEF TypeOK
  <2>3. ScopesExact'
    BY <1>0, <2>0, <2>1, StackMoves, SameLoops
  <2> QED
    BY <2>1, <2>2, <2>3 DEF KeysDeclared, DeclaredKeys
<1>5. CASE EnterForEach
  <2> DEFINE it == Here.iter
             f == Pass(Here.body, it.var, min(it), max(it))
  <2>0. At("forEach") /\ Running
    BY <1>5 DEF EnterForEach, At
  <2>1. Here.body \in ListId /\ it \in Iteration
    BY <2>0, HereTyped DEF ForEachExpr
  <2>2. it.var \in Id /\ min(it) \in SizeT /\ max(it) \in SizeT
    BY <2>1, BoundsTyped DEF Iteration
  <2>3. /\ stack' = Append(Advanced, f)
        /\ indexIdentifierMap' = Bind(indexIdentifierMap, it.var, min(it))
        /\ UNCHANGED <<choreo, projectionMap, mappingSuccess, outcome>>
    BY <1>5 DEF EnterForEach
  <2>4. f \in Frame /\ f.var = it.var /\ f.el = min(it)
    BY <2>1, <2>2 DEF Frame, Pass
  <2> HIDE DEF it, f
  <2>5. TypeOK'
    BY <1>0, <2>0, <2>2, <2>3, <2>4, StackMoves, BindTyped DEF TypeOK
  <2>6. /\ DOMAIN stack' = 1 .. Len(stack) + 1 /\ DOMAIN stack = 1 .. Len(stack)
        /\ Len(stack) \in Nat
        /\ \A i \in DOMAIN stack : stack'[i].var = stack[i].var /\ stack'[i].el = stack[i].el
        /\ stack'[Len(stack) + 1] = f
    BY <1>0, <2>0, <2>3, <2>4, StackMoves
  <2>7. ScopesExact'
    <3> SUFFICES ASSUME NEW x \in DOMAIN indexIdentifierMap'
                 PROVE  \E i \in Loops(x)' : /\ \A j \in Loops(x)' : j <= i
                                            /\ indexIdentifierMap'[x] = stack'[i].el
      BY DEF ScopesExact
    <3>1. CASE x = it.var
      <4>1. Len(stack) + 1 \in Loops(x)' /\ \A j \in Loops(x)' : j <= Len(stack) + 1
        BY <3>1, <2>4, <2>6 DEF Loops
      <4>2. indexIdentifierMap'[x] = min(it)
        BY <3>1, <2>3 DEF Bind
      <4> QED
        BY <4>1, <4>2, <2>4, <2>6
    <3>2. CASE x # it.var
      <4>1. x \in DOMAIN indexIdentifierMap /\ indexIdentifierMap'[x] = indexIdentifierMap[x]
        BY <3>2, <2>3 DEF Bind
      <4>2. PICK i \in Loops(x) : (\A j \in Loops(x) : j <= i) /\ indexIdentifierMap[x] = stack[i].el
        BY <4>1 DEF ScopesExact
      <4>3. Loops(x)' = Loops(x)
        BY <3>2, <2>4, <2>6 DEF Loops
      <4> QED
        BY <4>1, <4>2, <4>3, <2>6 DEF Loops
    <3> QED
      BY <3>1, <3>2
  <2> QED
    BY <2>3, <2>5, <2>7 DEF KeysDeclared, DeclaredKeys
<1>6. CASE NextRound
  <2> DEFINE n == Len(stack)
             f == Pass(Top.list, Top.var, Successor(Top.el), Top.max)
  <2>0. Running /\ Top.var # NoId /\ Top \in Frame /\ n \in Nat \ {0}
    BY <1>6, TopTyped DEF NextRound, InLoop
  <2>1. /\ stack' = [stack EXCEPT ![n] = f]
        /\ indexIdentifierMap' = Bind(indexIdentifierMap, Top.var, Successor(Top.el))
        /\ UNCHANGED <<choreo, projectionMap, mappingSuccess, outcome>>
    BY <1>6 DEF NextRound
  <2>2. Top.var \in Id /\ Successor(Top.el) \in SizeT
    BY <2>0, SuccessorTyped DEF Frame
  <2>3. f \in Frame /\ f.var = Top.var /\ f.el = Successor(Top.el)
    BY <2>0, <2>2 DEF Frame, Pass
  <2> HIDE DEF f
  <2>4. /\ stack' \in Seq(Frame) /\ DOMAIN stack' = 1 .. n /\ DOMAIN stack = 1 .. n
        /\ \A i \in 1 .. n : stack'[i] = IF i = n THEN f ELSE stack[i]
    BY <1>0, <2>0, <2>1, <2>3
  <2>5. TypeOK'
    BY <1>0, <2>1, <2>2, <2>4, BindTyped DEF TypeOK
  <2>n. n \in 1 .. n /\ n \in DOMAIN stack /\ Top = stack[n] /\ \A j \in DOMAIN stack : j <= n
    BY <2>0, <1>0 DEF Top
  <2>6. \A i \in 1 .. n : stack'[i].var = stack[i].var
    BY <2>3, <2>4, <2>n
  <2>7. ScopesExact'
    <3> SUFFICES ASSUME NEW x \in DOMAIN indexIdentifierMap'
                 PROVE  \E i \in Loops(x)' : /\ \A j \in Loops(x)' : j <= i
                                            /\ indexIdentifierMap'[x] = stack'[i].el
      BY DEF ScopesExact
    <3>0. Loops(x)' = Loops(x)
      BY <2>4, <2>6 DEF Loops
    <3>1. CASE x = Top.var
      <4>1. n \in Loops(x) /\ \A j \in Loops(x) : j <= n
        BY <3>1, <2>n DEF Loops
      <4>2. indexIdentifierMap'[x] = Successor(Top.el)
        BY <3>1, <2>1 DEF Bind
      <4> QED
        BY <3>0, <4>1, <4>2, <2>0, <2>3, <2>4
    <3>2. CASE x # Top.var
      <4>1. x \in DOMAIN indexIdentifierMap /\ indexIdentifierMap'[x] = indexIdentifierMap[x]
        BY <3>2, <2>1 DEF Bind
      <4>2. PICK i \in Loops(x) : (\A j \in Loops(x) : j <= i) /\ indexIdentifierMap[x] = stack[i].el
        BY <4>1 DEF ScopesExact
      <4>3. i # n /\ i \in 1 .. n
        BY <3>2, <4>2, <2>4 DEF Loops, Top
      <4> QED
        BY <3>0, <4>1, <4>2, <4>3, <2>4
    <3> QED
      BY <3>1, <3>2
  <2> QED
    BY <2>1, <2>5, <2>7 DEF KeysDeclared, DeclaredKeys
<1>7. CASE LeaveForEach
  <2> DEFINE n == Len(stack)
  <2>0. Running /\ n \in Nat \ {0}
    BY <1>7, TopTyped DEF LeaveForEach
  <2>1. /\ stack' = Popped
        /\ indexIdentifierMap' = Erase(indexIdentifierMap, Top.var)
        /\ UNCHANGED <<choreo, projectionMap, mappingSuccess, outcome>>
    BY <1>7 DEF LeaveForEach
  <2>2. TypeOK'
    BY <1>0, <2>0, <2>1, StackMoves, EraseTyped DEF TypeOK
  <2>3. ScopesExact'
    <3> SUFFICES ASSUME NEW x \in DOMAIN indexIdentifierMap'
                 PROVE  \E i \in Loops(x)' : /\ \A j \in Loops(x)' : j <= i
                                            /\ indexIdentifierMap'[x] = stack'[i].el
      BY DEF ScopesExact
    <3>1. x # Top.var /\ x \in DOMAIN indexIdentifierMap /\ indexIdentifierMap'[x] = indexIdentifierMap[x]
      BY <2>1 DEF Erase
    <3>2. PICK i \in Loops(x) : (\A j \in Loops(x) : j <= i) /\ indexIdentifierMap[x] = stack[i].el
      BY <3>1 DEF ScopesExact
    <3>3. DOMAIN stack = 1 .. n /\ DOMAIN stack' = 1 .. n - 1
          /\ \A j \in 1 .. n - 1 : stack'[j] = stack[j]
      BY <1>0, <2>0, <2>1, StackMoves, SMTT(20)
    <3>4. Loops(x)' = Loops(x)
      BY <3>1, <3>3, <2>0 DEF Loops, Top
    <3> QED
      BY <3>1, <3>2, <3>3, <3>4 DEF Loops
  <2> QED
    BY <2>1, <2>2, <2>3 DEF KeysDeclared, DeclaredKeys
<1>8. CASE LeaveList
  <2> DEFINE n == Len(stack)
  <2>0. Running /\ n \in Nat \ {0} /\ Top.var = NoId
    BY <1>8, TopTyped DEF LeaveList, InLoop
  <2>1. /\ stack' = Popped
        /\ outcome' \in {"done", outcome}
        /\ UNCHANGED <<choreo, indexIdentifierMap, projectionMap, mappingSuccess>>
    BY <1>8 DEF LeaveList
  <2>2. TypeOK'
    BY <1>0, <2>0, <2>1, StackMoves DEF TypeOK
  <2>3. ScopesExact'
    <3> SUFFICES ASSUME NEW x \in DOMAIN indexIdentifierMap
                 PROVE  \E i \in Loops(x)' : /\ \A j \in Loops(x)' : j <= i
                                            /\ indexIdentifierMap[x] = stack'[i].el
      BY <2>1 DEF ScopesExact
    <3>1. PICK i \in Loops(x) : (\A j \in Loops(x) : j <= i) /\ indexIdentifierMap[x] = stack[i].el
      BY DEF ScopesExact
    <3>2. DOMAIN stack = 1 .. n /\ DOMAIN stack' = 1 .. n - 1
          /\ \A j \in 1 .. n - 1 : stack'[j] = stack[j]
      BY <1>0, <2>0, <2>1, StackMoves
    <3>3. Loops(x)' = Loops(x)
      BY <1>n, <2>0, <3>2 DEF Loops, Top
    <3> QED
      BY <3>1, <3>2, <3>3 DEF Loops
  <2> QED
    BY <2>1, <2>2, <2>3 DEF KeysDeclared, DeclaredKeys
<1>9. CASE UNCHANGED vars
  BY <1>9 DEF vars, TypeOK, KeysDeclared, DeclaredKeys, ScopesExact, Loops
<1> QED
  BY <1>1, <1>2, <1>3, <1>4, <1>5, <1>6, <1>7, <1>8, <1>9 DEF Next, Done

(* Every reachable state of a projection satisfies the invariant. *)
LEMMA WalkInvariant == Spec => []WalkInv
  BY InitWalk, NextWalk, PTL DEF Spec

----------------------------------------------------------------------------
(* In every reachable state every variable has its type: counters and      *)
(* indices stay in size_t whatever the declared bounds are.                *)
THEOREM TypeCorrect == Spec => []TypeOK
<1>1. WalkInv => TypeOK
  BY DEF WalkInv
<1> QED
  BY WalkInvariant, <1>1, PTL

(* No participant outside its declared range ever gets a local type        *)
(* (AstVisitor.cpp:172-174), for every choreography.                       *)
THEOREM KeysAreDeclared == Spec => []KeysDeclared
<1>1. WalkInv => KeysDeclared
  BY DEF WalkInv
<1> QED
  BY WalkInvariant, <1>1, PTL

(* An iteration identifier has a value only inside its loop, that of the   *)
(* innermost one's counter (AstVisitor.cpp:236-246).                       *)
THEOREM ScopesAreExact == Spec => []ScopesExact
<1>1. WalkInv => ScopesExact
  BY DEF WalkInv
<1> QED
  BY WalkInvariant, <1>1, PTL

----------------------------------------------------------------------------
(***************************************************************************)
(* FlattenSeq, of the community modules: it appends one sequence after     *)
(* another.  Its local function is the one that flattens m of them.        *)
(***************************************************************************)
Flattens(g, ss, m) ==
  g = [i \in 1 .. m |-> IF i = 1 THEN ss[1] ELSE g[i - 1] \o ss[i]]

(* There is one for every m. *)
LEMMA FlattensExists ==
  ASSUME NEW ss, NEW m \in Nat
  PROVE  \E g : Flattens(g, ss, m)
<1>. DEFINE Bad == {i \in Nat : ~\E g : Flattens(g, ss, i)}
<1>1. SUFFICES ASSUME Bad # {} PROVE FALSE
  OBVIOUS
<1>2. PICK i \in Bad : \A j \in Bad : i <= j
  <2>1. Bad \subseteq Nat
    OBVIOUS
  <2>. QED
    BY <1>1, <2>1, Least
<1>3. i # 0
  <2>1. Flattens([k \in 1 .. 0 |-> << >>], ss, 0)
    BY DEF Flattens
  <2>. QED
    BY <2>1
<1>4. PICK g : Flattens(g, ss, i - 1)
  <2>1. i - 1 \in Nat /\ ~(i <= i - 1)
    BY <1>3
  <2>. QED
    BY <1>2, <2>1
<1>. DEFINE h == [k \in 1 .. i |-> IF k = 1 THEN ss[1] ELSE g[k - 1] \o ss[k]]
<1>5. ASSUME NEW k \in 1 .. i - 1 PROVE h[k] = g[k]
  <2>1. k \in 1 .. i
    OBVIOUS
  <2>2. g[k] = IF k = 1 THEN ss[1] ELSE g[k - 1] \o ss[k]
    BY <1>4 DEF Flattens
  <2>. QED
    BY <2>1, <2>2
<1>6. \A k \in 1 .. i : k # 1 => k - 1 \in 1 .. i - 1
  BY <1>3
<1>7. Flattens(h, ss, i)
  BY <1>5, <1>6 DEF Flattens
<1>. QED
  BY <1>7

(* What flattens sequences over S is a sequence over S at every point. *)
LEMMA FlattensType ==
  ASSUME NEW S, NEW ss \in Seq(Seq(S)), NEW g, NEW m \in Nat, m <= Len(ss), Flattens(g, ss, m)
  PROVE  \A i \in 1 .. m : g[i] \in Seq(S)
<1>. DEFINE Bad == {i \in 1 .. m : g[i] \notin Seq(S)}
<1>1. SUFFICES ASSUME Bad # {} PROVE FALSE
  OBVIOUS
<1>2. PICK i \in Bad : \A j \in Bad : i <= j
  <2>1. Bad \subseteq Nat
    OBVIOUS
  <2>. QED
    BY <1>1, <2>1, Least
<1>3. ss[i] \in Seq(S) /\ ss[1] \in Seq(S)
  <2>1. i \in DOMAIN ss /\ 1 \in DOMAIN ss
    OBVIOUS
  <2>. QED
    BY <2>1
<1>4. g[i] = IF i = 1 THEN ss[1] ELSE g[i - 1] \o ss[i]
  BY DEF Flattens
<1>5. i # 1
  BY <1>3, <1>4
<1>6. g[i - 1] \in Seq(S)
  BY <1>2, <1>5
<1>7. g[i - 1] \o ss[i] \in Seq(S)
  BY <1>3, <1>6
<1>. QED
  BY <1>4, <1>5, <1>7

(* FlattenSeq is what such a function says of all of the sequence. *)
LEMMA FlattenIs ==
  ASSUME NEW S, NEW ss \in Seq(Seq(S))
  PROVE  /\ ss = << >> => FlattenSeq(ss) = << >>
         /\ ss # << >> => \E g : Flattens(g, ss, Len(ss)) /\ FlattenSeq(ss) = g[Len(ss)]
<1>1. CASE ss = << >>
  BY <1>1 DEF FlattenSeq
<1>2. CASE ss # << >>
  <2>. DEFINE of == CHOOSE g : Flattens(g, ss, Len(ss))
              fs == CHOOSE flatten : flatten = [i \in 1 .. Len(ss) |->
                                          IF i = 1 THEN ss[i] ELSE flatten[i - 1] \o ss[i]]
  <2>1. Flattens(of, ss, Len(ss))
    <3>1. Len(ss) \in Nat
      OBVIOUS
    <3>2. \E g : Flattens(g, ss, Len(ss))
      BY <3>1, FlattensExists
    <3>. QED
      BY <3>2
  <2>2. \A g : Flattens(g, ss, Len(ss)) <=>
                 g = [i \in 1 .. Len(ss) |-> IF i = 1 THEN ss[i] ELSE g[i - 1] \o ss[i]]
    BY DEF Flattens
  <2>3. Flattens(fs, ss, Len(ss))
    BY <2>1, <2>2
  <2>4. FlattenSeq(ss) = fs[Len(ss)]
    BY <1>2 DEF FlattenSeq
  <2>. QED
    BY <1>2, <2>3, <2>4
<1>. QED
  BY <1>1, <1>2

(* Two functions that flatten the same agree. *)
LEMMA FlattensOnce ==
  ASSUME NEW ss, NEW m \in Nat, NEW n \in Nat, NEW g, NEW h, Flattens(g, ss, m), Flattens(h, ss, n)
  PROVE  \A i \in 1 .. m : i <= n => g[i] = h[i]
<1>. DEFINE Bad == {i \in 1 .. m : i <= n /\ g[i] # h[i]}
<1>1. SUFFICES ASSUME Bad # {} PROVE FALSE
  OBVIOUS
<1>2. PICK i \in Bad : \A j \in Bad : i <= j
  <2>1. Bad \subseteq Nat
    OBVIOUS
  <2>. QED
    BY <1>1, <2>1, Least
<1>3. g[i] = IF i = 1 THEN ss[1] ELSE g[i - 1] \o ss[i]
  BY DEF Flattens
<1>4. h[i] = IF i = 1 THEN ss[1] ELSE h[i - 1] \o ss[i]
  <2>1. i \in 1 .. n
    OBVIOUS
  <2>. QED
    BY <2>1 DEF Flattens
<1>5. i # 1
  BY <1>3, <1>4
<1>6. g[i - 1] = h[i - 1]
  BY <1>2, <1>5
<1>. QED
  BY <1>3, <1>4, <1>6

(* Flattening sequences over S gives a sequence over S. *)
LEMMA FlattenType ==
  ASSUME NEW S, NEW ss \in Seq(Seq(S))
  PROVE  FlattenSeq(ss) \in Seq(S)
<1>1. CASE ss = << >>
  <2>1. FlattenSeq(ss) = << >>
    BY <1>1, FlattenIs
  <2>. QED
    BY <2>1
<1>2. CASE ss # << >>
  <2>1. PICK g : Flattens(g, ss, Len(ss)) /\ FlattenSeq(ss) = g[Len(ss)]
    BY <1>2, FlattenIs
  <2>2. Len(ss) \in 1 .. Len(ss) /\ Len(ss) \in Nat /\ Len(ss) <= Len(ss)
    BY <1>2
  <2>. QED
    BY <2>1, <2>2, FlattensType
<1>. QED
  BY <1>1, <1>2

(* A sequence more goes to the end. *)
LEMMA FlattenLast ==
  ASSUME NEW S, NEW ss \in Seq(Seq(S)), NEW x \in Seq(S)
  PROVE  FlattenSeq(Append(ss, x)) = FlattenSeq(ss) \o x
<1>1. PICK n \in Nat : n = Len(ss)
  OBVIOUS
<1>2. PICK tt : tt = Append(ss, x)
  OBVIOUS
<1>3. tt \in Seq(Seq(S)) /\ Len(tt) = n + 1 /\ tt # << >>
  BY <1>1, <1>2
<1>4. tt[n + 1] = x /\ \A i \in 1 .. n : tt[i] = ss[i]
  BY <1>1, <1>2
<1>5. PICK h : Flattens(h, tt, n + 1) /\ FlattenSeq(tt) = h[n + 1]
  BY <1>3, FlattenIs
<1>6. \A i \in 1 .. n + 1 : h[i] = IF i = 1 THEN tt[1] ELSE h[i - 1] \o tt[i]
  BY <1>5 DEF Flattens
<1>7. CASE ss = << >>
  <2>1. n = 0
    BY <1>1, <1>7
  <2>2. FlattenSeq(tt) = x
    BY <1>4, <1>5, <1>6, <2>1
  <2>3. FlattenSeq(ss) = << >>
    BY <1>7, FlattenIs
  <2>. QED
    BY <1>2, <2>2, <2>3, ConcatEmptySeq
<1>8. CASE ss # << >>
  <2>0. n # 0
    BY <1>1, <1>8
  <2>1. PICK g : Flattens(g, ss, n) /\ FlattenSeq(ss) = g[n]
    BY <1>1, <1>8, FlattenIs
  <2>2. h[n + 1] = h[n] \o x
    <3>1. n + 1 \in 1 .. n + 1 /\ n + 1 # 1 /\ (n + 1) - 1 = n
      BY <2>0
    <3>. QED
      BY <1>4, <1>6, <3>1
  <2>. DEFINE k == [i \in 1 .. n |-> h[i]]
  <2>3. Flattens(k, ss, n)
    <3>1. \A i \in 1 .. n : i # 1 => i - 1 \in 1 .. n
      OBVIOUS
    <3>2. \A i \in 1 .. n : h[i] = IF i = 1 THEN ss[1] ELSE k[i - 1] \o ss[i]
      BY <1>4, <1>6, <3>1
    <3>. QED
      BY <3>2 DEF Flattens
  <2>4. n \in 1 .. n /\ n <= n
    BY <2>0
  <2>. HIDE DEF k
  <2>5. g[n] = k[n]
    BY <2>1, <2>3, <2>4, FlattensOnce
  <2>6. g[n] = h[n]
    BY <2>4, <2>5 DEF k
  <2>. QED
    BY <1>2, <1>5, <2>1, <2>2, <2>6
<1>. QED
  BY <1>7, <1>8

Associative(u, v, w) == (u \o v) \o w = u \o (v \o w)

(* Concatenation is associative.  The operator keeps the sequences out of  *)
(* sight.                                                                  *)
LEMMA Assoc ==
  \A S : \A u, v, w \in Seq(S) : Associative(u, v, w)
<1>. SUFFICES ASSUME NEW S, NEW u \in Seq(S), NEW v \in Seq(S), NEW w \in Seq(S)
              PROVE  (u \o v) \o w = u \o (v \o w)
  BY DEF Associative
<1>. QED
  OBVIOUS

(* The first sequence comes first. *)
LEMMA FlattenFirst ==
  ASSUME NEW S, NEW ss \in Seq(Seq(S)), ss # << >>
  PROVE  FlattenSeq(ss) = ss[1] \o FlattenSeq(Tail(ss))
<1>1. PICK n \in Nat : n + 1 = Len(ss)
  <2>1. Len(ss) - 1 \in Nat
    OBVIOUS
  <2>. QED
    BY <2>1
<1>2. PICK tt \in Seq(Seq(S)) : tt = Tail(ss)
  <2>1. Tail(ss) \in Seq(Seq(S))
    OBVIOUS
  <2>. QED
    BY <2>1
<1>3. Len(tt) = n /\ \A i \in 1 .. n : tt[i] = ss[i + 1]
  BY <1>1, <1>2
<1>4. PICK g : Flattens(g, ss, n + 1) /\ FlattenSeq(ss) = g[n + 1]
  BY <1>1, FlattenIs
<1>5. \A i \in 1 .. n + 1 : g[i] = IF i = 1 THEN ss[1] ELSE g[i - 1] \o ss[i]
  BY <1>4 DEF Flattens
<1>6. PICK a \in Seq(S) : a = ss[1]
  <2>1. 1 \in DOMAIN ss
    OBVIOUS
  <2>. QED
    BY <2>1
<1>7. g[1] = a
  BY <1>5, <1>6
<1>8. CASE n = 0
  <2>1. tt = << >>
    BY <1>3, <1>8
  <2>2. FlattenSeq(tt) = << >>
    BY <2>1, FlattenIs
  <2>3. FlattenSeq(ss) = a
    BY <1>4, <1>7, <1>8
  <2>. QED
    BY <1>2, <1>6, <2>2, <2>3, ConcatEmptySeq
<1>9. CASE n # 0
  <2>0. tt # << >>
    BY <1>3, <1>9
  <2>1. PICK h : Flattens(h, tt, n) /\ FlattenSeq(tt) = h[n]
    BY <1>3, <2>0, FlattenIs
  <2>2. \A i \in 1 .. n : h[i] = IF i = 1 THEN tt[1] ELSE h[i - 1] \o tt[i]
    BY <2>1 DEF Flattens
  <2>3. \A i \in 1 .. n : h[i] \in Seq(S)
    <3>1. n <= Len(tt)
      BY <1>3
    <3>. QED
      BY <2>1, <3>1, FlattensType
  <2>4. \A i \in 1 .. n : tt[i] \in Seq(S)
    BY <1>3
  <2>5. \A i \in 1 .. n : g[i + 1] = g[i] \o tt[i]
    <3>1. TAKE i \in 1 .. n
    <3>2. i + 1 \in 1 .. n + 1 /\ i + 1 # 1 /\ (i + 1) - 1 = i
      OBVIOUS
    <3>. QED
      BY <1>3, <1>5, <3>2
  <2>. DEFINE Bad == {i \in 1 .. n : g[i + 1] # a \o h[i]}
  <2>6. Bad = {}
    <3>1. SUFFICES ASSUME Bad # {} PROVE FALSE
      OBVIOUS
    <3>2. PICK i \in Bad : \A j \in Bad : i <= j
      <4>1. Bad \subseteq Nat
        OBVIOUS
      <4>. QED
        BY <3>1, <4>1, Least
    <3>3. i \in 1 .. n /\ g[i + 1] # a \o h[i]
      OBVIOUS
    <3>4. i # 1
      BY <1>7, <2>2, <2>5, <3>3
    <3>5. PICK j \in 1 .. n : j + 1 = i /\ j = i - 1
      BY <3>3, <3>4
    <3>6. g[i] = a \o h[j]
      <4>1. ~(i <= j)
        BY <3>5
      <4>2. j \notin Bad
        BY <3>2, <4>1
      <4>. QED
        BY <3>5, <4>2
    <3>7. (a \o h[j]) \o tt[i] = a \o (h[j] \o tt[i])
      <4>1. PICK b \in Seq(S), c \in Seq(S) : b = h[j] /\ c = tt[i]
        BY <2>3, <2>4, <3>3
      <4>. HIDE DEF Bad
      <4>2. (a \o b) \o c = a \o (b \o c)
        <5>1. Associative(a, b, c)
          BY Assoc, Zenon
        <5>. QED
          BY <5>1 DEF Associative
      <4>3. (a \o h[j]) \o tt[i] = (a \o b) \o c
        BY ONLY <4>1
      <4>4. a \o (h[j] \o tt[i]) = a \o (b \o c)
        BY ONLY <4>1
      <4>. QED
        BY <4>2, <4>3, <4>4
    <3>8. h[i] = h[j] \o tt[i]
      BY <2>2, <3>3, <3>4, <3>5
    <3>. QED
      BY <2>5, <3>3, <3>6, <3>7, <3>8
  <2>7. n \in 1 .. n
    BY <1>9
  <2>. QED
    BY <1>2, <1>4, <1>6, <2>1, <2>6, <2>7
<1>. QED
  BY <1>8, <1>9

(* Flattened sequences over a set are one over it. *)
LEMMA FlattenTyped ==
  ASSUME NEW S, NEW n \in Int, NEW f \in [1 .. n -> Seq(S)]
  PROVE  FlattenSeq(f) \in Seq(S)
<1>1. CASE n <= 0
  <2>1. 1 .. n = 1 .. 0
    BY <1>1
  <2>3. f \in Seq(Seq(S))
    BY <2>1
  <2>. QED
    BY <2>3, FlattenType
<1>2. CASE n > 0
  <2>1. f \in Seq(Seq(S))
    BY <1>2
  <2>. QED
    BY <2>1, FlattenType
<1>. QED
  BY <1>1, <1>2

(* So a comprehension over an interval is its first element, then the rest. *)
LEMMA FlattenInterval ==
  ASSUME NEW S, NEW n \in Int, NEW f \in [1 .. n -> Seq(S)],
         NEW g \in [1 .. n - 1 -> Seq(S)], \A i \in 1 .. n - 1 : g[i] = f[i + 1]
  PROVE  /\ FlattenSeq(f) \in Seq(S)
         /\ n <= 0 => FlattenSeq(f) = << >>
         /\ n > 0 => FlattenSeq(f) = f[1] \o FlattenSeq(g)
<1>1. CASE n <= 0
  <2>1. 1 .. n = {}
    BY <1>1
  <2>2. f \in Seq(Seq(S)) /\ f = << >>
    <3>1. f \in [1 .. 0 -> Seq(S)]
      BY <2>1
    <3>2. f \in Seq(Seq(S)) /\ Len(f) = 0
      BY <3>1
    <3>. QED
      BY <3>2
  <2>3. FlattenSeq(f) = << >>
    BY <2>2, FlattenIs
  <2>4. << >> \in Seq(S)
    OBVIOUS
  <2>5. ~(n > 0)
    BY <1>1
  <2>. QED
    BY <2>3, <2>4, <2>5
<1>2. CASE n > 0
  <2>1. f \in Seq(Seq(S)) /\ Len(f) = n /\ f # << >> /\ n \in Nat
    BY <1>2
  <2>2. g \in Seq(Seq(S)) /\ Len(g) = n - 1 /\ \A i \in 1 .. n - 1 : g[i] = f[i + 1]
    BY <1>2
  <2>3. /\ Tail(f) \in Seq(Seq(S)) /\ Len(Tail(f)) = n - 1
        /\ \A i \in 1 .. n - 1 : Tail(f)[i] = f[i + 1]
    BY <2>1
  <2>4. Tail(f) = g
    BY <2>2, <2>3, SeqEqual
  <2>5. FlattenSeq(f) = f[1] \o FlattenSeq(g)
    BY <2>1, <2>4, FlattenFirst
  <2>6. FlattenSeq(f) \in Seq(S)
    BY <2>1, FlattenType
  <2>7. ~(n <= 0)
    BY <1>2
  <2>. QED
    BY <2>5, <2>6, <2>7
<1>. QED
  BY <1>1, <1>2

----------------------------------------------------------------------------
(***************************************************************************)
(* The choreography written out.  Written is a recursive function over the *)
(* lists; that there is one, and that it says what its equation says, is   *)
(* because a list only holds lists of a smaller rank.                      *)
(***************************************************************************)
Expr == CommunicationExpr \cup ForEachExpr \cup ListExpr

Number == {eval(e, env) : e \in Seq(Term), env \in Env}
Communication ==
  [from : Role \X Number, to : Role \X Number, channel : Channel, index : Number, type : Type]

(* A body is a list of the choreography. *)
LEMMA BodyTyped ==
  /\ \A e \in Expr : e.tag # "com" => e.body \in ListId
  /\ \A e \in Expr : e.tag = "forEach" => e.iter \in Iteration /\ e \in ForEachExpr
  /\ \A e \in Expr : e.tag = "com" => e \in CommunicationExpr
  /\ \A e \in Expr : e.tag \in {"com", "list", "forEach"}
  BY DEF Expr, CommunicationExpr, ForEachExpr, ListExpr

(* What a communication says, in an environment. *)
LEMMA SpokenTyped ==
  ASSUME NEW e \in CommunicationExpr, NEW env \in Env
  PROVE  Spoken(e, env) \in Communication
<1>1. /\ e.from[1] \in Role /\ e.to[1] \in Role /\ e.on[1] \in Channel /\ e.type \in Type
      /\ e.from[2] \in Seq(Term) /\ e.to[2] \in Seq(Term) /\ e.on[2] \in Seq(Term)
  BY DEF CommunicationExpr
<1>2. \A t \in Seq(Term) : eval(t, env) \in Number
  BY DEF Number
<1>3. eval(e.from[2], env) \in Number /\ eval(e.to[2], env) \in Number /\ eval(e.on[2], env) \in Number
  BY <1>1, <1>2
<1>. QED
  BY <1>1, <1>3 DEF Spoken, Communication

(* A map of identifiers is an environment, and binding one gives another. *)
LEMMA EnvIsMap ==
  /\ \A env : env \in Env <=> IsMap(env, Id, SizeT)
  /\ Empty \in Env
  /\ DOMAIN Empty = {}
<1>1. ASSUME NEW env PROVE env \in Env <=> IsMap(env, Id, SizeT)
  <2>1. ASSUME env \in Env PROVE IsMap(env, Id, SizeT)
    <3>1. PICK D \in SUBSET Id : env \in [D -> SizeT]
      BY <2>1 DEF Env
    <3>. QED
      BY <3>1 DEF IsMap
  <2>2. ASSUME IsMap(env, Id, SizeT) PROVE env \in Env
    BY <2>2 DEF IsMap, Env
  <2>. QED
    BY <2>1, <2>2
<1>2. IsMap(Empty, Id, SizeT) /\ DOMAIN Empty = {}
  BY DEF Empty, IsMap
<1>. QED
  BY <1>1, <1>2

(* An environment bound to a number is one. *)
LEMMA BindInEnv ==
  ASSUME NEW env \in Env, NEW x \in Id, NEW v \in SizeT
  PROVE  Bind(env, x, v) \in Env
<1>1. IsMap(env, Id, SizeT)
  BY EnvIsMap
<1>2. IsMap(Bind(env, x, v), Id, SizeT)
  BY <1>1, BindTyped
<1>. QED
  BY <1>2, EnvIsMap

(* The rounds of a loop give its identifier numbers of size_t. *)
LEMMA RoundTyped ==
  ASSUME NEW it \in Iteration
  PROVE  /\ Rounds(it) \in Int
         /\ \A n \in 1 .. Rounds(it) : From(it) + n - 1 \in SizeT
<1>1. /\ Lower[it.over] \in Nat /\ Upper[it.over] \in Nat /\ Upper[it.over] <= SizeMax
      /\ SizeMax \in Nat
  BY SizeAssumption DEF Iteration, SizeT
<1>2. it.kind \in {":", "<", ">"}
  BY DEF Iteration
<1>3. Rounds(it) \in Int
  BY <1>1 DEF Rounds
<1>4. ASSUME NEW n \in 1 .. Rounds(it) PROVE From(it) + n - 1 \in SizeT
  <2>. DEFINE r == Upper[it.over] + 1 - Lower[it.over]
  <2>1. CASE it.kind = ":"
    <3>1. Rounds(it) = r /\ From(it) = Lower[it.over]
      BY <2>1 DEF Rounds, From
    <3>. QED
      BY <1>1, <3>1 DEF SizeT
  <2>2. CASE it.kind # ":"
    <3>1. Rounds(it) = IF r = 0 THEN 0 ELSE r - 1
      BY <1>1, <2>2 DEF Rounds
    <3>2. From(it) \in {Lower[it.over], Lower[it.over] + 1}
      BY DEF From
    <3>. QED
      BY <1>1, <3>1, <3>2 DEF SizeT
  <2>. QED
    BY <2>1, <2>2
<1>. QED
  BY <1>3, <1>4

(* What an expression says depends on what its body says, and on no more. *)
LEMMA SaysAgree ==
  ASSUME NEW e \in Expr, NEW env \in Env, NEW w, NEW v,
         e.tag # "com" => \A en \in Env : w[<<e.body, en>>] = v[<<e.body, en>>]
  PROVE  Says(w, e, env) = Says(v, e, env)
<1>1. CASE e.tag = "com"
  BY <1>1 DEF Says
<1>2. CASE e.tag = "list"
  BY <1>2 DEF Says
<1>3. CASE e.tag = "forEach"
  <2>1. e.iter \in Iteration /\ e.iter.var \in Id
    BY <1>3, BodyTyped DEF Iteration
  <2>2. \A n \in 1 .. Rounds(e.iter) : Bind(env, e.iter.var, From(e.iter) + n - 1) \in Env
    BY <2>1, RoundTyped, BindInEnv
  <2>3. \A n \in 1 .. Rounds(e.iter) :
          w[<<e.body, Bind(env, e.iter.var, From(e.iter) + n - 1)>>]
            = v[<<e.body, Bind(env, e.iter.var, From(e.iter) + n - 1)>>]
    BY <1>3, <2>2
  <2>4. [n \in 1 .. Rounds(e.iter) |-> w[<<e.body, Bind(env, e.iter.var, From(e.iter) + n - 1)>>]]
          = [n \in 1 .. Rounds(e.iter) |-> v[<<e.body, Bind(env, e.iter.var, From(e.iter) + n - 1)>>]]
    BY <2>3
  <2>. QED
    BY <1>3, <2>4 DEF Says
<1>. QED
  BY <1>1, <1>2, <1>3, BodyTyped

(* What an expression says is a sequence of communications. *)
LEMMA SaysTyped ==
  ASSUME NEW e \in Expr, NEW env \in Env, NEW w,
         e.tag # "com" => \A en \in Env : w[<<e.body, en>>] \in Seq(Communication)
  PROVE  Says(w, e, env) \in Seq(Communication)
<1>1. CASE e.tag = "com"
  <2>1. Spoken(e, env) \in Communication
    BY <1>1, BodyTyped, SpokenTyped
  <2>. QED
    BY <1>1, <2>1 DEF Says
<1>2. CASE e.tag = "list"
  BY <1>2 DEF Says
<1>3. CASE e.tag = "forEach"
  <2>1. e.iter \in Iteration /\ e.iter.var \in Id
    BY <1>3, BodyTyped DEF Iteration
  <2>2. \A n \in 1 .. Rounds(e.iter) : Bind(env, e.iter.var, From(e.iter) + n - 1) \in Env
    BY <2>1, RoundTyped, BindInEnv
  <2>. DEFINE f == [n \in 1 .. Rounds(e.iter) |->
                      w[<<e.body, Bind(env, e.iter.var, From(e.iter) + n - 1)>>]]
  <2>3. \A n \in 1 .. Rounds(e.iter) :
          w[<<e.body, Bind(env, e.iter.var, From(e.iter) + n - 1)>>] \in Seq(Communication)
    BY <1>3, <2>2
  <2>4. f \in [1 .. Rounds(e.iter) -> Seq(Communication)]
    BY <2>3
  <2>5. Says(w, e, env) = FlattenSeq(f)
    BY <1>3 DEF Says
  <2>6. Rounds(e.iter) \in Int
    BY <2>1, RoundTyped
  <2>. HIDE DEF f
  <2>. QED
    BY <2>4, <2>5, <2>6, FlattenTyped
<1>. QED
  BY <1>1, <1>2, <1>3, BodyTyped

(* The lists of a choreography are of expressions, and have ranks. *)
RankedBy(c, rank, top) ==
  /\ \A l \in ListId : rank[l] \in Nat /\ rank[l] <= top
  /\ \A l \in ListId : \A i \in DOMAIN c.lists[l] :
       c.lists[l][i].tag # "com" => rank[c.lists[l][i].body] < rank[l]

(* The lists of a choreography have ranks in Nat, bounded by one number. *)
LEMMA Ranked ==
  ASSUME NEW c \in Choreos
  PROVE  /\ c.top \in ListId
         /\ \A l \in ListId : c.lists[l] \in Seq(Expr)
         /\ \E rank : \E top \in Nat : RankedBy(c, rank, top)
<1>1. c \in Choreo /\ Acyclic(c) /\ IsFiniteSet(ListId)
  BY ChoreoAssumption
<1>2. Cardinality(ListId) \in Nat
  BY <1>1, FS_CardinalityType
<1>3. PICK rank \in [ListId -> 0 .. Cardinality(ListId)] :
        \A l \in ListId : \A i \in DOMAIN c.lists[l] :
          c.lists[l][i].tag # "com" => rank[c.lists[l][i].body] < rank[l]
  BY <1>1 DEF Acyclic
<1>4. RankedBy(c, rank, Cardinality(ListId))
  BY <1>2, <1>3 DEF RankedBy
<1>5. c.top \in ListId /\ \A l \in ListId : c.lists[l] \in Seq(Expr)
  BY <1>1 DEF Choreo, Expr
<1>. QED
  BY <1>2, <1>4, <1>5

(* A list says the same in two functions that agree on what it holds. *)
LEMMA ListSaysAgree ==
  ASSUME NEW c \in Choreos, NEW l \in ListId, NEW env \in Env, NEW w, NEW v,
         \A i \in DOMAIN c.lists[l] : c.lists[l][i].tag # "com" =>
           \A en \in Env : w[<<c.lists[l][i].body, en>>] = v[<<c.lists[l][i].body, en>>]
  PROVE  ListSays(c, w, l, env) = ListSays(c, v, l, env)
<1>1. \A i \in DOMAIN c.lists[l] : c.lists[l][i] \in Expr
  BY Ranked
<1>2. \A i \in DOMAIN c.lists[l] : Says(w, c.lists[l][i], env) = Says(v, c.lists[l][i], env)
  BY <1>1, SaysAgree
<1>3. [i \in DOMAIN c.lists[l] |-> Says(w, c.lists[l][i], env)]
        = [i \in DOMAIN c.lists[l] |-> Says(v, c.lists[l][i], env)]
  BY <1>2
<1>. QED
  BY <1>3 DEF ListSays

(* The functions that say what the lists below rank r say. *)
Lists(rank, r) == {t \in ListId \X Env : rank[t[1]] < r}
WritesOut(w, c, rank, r) == w = [t \in Lists(rank, r) |-> ListSays(c, w, t[1], t[2])]

(* The text of the lists below any rank can be written out, rank by rank. *)
LEMMA WritesOutExists ==
  ASSUME NEW c \in Choreos, NEW rank, NEW top \in Nat, RankedBy(c, rank, top), NEW r \in Nat
  PROVE  \E w : WritesOut(w, c, rank, r)
<1>. DEFINE Bad == {i \in Nat : ~\E w : WritesOut(w, c, rank, i)}
<1>1. SUFFICES ASSUME Bad # {} PROVE FALSE
  OBVIOUS
<1>2. PICK i \in Bad : \A j \in Bad : i <= j
  <2>1. Bad \subseteq Nat
    OBVIOUS
  <2>. QED
    BY <1>1, <2>1, Least
<1>3. i # 0
  <2>1. Lists(rank, 0) = {}
    BY DEF Lists, RankedBy
  <2>2. WritesOut([t \in {} |-> << >>], c, rank, 0)
    BY <2>1 DEF WritesOut
  <2>. QED
    BY <2>2
<1>4. PICK j \in Nat : j + 1 = i
  BY <1>3
<1>5. PICK g : WritesOut(g, c, rank, j)
  <2>1. ~(i <= j)
    BY <1>4
  <2>. QED
    BY <1>2, <2>1
<1>. DEFINE h == [t \in Lists(rank, i) |-> ListSays(c, g, t[1], t[2])]
<1>6. ASSUME NEW t \in Lists(rank, j) PROVE h[t] = g[t]
  <2>1. t \in Lists(rank, i)
    BY <1>4 DEF Lists, RankedBy
  <2>2. g[t] = ListSays(c, g, t[1], t[2])
    BY <1>5 DEF WritesOut
  <2>. QED
    BY <2>1, <2>2
<1>. HIDE DEF h
<1>7. ASSUME NEW t \in Lists(rank, i)
      PROVE  ListSays(c, g, t[1], t[2]) = ListSays(c, h, t[1], t[2])
  <2>1. t[1] \in ListId /\ t[2] \in Env /\ rank[t[1]] < i
    BY DEF Lists
  <2>2. ASSUME NEW k \in DOMAIN c.lists[t[1]], c.lists[t[1]][k].tag # "com", NEW en \in Env
        PROVE  g[<<c.lists[t[1]][k].body, en>>] = h[<<c.lists[t[1]][k].body, en>>]
    <3>1. c.lists[t[1]][k] \in Expr
      BY <2>1, Ranked
    <3>2. c.lists[t[1]][k].body \in ListId
      BY <2>2, <3>1, BodyTyped
    <3>3. rank[c.lists[t[1]][k].body] < j
      BY <1>4, <2>1, <2>2, <3>2 DEF RankedBy
    <3>4. <<c.lists[t[1]][k].body, en>> \in Lists(rank, j)
      BY <3>2, <3>3 DEF Lists
    <3>. QED
      BY <1>6, <3>4
  <2>. QED
    BY <2>1, <2>2, ListSaysAgree, ZenonT(40)
<1>8. WritesOut(h, c, rank, i)
  BY <1>7 DEF WritesOut, h
<1>. QED
  BY <1>8

(* Written satisfies its equation. *)
LEMMA WrittenUnfolds ==
  ASSUME NEW c \in Choreos, NEW l \in ListId, NEW env \in Env
  PROVE  Written(c)[<<l, env>>] = ListSays(c, Written(c), l, env)
<1>0. PICK rank : \E top \in Nat : RankedBy(c, rank, top)
  BY Ranked
<1>1. PICK top \in Nat : RankedBy(c, rank, top)
  BY <1>0
<1>2. Lists(rank, top + 1) = ListId \X Env
  BY <1>1 DEF Lists, RankedBy
<1>3. \E w : w = [t \in ListId \X Env |-> ListSays(c, w, t[1], t[2])]
  <2>1. PICK w : WritesOut(w, c, rank, top + 1)
    BY <1>1, WritesOutExists
  <2>. QED
    BY <1>2, <2>1 DEF WritesOut
<1>. DEFINE of == CHOOSE w : w = [t \in ListId \X Env |-> ListSays(c, w, t[1], t[2])]
<1>4. of = [t \in ListId \X Env |-> ListSays(c, of, t[1], t[2])]
  BY <1>3
<1>5. Written(c) = of
  BY DEF Written
<1>. HIDE DEF of
<1>6. <<l, env>> \in ListId \X Env
  OBVIOUS
<1>7. of[<<l, env>>] = ListSays(c, of, l, env)
  BY <1>4, <1>6
<1>. QED
  BY <1>5, <1>7

(* A choreography written out is a sequence of communications. *)
LEMMA WrittenTyped ==
  ASSUME NEW c \in Choreos
  PROVE  \A l \in ListId, env \in Env : Written(c)[<<l, env>>] \in Seq(Communication)
<1>0. PICK rank : \E top \in Nat : RankedBy(c, rank, top)
  BY Ranked
<1>1. PICK top \in Nat : RankedBy(c, rank, top)
  BY <1>0
<1>. DEFINE Bad == {r \in Nat : \E l \in ListId, env \in Env :
                      rank[l] = r /\ Written(c)[<<l, env>>] \notin Seq(Communication)}
<1>2. Bad = {}
  <2>1. SUFFICES ASSUME Bad # {} PROVE FALSE
    OBVIOUS
  <2>2. PICK r \in Bad : \A q \in Bad : r <= q
    <3>1. Bad \subseteq Nat
      OBVIOUS
    <3>. QED
      BY <2>1, <3>1, Least
  <2>3. PICK l \in ListId, env \in Env :
          rank[l] = r /\ Written(c)[<<l, env>>] \notin Seq(Communication)
    OBVIOUS
  <2>. DEFINE s == c.lists[l]
  <2>4. s \in Seq(Expr)
    BY Ranked
  <2>5. ASSUME NEW i \in DOMAIN s, s[i].tag # "com", NEW en \in Env
        PROVE  Written(c)[<<s[i].body, en>>] \in Seq(Communication)
    <3>1. s[i].body \in ListId
      BY <2>4, <2>5, BodyTyped
    <3>2. rank[s[i].body] \in Nat /\ rank[s[i].body] < r
      BY <1>1, <2>3, <2>5, <3>1 DEF RankedBy
    <3>3. ~(r <= rank[s[i].body])
      BY <3>2
    <3>4. rank[s[i].body] \notin Bad
      BY <2>2, <3>3
    <3>. QED
      BY <3>1, <3>2, <3>4
  <2>6. ASSUME NEW i \in DOMAIN s PROVE Says(Written(c), s[i], env) \in Seq(Communication)
    <3>1. s[i] \in Expr
      BY <2>4
    <3>. QED
      BY <2>5, <3>1, SaysTyped
  <2>. DEFINE f == [i \in DOMAIN s |-> Says(Written(c), s[i], env)]
  <2>7. f \in [1 .. Len(s) -> Seq(Communication)] /\ Len(s) \in Nat
    BY <2>4, <2>6
  <2>8. Written(c)[<<l, env>>] = FlattenSeq(f)
    BY WrittenUnfolds DEF ListSays
  <2>. HIDE DEF f
  <2>9. FlattenSeq(f) \in Seq(Communication)
    <3>1. Len(s) \in Int
      BY <2>7
    <3>. QED
      BY <2>7, <3>1, FlattenTyped
  <2>. QED
    BY <2>3, <2>8, <2>9
<1>. HIDE DEF Bad
<1>3. ASSUME NEW l \in ListId, NEW env \in Env, Written(c)[<<l, env>>] \notin Seq(Communication)
      PROVE  FALSE
  <2>1. rank[l] \in Bad
    BY <1>1, <1>3 DEF RankedBy, Bad
  <2>. QED
    BY <1>2, <2>1
<1>. QED
  BY <1>3


----------------------------------------------------------------------------
(***************************************************************************)
(* What is still to come: of a list from its i-th expression on, of a loop *)
(* from the value v of its identifier on, of a frame of the visit.         *)
(***************************************************************************)
ListRest(c, l, i, env) ==
  FlattenSeq([j \in 1 .. Len(c.lists[l]) + 1 - i |-> Says(Written(c), c.lists[l][i + j - 1], env)])

Turns(c, l, x, outer, v, m) ==
  FlattenSeq([j \in 1 .. m + 1 - v |-> Written(c)[<<l, Bind(outer, x, v + j - 1)>>]])

ScopeIn(f, outer) == IF f.var = NoId THEN outer ELSE Bind(outer, f.var, f.el)

Rest(c, f, outer) ==
  ListRest(c, f.list, f.pos, ScopeIn(f, outer))
  \o IF f.var = NoId THEN << >> ELSE Turns(c, f.list, f.var, outer, f.el + 1, f.max)

InBounds(f) == f.var # NoId => f.el <= f.max

(* What an expression of a list says is a sequence of communications. *)
LEMMA SaysWritten ==
  ASSUME NEW c \in Choreos, NEW e \in Expr, NEW env \in Env
  PROVE  Says(Written(c), e, env) \in Seq(Communication)
<1>1. e.tag # "com" => \A en \in Env : Written(c)[<<e.body, en>>] \in Seq(Communication)
  BY BodyTyped, WrittenTyped
<1>. QED
  BY <1>1, SaysTyped

(* What is left of a list is what stands next, then what is left after it. *)
LEMMA ListRestUnfolds ==
  ASSUME NEW c \in Choreos, NEW l \in ListId, NEW env \in Env, NEW i \in Nat \ {0}
  PROVE  /\ ListRest(c, l, i, env) \in Seq(Communication)
         /\ i > Len(c.lists[l]) => ListRest(c, l, i, env) = << >>
         /\ i <= Len(c.lists[l]) =>
              ListRest(c, l, i, env)
                = Says(Written(c), c.lists[l][i], env) \o ListRest(c, l, i + 1, env)
         /\ ListRest(c, l, 1, env) = Written(c)[<<l, env>>]
<1>1. PICK s \in Seq(Expr) : s = c.lists[l]
  BY Ranked
<1>2. PICK n \in Int : n = Len(s) + 1 - i
  <2>1. Len(s) + 1 - i \in Int
    OBVIOUS
  <2>. QED
    BY <2>1
<1>. DEFINE f == [j \in 1 .. n |-> Says(Written(c), s[i + j - 1], env)]
            g == [j \in 1 .. n - 1 |-> Says(Written(c), s[(i + 1) + j - 1], env)]
<1>3. ListRest(c, l, i, env) = FlattenSeq(f)
  BY <1>1, <1>2 DEF ListRest
<1>4. ListRest(c, l, i + 1, env) = FlattenSeq(g)
  <2>1. Len(s) + 1 - (i + 1) = n - 1
    BY <1>2
  <2>. QED
    BY <1>1, <2>1 DEF ListRest
<1>5. f \in [1 .. n -> Seq(Communication)]
  <2>1. ASSUME NEW j \in 1 .. n PROVE Says(Written(c), s[i + j - 1], env) \in Seq(Communication)
    <3>1. i + j - 1 \in 1 .. Len(s)
      BY <1>2
    <3>2. s[i + j - 1] \in Expr
      BY <3>1
    <3>. QED
      BY <3>2, SaysWritten
  <2>. QED
    BY <2>1
<1>6. g \in [1 .. n - 1 -> Seq(Communication)] /\ \A j \in 1 .. n - 1 : g[j] = f[j + 1]
  <2>1. \A j \in 1 .. n - 1 : (i + 1) + j - 1 = i + (j + 1) - 1 /\ j + 1 \in 1 .. n
    OBVIOUS
  <2>2. \A j \in 1 .. n - 1 : g[j] = f[j + 1]
    BY <2>1
  <2>3. \A j \in 1 .. n : f[j] \in Seq(Communication)
    BY <1>5
  <2>. QED
    BY <2>1, <2>2, <2>3
<1>7. n > 0 => f[1] = Says(Written(c), s[i], env)
  <2>1. n > 0 => 1 \in 1 .. n /\ i + 1 - 1 = i
    OBVIOUS
  <2>. QED
    BY <2>1
<1>8. ListRest(c, l, 1, env) = Written(c)[<<l, env>>]
  <2>1. Len(s) + 1 - 1 = Len(s) /\ DOMAIN s = 1 .. Len(s) /\ \A j \in 1 .. Len(s) : 1 + j - 1 = j
    OBVIOUS
  <2>2. [j \in 1 .. Len(s) + 1 - 1 |-> Says(Written(c), s[1 + j - 1], env)]
          = [j \in DOMAIN s |-> Says(Written(c), s[j], env)]
    BY <2>1
  <2>. QED
    BY <1>1, <2>2, WrittenUnfolds, SMTT(20) DEF ListRest, ListSays
<1>. HIDE DEF f, g
<1>9. /\ FlattenSeq(f) \in Seq(Communication)
      /\ n <= 0 => FlattenSeq(f) = << >>
      /\ n > 0 => FlattenSeq(f) = f[1] \o FlattenSeq(g)
  <2>1. FlattenSeq(f) \in Seq(Communication)
    BY <1>5, FlattenTyped
  <2>2. n <= 0 => FlattenSeq(f) = << >>
    BY <1>5, <1>6, FlattenInterval
  <2>3. ASSUME NEW a \in [1 .. n -> Seq(Communication)], NEW b \in [1 .. n - 1 -> Seq(Communication)],
               \A j \in 1 .. n - 1 : b[j] = a[j + 1], n > 0
        PROVE  FlattenSeq(a) = a[1] \o FlattenSeq(b)
    BY <2>3, FlattenInterval, ZenonT(40)
  <2>. QED
    BY <1>5, <1>6, <2>1, <2>2, <2>3
<1>10. (i > Len(s) => n <= 0) /\ (i <= Len(s) => n > 0)
  BY <1>2
<1>. QED
  BY <1>1, <1>3, <1>4, <1>7, <1>8, <1>9, <1>10

(* What is left of a loop is one turn, then what is left after it. *)
LEMMA TurnsUnfold ==
  ASSUME NEW c \in Choreos, NEW l \in ListId, NEW x \in Id, NEW outer \in Env,
         NEW v \in Nat, NEW m \in SizeT
  PROVE  /\ Turns(c, l, x, outer, v, m) \in Seq(Communication)
         /\ v > m => Turns(c, l, x, outer, v, m) = << >>
         /\ v <= m => Turns(c, l, x, outer, v, m)
                        = Written(c)[<<l, Bind(outer, x, v)>>] \o Turns(c, l, x, outer, v + 1, m)
<1>1. m \in Nat /\ m <= SizeMax /\ SizeMax \in Nat
  BY SizeAssumption DEF SizeT
<1>2. PICK n \in Int : n = m + 1 - v
  BY <1>1
<1>. DEFINE f == [j \in 1 .. n |-> Written(c)[<<l, Bind(outer, x, v + j - 1)>>]]
            g == [j \in 1 .. n - 1 |-> Written(c)[<<l, Bind(outer, x, (v + 1) + j - 1)>>]]
<1>3. Turns(c, l, x, outer, v, m) = FlattenSeq(f)
  BY <1>2 DEF Turns
<1>4. Turns(c, l, x, outer, v + 1, m) = FlattenSeq(g)
  <2>1. m + 1 - (v + 1) = n - 1
    BY <1>1, <1>2
  <2>. QED
    BY <2>1 DEF Turns
<1>5. f \in [1 .. n -> Seq(Communication)]
  <2>1. ASSUME NEW j \in 1 .. n
        PROVE  Written(c)[<<l, Bind(outer, x, v + j - 1)>>] \in Seq(Communication)
    <3>1. v + j - 1 \in SizeT
      BY <1>1, <1>2 DEF SizeT
    <3>2. Bind(outer, x, v + j - 1) \in Env
      BY <3>1, BindInEnv
    <3>. QED
      BY <3>2, WrittenTyped
  <2>. QED
    BY <2>1
<1>6. g \in [1 .. n - 1 -> Seq(Communication)] /\ \A j \in 1 .. n - 1 : g[j] = f[j + 1]
  <2>1. \A j \in 1 .. n - 1 : (v + 1) + j - 1 = v + (j + 1) - 1 /\ j + 1 \in 1 .. n
    OBVIOUS
  <2>2. \A j \in 1 .. n - 1 : g[j] = f[j + 1]
    BY <2>1
  <2>3. \A j \in 1 .. n : f[j] \in Seq(Communication)
    BY <1>5
  <2>. QED
    BY <2>1, <2>2, <2>3
<1>7. n > 0 => f[1] = Written(c)[<<l, Bind(outer, x, v)>>]
  <2>1. n > 0 => 1 \in 1 .. n /\ v + 1 - 1 = v
    OBVIOUS
  <2>. QED
    BY <2>1
<1>. HIDE DEF f, g
<1>8. /\ FlattenSeq(f) \in Seq(Communication)
      /\ n <= 0 => FlattenSeq(f) = << >>
      /\ n > 0 => FlattenSeq(f) = f[1] \o FlattenSeq(g)
  <2>1. FlattenSeq(f) \in Seq(Communication)
    BY <1>5, FlattenTyped
  <2>2. n <= 0 => FlattenSeq(f) = << >>
    BY <1>5, <1>6, FlattenInterval
  <2>3. ASSUME NEW a \in [1 .. n -> Seq(Communication)], NEW b \in [1 .. n - 1 -> Seq(Communication)],
               \A j \in 1 .. n - 1 : b[j] = a[j + 1], n > 0
        PROVE  FlattenSeq(a) = a[1] \o FlattenSeq(b)
    BY <2>3, FlattenInterval
  <2>. QED
    BY <1>5, <1>6, <2>1, <2>2, <2>3
<1>9. (v > m => n <= 0) /\ (v <= m => n > 0)
  BY <1>1, <1>2
<1>. QED
  BY <1>3, <1>4, <1>7, <1>8, <1>9

(* Types of what a frame has in scope and to come. *)
LEMMA RestTyped ==
  ASSUME NEW c \in Choreos, NEW f \in Frame, NEW outer \in Env
  PROVE  /\ ScopeIn(f, outer) \in Env
         /\ Rest(c, f, outer) \in Seq(Communication)
<1>1. /\ f.list \in ListId /\ f.pos \in Nat \ {0} /\ f.var \in Id \cup {NoId}
      /\ f.el \in SizeT /\ f.max \in SizeT
  BY DEF Frame
<1>2. ScopeIn(f, outer) \in Env
  BY <1>1, BindInEnv DEF ScopeIn
<1>3. f.el + 1 \in Nat
  BY <1>1, SizeAssumption DEF SizeT
<1>. DEFINE turns == IF f.var = NoId THEN << >> ELSE Turns(c, f.list, f.var, outer, f.el + 1, f.max)
            rest == ListRest(c, f.list, f.pos, ScopeIn(f, outer))
<1>4. turns \in Seq(Communication)
  <2>1. CASE f.var = NoId
    BY <2>1
  <2>2. CASE f.var # NoId
    BY <1>1, <1>3, <2>2, TurnsUnfold
  <2>. QED
    BY <2>1, <2>2
<1>5. rest \in Seq(Communication)
  BY <1>1, <1>2, ListRestUnfolds
<1>6. Rest(c, f, outer) = rest \o turns
  BY DEF Rest
<1>. HIDE DEF rest, turns
<1>. QED
  BY <1>2, <1>4, <1>5, <1>6

(* An expression passed: what it says is no longer to come. *)
Past(f) == [f EXCEPT !.pos = @ + 1]

(* A frame says what stands at its position, then what the next position   *)
(* says.                                                                   *)
LEMMA RestPast ==
  ASSUME NEW c \in Choreos, NEW f \in Frame, NEW outer \in Env, f.pos <= Len(c.lists[f.list])
  PROVE  /\ Past(f) \in Frame
         /\ ScopeIn(Past(f), outer) = ScopeIn(f, outer)
         /\ InBounds(f) => InBounds(Past(f))
         /\ Rest(c, f, outer) = Says(Written(c), c.lists[f.list][f.pos], ScopeIn(f, outer))
                                  \o Rest(c, Past(f), outer)
<1>1. /\ f.list \in ListId /\ f.pos \in Nat \ {0} /\ f.var \in Id \cup {NoId}
      /\ f.el \in SizeT /\ f.max \in SizeT
  BY DEF Frame
<1>2. /\ Past(f) \in Frame /\ Past(f).list = f.list /\ Past(f).pos = f.pos + 1
      /\ Past(f).var = f.var /\ Past(f).el = f.el /\ Past(f).max = f.max
  BY DEF Past, Frame
<1>3. ScopeIn(Past(f), outer) = ScopeIn(f, outer) /\ (InBounds(f) => InBounds(Past(f)))
  BY <1>2 DEF ScopeIn, InBounds
<1>. DEFINE turns == IF f.var = NoId THEN << >> ELSE Turns(c, f.list, f.var, outer, f.el + 1, f.max)
            env == ScopeIn(f, outer)
            says == Says(Written(c), c.lists[f.list][f.pos], env)
            rest == ListRest(c, f.list, f.pos + 1, env)
<1>4. env \in Env
  BY RestTyped
<1>5. says \in Seq(Communication) /\ rest \in Seq(Communication)
  <2>1. c.lists[f.list] \in Seq(Expr)
    BY <1>1, Ranked
  <2>2. c.lists[f.list][f.pos] \in Expr
    BY <1>1, <2>1
  <2>3. f.pos + 1 \in Nat \ {0}
    BY <1>1
  <2>. HIDE DEF env
  <2>4. says \in Seq(Communication)
    BY <1>4, <2>2, SaysWritten
  <2>5. rest \in Seq(Communication)
    BY <1>1, <1>4, <2>3, ListRestUnfolds
  <2>. QED
    BY <2>4, <2>5
<1>6. turns \in Seq(Communication)
  <2>1. CASE f.var = NoId
    BY <2>1
  <2>2. CASE f.var # NoId
    <3>1. f.el + 1 \in Nat
      BY <1>1, SizeAssumption DEF SizeT
    <3>. QED
      BY <1>1, <2>2, <3>1, TurnsUnfold
  <2>. QED
    BY <2>1, <2>2
<1>7. ListRest(c, f.list, f.pos, env) = says \o rest
  BY <1>1, <1>4, ListRestUnfolds
<1>8. Rest(c, f, outer) = (says \o rest) \o turns
  BY <1>7 DEF Rest
<1>9. Rest(c, Past(f), outer) = rest \o turns
  BY <1>2, <1>3 DEF Rest
<1>. HIDE DEF turns, says, rest
<1>10. (says \o rest) \o turns = says \o (rest \o turns)
  BY <1>5, <1>6, Assoc
<1>. QED
  BY <1>2, <1>3, <1>8, <1>9, <1>10 DEF says

(* A list just entered has all it says to come. *)
LEMMA RestVisiting ==
  ASSUME NEW c \in Choreos, NEW l \in ListId, NEW env \in Env
  PROVE  /\ Visiting(l) \in Frame /\ InBounds(Visiting(l))
         /\ ScopeIn(Visiting(l), env) = env
         /\ Rest(c, Visiting(l), env) = Written(c)[<<l, env>>]
<1>1. /\ Visiting(l).list = l /\ Visiting(l).pos = 1 /\ Visiting(l).var = NoId
      /\ Visiting(l).el = 0 /\ Visiting(l).max = 0
  BY DEF Visiting, Pass
<1>2. Visiting(l) \in Frame
  BY SizeAssumption DEF Visiting, Pass, Frame, SizeT
<1>3. ListRest(c, l, 1, env) = Written(c)[<<l, env>>]
  BY ListRestUnfolds
<1>4. Written(c)[<<l, env>>] \in Seq(Communication)
  BY WrittenTyped
<1>5. Written(c)[<<l, env>>] \o << >> = Written(c)[<<l, env>>]
  BY <1>4, ConcatEmptySeq
<1>. QED
  BY <1>1, <1>2, <1>3, <1>5 DEF ScopeIn, InBounds, Rest

(* So has a loop just entered, if its bounds are plain. *)
PlainIter(it) ==
  /\ Upper[it.over] < SizeMax
  /\ \/ it.kind = ":" /\ Lower[it.over] <= Upper[it.over]
     \/ it.kind = "<" /\ Lower[it.over] < Upper[it.over]

(* A plain loop's bounds in size_t are those of the reference definition. *)
LEMMA PlainBounds ==
  ASSUME NEW it \in Iteration, PlainIter(it)
  PROVE  /\ From(it) = min(it)
         /\ Rounds(it) = max(it) + 1 - min(it)
         /\ min(it) <= max(it)
<1>1. /\ Lower[it.over] \in Nat /\ Upper[it.over] \in Nat
  BY SizeAssumption DEF Iteration, SizeT
<1>2. CASE it.kind = ":" /\ Lower[it.over] <= Upper[it.over]
  BY <1>1, <1>2 DEF From, Rounds, min, max
<1>3. CASE it.kind = "<" /\ Lower[it.over] < Upper[it.over]
  <2>1. max(it) = Upper[it.over] - 1 /\ min(it) = Lower[it.over] /\ From(it) = Lower[it.over]
    BY <1>1, <1>3 DEF max, min, From, Predecessor
  <2>2. Rounds(it) = Upper[it.over] - Lower[it.over]
    BY <1>1, <1>3 DEF Rounds
  <2>. QED
    BY <1>1, <1>3, <2>1, <2>2
<1>. QED
  BY <1>2, <1>3 DEF PlainIter

(* A loop just entered has all its turns to come. *)
LEMMA RestEntered ==
  ASSUME NEW c \in Choreos, NEW e \in ForEachExpr, NEW env \in Env, PlainIter(e.iter),
         NEW f, f = Pass(e.body, e.iter.var, min(e.iter), max(e.iter))
  PROVE  /\ f \in Frame /\ InBounds(f)
         /\ ScopeIn(f, env) = Bind(env, e.iter.var, min(e.iter))
         /\ Rest(c, f, env) = Says(Written(c), e, env)
<1>. DEFINE it == e.iter
            v == min(it)
            m == max(it)
<1>1. e.body \in ListId /\ it \in Iteration /\ it.var \in Id /\ it.var # NoId /\ e.tag = "forEach"
  BY SizeAssumption DEF ForEachExpr, Iteration
<1>2. v \in SizeT /\ m \in SizeT
  BY <1>1, BoundsTyped
<1>3. From(it) = v /\ Rounds(it) = m + 1 - v /\ v <= m
  BY <1>1, PlainBounds
<1>4. f.list = e.body /\ f.pos = 1 /\ f.var = it.var /\ f.el = v /\ f.max = m
  BY DEF Pass
<1>5. f \in Frame
  BY <1>1, <1>2 DEF Pass, Frame
<1>6. Says(Written(c), e, env) = Turns(c, e.body, it.var, env, v, m)
  <2>1. Says(Written(c), e, env)
          = FlattenSeq([n \in 1 .. Rounds(it) |-> Written(c)[<<e.body, Bind(env, it.var, From(it) + n - 1)>>]])
    BY <1>1 DEF Says
  <2>. HIDE DEF it, v, m
  <2>. QED
    BY <1>3, <2>1 DEF Turns
<1>7. v \in Nat
  BY <1>2, SizeAssumption DEF SizeT
<1>. HIDE DEF it, v, m
<1>8. Turns(c, e.body, it.var, env, v, m)
        = Written(c)[<<e.body, Bind(env, it.var, v)>>] \o Turns(c, e.body, it.var, env, v + 1, m)
  BY <1>1, <1>2, <1>3, <1>7, TurnsUnfold, ZenonT(40)
<1>9. Bind(env, it.var, v) \in Env
  BY <1>1, <1>2, BindInEnv
<1>10. ListRest(c, e.body, 1, Bind(env, it.var, v)) = Written(c)[<<e.body, Bind(env, it.var, v)>>]
  BY <1>1, <1>9, ListRestUnfolds
<1>11. ScopeIn(f, env) = Bind(env, it.var, v) /\ InBounds(f)
  BY <1>1, <1>3, <1>4 DEF ScopeIn, InBounds
<1>12. Rest(c, f, env) = ListRest(c, e.body, 1, Bind(env, it.var, v))
                           \o Turns(c, e.body, it.var, env, v + 1, m)
  BY <1>1, <1>4, <1>11 DEF Rest
<1>. QED
  BY <1>5, <1>6, <1>8, <1>10, <1>11, <1>12 DEF it, v

(* A round done, the next one is to come, or nothing. *)
LEMMA RestRound ==
  ASSUME NEW c \in Choreos, NEW f \in Frame, NEW outer \in Env, InBounds(f),
         f.pos > Len(c.lists[f.list]), f.var # NoId, f.el # f.max,
         NEW g, g = Pass(f.list, f.var, Successor(f.el), f.max)
  PROVE  /\ g \in Frame /\ InBounds(g)
         /\ ScopeIn(g, outer) = Bind(outer, f.var, Successor(f.el))
         /\ DOMAIN ScopeIn(g, outer) = DOMAIN ScopeIn(f, outer)
         /\ Rest(c, g, outer) = Rest(c, f, outer)
<1>1. /\ f.list \in ListId /\ f.pos \in Nat \ {0} /\ f.var \in Id
      /\ f.el \in SizeT /\ f.max \in SizeT
  BY DEF Frame
<1>. DEFINE v == f.el + 1
<1>2. Successor(f.el) = v /\ v \in SizeT /\ v \in Nat /\ v <= f.max
  BY <1>1, SizeAssumption DEF Successor, SizeT, InBounds
<1>3. g.list = f.list /\ g.pos = 1 /\ g.var = f.var /\ g.el = v /\ g.max = f.max
  BY <1>2 DEF Pass
<1>. HIDE DEF v
<1>4. g \in Frame /\ InBounds(g)
  BY <1>1, <1>2, <1>3 DEF Pass, Frame, InBounds
<1>5. ScopeIn(g, outer) = Bind(outer, f.var, v) /\ ScopeIn(f, outer) = Bind(outer, f.var, f.el)
  BY <1>3 DEF ScopeIn
<1>6. DOMAIN ScopeIn(g, outer) = DOMAIN ScopeIn(f, outer)
  BY <1>5 DEF Bind
<1>7. Bind(outer, f.var, v) \in Env /\ ScopeIn(f, outer) \in Env
  BY <1>1, <1>2, BindInEnv, RestTyped
<1>. DEFINE turns == Turns(c, f.list, f.var, outer, v, f.max)
<1>8. turns \in Seq(Communication)
      /\ turns = Written(c)[<<f.list, Bind(outer, f.var, v)>>]
                   \o Turns(c, f.list, f.var, outer, v + 1, f.max)
  <2>1. v \in Nat /\ f.max \in SizeT /\ v <= f.max
    BY <1>1, <1>2
  <2>2. PICK l \in ListId, x \in Id, m \in SizeT : l = f.list /\ x = f.var /\ m = f.max
    BY <1>1
  <2>3. v \in Nat /\ v <= m
    BY <2>1, <2>2
  <2>4. /\ Turns(c, l, x, outer, v, m) \in Seq(Communication)
        /\ Turns(c, l, x, outer, v, m)
             = Written(c)[<<l, Bind(outer, x, v)>>] \o Turns(c, l, x, outer, v + 1, m)
    BY <2>3, TurnsUnfold, Zenon
  <2>. QED
    BY <2>2, <2>4
<1>9. ListRest(c, f.list, 1, Bind(outer, f.var, v)) = Written(c)[<<f.list, Bind(outer, f.var, v)>>]
  BY <1>1, <1>7, ListRestUnfolds
<1>10. Rest(c, g, outer) = turns
  BY <1>3, <1>5, <1>8, <1>9 DEF Rest
<1>11. ListRest(c, f.list, f.pos, ScopeIn(f, outer)) = << >>
  BY <1>1, <1>7, ListRestUnfolds
<1>12. Rest(c, f, outer) = << >> \o turns
  BY <1>11 DEF Rest, v
<1>. HIDE DEF turns
<1>13. << >> \o turns = turns
  BY <1>8, ConcatEmptySeq
<1>. QED
  BY <1>2, <1>4, <1>5, <1>6, <1>10, <1>12, <1>13

(* A frame at its end, in its last turn, has nothing to come. *)
LEMMA RestLeft ==
  ASSUME NEW c \in Choreos, NEW f \in Frame, NEW outer \in Env,
         f.pos > Len(c.lists[f.list]), f.var # NoId => f.el = f.max
  PROVE  Rest(c, f, outer) = << >>
<1>1. /\ f.list \in ListId /\ f.pos \in Nat \ {0} /\ f.var \in Id \cup {NoId}
      /\ f.el \in SizeT /\ f.max \in SizeT
  BY DEF Frame
<1>2. ScopeIn(f, outer) \in Env
  BY RestTyped
<1>3. ListRest(c, f.list, f.pos, ScopeIn(f, outer)) = << >>
  BY <1>1, <1>2, ListRestUnfolds
<1>4. f.var # NoId => Turns(c, f.list, f.var, outer, f.el + 1, f.max) = << >>
  <2>1. f.el + 1 \in Nat /\ f.var # NoId => f.el + 1 > f.max
    BY <1>1, SizeAssumption DEF SizeT
  <2>2. f.el + 1 \in Nat
    BY <1>1, SizeAssumption DEF SizeT
  <2>. QED
    BY <1>1, <2>1, <2>2, TurnsUnfold, ZenonT(40)
<1>. QED
  BY <1>3, <1>4 DEF Rest

----------------------------------------------------------------------------
(***************************************************************************)
(* A stack of frames explains an environment and a text to come: scope[i]  *)
(* is what the identifiers mean in frame i, and tails[i] what frames i     *)
(* down to 1 still have to say.                                            *)
(***************************************************************************)
ExplainedBy(c, stk, scope, tails) ==
  /\ scope \in [0 .. Len(stk) -> Env]
  /\ tails \in [0 .. Len(stk) -> Seq(Communication)]
  /\ scope[0] = Empty
  /\ tails[0] = << >>
  /\ \A i \in 1 .. Len(stk) :
       /\ InBounds(stk[i])
       /\ scope[i] = ScopeIn(stk[i], scope[i - 1])
       /\ tails[i] = Rest(c, stk[i], scope[i - 1]) \o tails[i - 1]
       /\ \A x \in DOMAIN scope[i] : \E j \in 1 .. i : stk[j].var = x

Explains(c, stk, env, tail) ==
  \E scope, tails : /\ ExplainedBy(c, stk, scope, tails)
                    /\ env = scope[Len(stk)]
                    /\ tail = tails[Len(stk)]

(* The empty stack has nothing in scope and nothing to come. *)
LEMMA ExplainsNone ==
  ASSUME NEW c \in Choreos
  PROVE  Explains(c, << >>, Empty, << >>)
<1>. DEFINE scope == [i \in 0 .. 0 |-> Empty]
            tails == [i \in 0 .. 0 |-> << >>]
<1>1. Len(<< >>) = 0
  OBVIOUS
<1>2. scope \in [0 .. 0 -> Env] /\ scope[0] = Empty
  BY EnvIsMap
<1>3. tails \in [0 .. 0 -> Seq(Communication)] /\ tails[0] = << >>
  OBVIOUS
<1>4. 1 .. 0 = {}
  OBVIOUS
<1>. HIDE DEF scope, tails
<1>5. ExplainedBy(c, << >>, scope, tails)
  BY <1>1, <1>2, <1>3, <1>4 DEF ExplainedBy
<1>. QED
  BY <1>1, <1>2, <1>3, <1>5 DEF Explains

(* What is explained is an environment of the frames' identifiers, and a   *)
(* text.                                                                   *)
LEMMA ExplainsTyped ==
  ASSUME NEW c \in Choreos, NEW stk \in Seq(Frame), NEW env, NEW tail, Explains(c, stk, env, tail)
  PROVE  /\ env \in Env
         /\ tail \in Seq(Communication)
         /\ Len(stk) = 0 => tail = << >>
         /\ stk # << >> => \A x \in DOMAIN env : \E j \in 1 .. Len(stk) : stk[j].var = x
<1>1. PICK scope, tails : /\ ExplainedBy(c, stk, scope, tails)
                          /\ env = scope[Len(stk)]
                          /\ tail = tails[Len(stk)]
  BY DEF Explains
<1>2. /\ Len(stk) \in Nat /\ Len(stk) \in 0 .. Len(stk)
      /\ stk # << >> => Len(stk) \in 1 .. Len(stk)
  OBVIOUS
<1>3. scope[Len(stk)] \in Env /\ tails[Len(stk)] \in Seq(Communication)
  BY <1>1, <1>2 DEF ExplainedBy
<1>4. Len(stk) = 0 => tails[Len(stk)] = << >>
  BY <1>1, <1>2 DEF ExplainedBy
<1>5. ASSUME stk # << >>, NEW x \in DOMAIN scope[Len(stk)]
      PROVE  \E j \in 1 .. Len(stk) : stk[j].var = x
  BY <1>1, <1>2, <1>5 DEF ExplainedBy
<1>. QED
  BY <1>1, <1>3, <1>4, <1>5

(* A frame more has its own identifier in scope, and says its rest first. *)
LEMMA ExplainsPush ==
  ASSUME NEW c \in Choreos, NEW stk \in Seq(Frame), NEW env, NEW tail, Explains(c, stk, env, tail),
         NEW f \in Frame, InBounds(f)
  PROVE  Explains(c, Append(stk, f), ScopeIn(f, env), Rest(c, f, env) \o tail)
<1>1. PICK scope, tails : /\ ExplainedBy(c, stk, scope, tails)
                          /\ env = scope[Len(stk)]
                          /\ tail = tails[Len(stk)]
  BY DEF Explains
<1>2. PICK n \in Nat : n = Len(stk)
  OBVIOUS
<1>3. PICK longer \in Seq(Frame) : longer = Append(stk, f)
  <2>1. Append(stk, f) \in Seq(Frame)
    OBVIOUS
  <2>. QED
    BY <2>1
<1>4. /\ Len(longer) = n + 1 /\ longer[n + 1] = f /\ \A i \in 1 .. n : longer[i] = stk[i]
  BY <1>2, <1>3
<1>5. env \in Env /\ tail \in Seq(Communication)
  BY ExplainsTyped
<1>6. ScopeIn(f, env) \in Env /\ Rest(c, f, env) \in Seq(Communication)
  BY <1>5, RestTyped
<1>7. PICK more \in Seq(Communication) : more = Rest(c, f, env) \o tail
  <2>1. Rest(c, f, env) \o tail \in Seq(Communication)
    BY <1>5, <1>6
  <2>. QED
    BY <2>1
<1>. DEFINE sc == [i \in 0 .. n + 1 |-> IF i = n + 1 THEN ScopeIn(f, env) ELSE scope[i]]
            ta == [i \in 0 .. n + 1 |-> IF i = n + 1 THEN more ELSE tails[i]]
<1>8. \A i \in 0 .. n : scope[i] \in Env /\ tails[i] \in Seq(Communication)
  BY <1>1, <1>2 DEF ExplainedBy
<1>9. /\ sc \in [0 .. n + 1 -> Env] /\ sc[n + 1] = ScopeIn(f, env)
      /\ \A i \in 0 .. n : sc[i] = scope[i]
  <2>1. \A i \in 0 .. n + 1 : i # n + 1 => i \in 0 .. n
    OBVIOUS
  <2>2. \A i \in 0 .. n : i \in 0 .. n + 1 /\ i # n + 1
    OBVIOUS
  <2>. QED
    BY <1>6, <1>8, <2>1, <2>2
<1>10. /\ ta \in [0 .. n + 1 -> Seq(Communication)] /\ ta[n + 1] = more
       /\ \A i \in 0 .. n : ta[i] = tails[i]
  <2>1. \A i \in 0 .. n + 1 : i # n + 1 => i \in 0 .. n
    OBVIOUS
  <2>2. \A i \in 0 .. n : i \in 0 .. n + 1 /\ i # n + 1
    OBVIOUS
  <2>. QED
    BY <1>8, <2>1, <2>2
<1>. HIDE DEF sc, ta
<1>11. sc[0] = Empty /\ ta[0] = << >>
  BY <1>1, <1>9, <1>10 DEF ExplainedBy
<1>12. ASSUME NEW i \in 1 .. n + 1
       PROVE  /\ InBounds(longer[i])
              /\ sc[i] = ScopeIn(longer[i], sc[i - 1])
              /\ ta[i] = Rest(c, longer[i], sc[i - 1]) \o ta[i - 1]
              /\ \A x \in DOMAIN sc[i] : \E j \in 1 .. i : longer[j].var = x
  <2>1. CASE i \in 1 .. n
    <3>1. i - 1 \in 0 .. n /\ i \in 0 .. n
      BY <2>1
    <3>2. /\ InBounds(stk[i])
          /\ scope[i] = ScopeIn(stk[i], scope[i - 1])
          /\ tails[i] = Rest(c, stk[i], scope[i - 1]) \o tails[i - 1]
          /\ \A x \in DOMAIN scope[i] : \E j \in 1 .. i : stk[j].var = x
      BY <1>1, <1>2, <2>1 DEF ExplainedBy
    <3>3. \A j \in 1 .. i : longer[j] = stk[j]
      BY <1>4, <2>1
    <3>4. longer[i] = stk[i]
      BY <1>4, <2>1
    <3>5. /\ sc[i] = scope[i] /\ sc[i - 1] = scope[i - 1]
          /\ ta[i] = tails[i] /\ ta[i - 1] = tails[i - 1]
      BY <1>9, <1>10, <3>1
    <3>. QED
      BY <3>2, <3>3, <3>4, <3>5
  <2>2. CASE i = n + 1
    <3>1. n \in 0 .. n /\ i - 1 = n
      BY <2>2
    <3>2. sc[i - 1] = env /\ ta[i - 1] = tail /\ longer[i] = f
      BY <1>1, <1>2, <1>4, <1>9, <1>10, <2>2, <3>1
    <3>3. ASSUME NEW x \in DOMAIN ScopeIn(f, env) PROVE \E j \in 1 .. n + 1 : longer[j].var = x
      <4>1. CASE x = f.var
        BY <1>4, <4>1
      <4>2. CASE x # f.var
        <5>1. x \in DOMAIN env
          BY <4>2 DEF ScopeIn, Bind
        <5>2. stk # << >>
          <6>1. n = 0 => env = Empty
            BY <1>1, <1>2 DEF ExplainedBy
          <6>. QED
            BY <1>2, <5>1, <6>1, EnvIsMap
        <5>3. PICK j \in 1 .. n : stk[j].var = x
          BY <1>2, <5>1, <5>2, ExplainsTyped
        <5>. QED
          BY <1>4, <5>3
      <4>. QED
        BY <4>1, <4>2
    <3>. QED
      BY <1>7, <1>9, <1>10, <2>2, <3>2, <3>3
  <2>3. i \in 1 .. n \/ i = n + 1
    OBVIOUS
  <2>. QED
    BY <2>1, <2>2, <2>3, Zenon
<1>13. ExplainedBy(c, longer, sc, ta)
  BY <1>4, <1>9, <1>10, <1>11, <1>12 DEF ExplainedBy
<1>14. Explains(c, longer, ScopeIn(f, env), more)
  BY <1>4, <1>9, <1>10, <1>13 DEF Explains
<1>. QED
  BY <1>3, <1>7, <1>14

(* The frames below the innermost one explain what it does not. *)
Under(stk) == SubSeq(stk, 1, Len(stk) - 1)
Innermost(stk) == stk[Len(stk)]

Splits(c, stk, env, tail, outer, rest) ==
  /\ Explains(c, Under(stk), outer, rest)
  /\ InBounds(Innermost(stk))
  /\ env = ScopeIn(Innermost(stk), outer)
  /\ tail = Rest(c, Innermost(stk), outer) \o rest

LEMMA ExplainsPop ==
  ASSUME NEW c \in Choreos, NEW stk \in Seq(Frame), stk # << >>,
         NEW env, NEW tail, Explains(c, stk, env, tail)
  PROVE  \E outer \in Env, rest \in Seq(Communication) : Splits(c, stk, env, tail, outer, rest)
<1>1. PICK scope, tails : /\ ExplainedBy(c, stk, scope, tails)
                          /\ env = scope[Len(stk)]
                          /\ tail = tails[Len(stk)]
  BY DEF Explains
<1>2. PICK n \in Nat : n + 1 = Len(stk)
  <2>1. Len(stk) - 1 \in Nat
    OBVIOUS
  <2>. QED
    BY <2>1
<1>3. PICK shorter \in Seq(Frame) : shorter = SubSeq(stk, 1, Len(stk) - 1)
  <2>1. SubSeq(stk, 1, Len(stk) - 1) \in Seq(Frame)
    BY <1>2
  <2>. QED
    BY <2>1
<1>4. Len(shorter) = n /\ \A i \in 1 .. n : shorter[i] = stk[i]
  BY <1>2, <1>3
<1>. DEFINE sc == [i \in 0 .. n |-> scope[i]]
            ta == [i \in 0 .. n |-> tails[i]]
<1>5. \A i \in 0 .. n : scope[i] \in Env /\ tails[i] \in Seq(Communication)
  BY <1>1, <1>2 DEF ExplainedBy
<1>6. /\ sc \in [0 .. n -> Env] /\ ta \in [0 .. n -> Seq(Communication)]
      /\ \A i \in 0 .. n : sc[i] = scope[i] /\ ta[i] = tails[i]
  BY <1>5
<1>. HIDE DEF sc, ta
<1>7. sc[0] = Empty /\ ta[0] = << >>
  BY <1>1, <1>6 DEF ExplainedBy
<1>8. ASSUME NEW i \in 1 .. n
      PROVE  /\ InBounds(shorter[i])
             /\ sc[i] = ScopeIn(shorter[i], sc[i - 1])
             /\ ta[i] = Rest(c, shorter[i], sc[i - 1]) \o ta[i - 1]
             /\ \A x \in DOMAIN sc[i] : \E j \in 1 .. i : shorter[j].var = x
  <2>1. i - 1 \in 0 .. n /\ i \in 0 .. n /\ i \in 1 .. Len(stk)
    BY <1>2
  <2>2. /\ InBounds(stk[i])
        /\ scope[i] = ScopeIn(stk[i], scope[i - 1])
        /\ tails[i] = Rest(c, stk[i], scope[i - 1]) \o tails[i - 1]
        /\ \A x \in DOMAIN scope[i] : \E j \in 1 .. i : stk[j].var = x
    BY <1>1, <2>1 DEF ExplainedBy
  <2>3. \A j \in 1 .. i : shorter[j] = stk[j]
    BY <1>4
  <2>4. shorter[i] = stk[i]
    BY <1>4
  <2>. QED
    BY <1>6, <2>1, <2>2, <2>3, <2>4
<1>9. ExplainedBy(c, shorter, sc, ta)
  BY <1>4, <1>6, <1>7, <1>8 DEF ExplainedBy
<1>10. n \in 0 .. n /\ n + 1 \in 1 .. Len(stk) /\ (n + 1) - 1 = n
  BY <1>2
<1>11. Explains(c, shorter, scope[n], tails[n])
  BY <1>4, <1>6, <1>9, <1>10 DEF Explains
<1>12. /\ InBounds(stk[n + 1])
       /\ scope[n + 1] = ScopeIn(stk[n + 1], scope[n])
       /\ tails[n + 1] = Rest(c, stk[n + 1], scope[n]) \o tails[n]
  BY <1>1, <1>10 DEF ExplainedBy
<1>. QED
  BY <1>1, <1>2, <1>3, <1>5, <1>10, <1>11, <1>12 DEF Under, Innermost, Splits

----------------------------------------------------------------------------
(***************************************************************************)
(* What has been said so far, and the lists of the participants.           *)
(***************************************************************************)
Act == [kind : {"send", "receive"}, channel : Channel, index : Number, type : Type]

ActOf(kind, com) ==
  [kind |-> kind, channel |-> com.channel, index |-> com.index, type |-> com.type]

(* One communication more adds what the participant does in it. *)
LEMMA DoesMore ==
  ASSUME NEW s \in Seq(Communication), NEW com \in Communication, NEW k
  PROVE  /\ Does(k, s) \in Seq(Act)
         /\ Part(k, com) \in Seq(Act)
         /\ Does(k, Append(s, com)) = Does(k, s) \o Part(k, com)
<1>1. ASSUME NEW e \in Communication PROVE Part(k, e) \in Seq(Act)
  <2>1. \A kind \in {"send", "receive"} : ActOf(kind, e) \in Act
    BY DEF ActOf, Act, Communication
  <2>. DEFINE a == IF e.from = k THEN <<ActOf("send", e)>> ELSE << >>
              b == IF e.to = k THEN <<ActOf("receive", e)>> ELSE << >>
  <2>2. Part(k, e) = a \o b
    BY DEF Part, ActOf
  <2>3. a \in Seq(Act) /\ b \in Seq(Act)
    BY <2>1
  <2>. HIDE DEF a, b
  <2>. QED
    BY <2>2, <2>3
<1>. DEFINE f == [i \in DOMAIN s |-> Part(k, s[i])]
            t == Append(s, com)
            g == [i \in DOMAIN t |-> Part(k, t[i])]
<1>2. f \in Seq(Seq(Act))
  <2>1. \A i \in DOMAIN s : Part(k, s[i]) \in Seq(Act)
    BY <1>1
  <2>2. DOMAIN s = 1 .. Len(s) /\ Len(s) \in Nat
    OBVIOUS
  <2>. QED
    BY <2>1, <2>2
<1>3. g = Append(f, Part(k, com))
  <2>1. DOMAIN t = 1 .. Len(s) + 1 /\ DOMAIN s = 1 .. Len(s) /\ Len(s) \in Nat
    OBVIOUS
  <2>2. (\A i \in 1 .. Len(s) : t[i] = s[i]) /\ t[Len(s) + 1] = com
    OBVIOUS
  <2>3. t \in Seq(Communication)
    OBVIOUS
  <2>4. \A i \in DOMAIN t : Part(k, t[i]) \in Seq(Act)
    BY <1>1, <2>3
  <2>5. g \in Seq(Seq(Act)) /\ Len(g) = Len(s) + 1
    BY <2>1, <2>4
  <2>6. Append(f, Part(k, com)) \in Seq(Seq(Act)) /\ Len(f) = Len(s)
        /\ Len(Append(f, Part(k, com))) = Len(s) + 1
    BY <1>1, <1>2, <2>1
  <2>7. ASSUME NEW i \in 1 .. Len(s) + 1 PROVE g[i] = Append(f, Part(k, com))[i]
    <3>1. CASE i \in 1 .. Len(s)
      <4>1. g[i] = Part(k, s[i]) /\ f[i] = Part(k, s[i])
        BY <2>1, <2>2, <3>1
      <4>. QED
        BY <1>2, <2>6, <3>1, <4>1
    <3>2. CASE i = Len(s) + 1
      <4>1. g[i] = Part(k, com)
        BY <2>1, <2>2, <3>2
      <4>. QED
        BY <1>2, <2>6, <3>2, <4>1
    <3>. QED
      BY <2>1, <3>1, <3>2
  <2>. HIDE DEF f, g
  <2>. QED
    BY <2>5, <2>6, <2>7, SeqEqual
<1>4. Does(k, s) = FlattenSeq(f) /\ Does(k, Append(s, com)) = FlattenSeq(g)
  BY DEF Does
<1>. HIDE DEF f, g
<1>5. Part(k, com) \in Seq(Act)
  BY <1>1
<1>6. FlattenSeq(f) \in Seq(Act)
  BY <1>2, FlattenType
<1>7. FlattenSeq(Append(f, Part(k, com))) = FlattenSeq(f) \o Part(k, com)
  BY <1>2, <1>5, FlattenLast
<1>. QED
  BY <1>3, <1>4, <1>5, <1>6, <1>7

(* The lists of map are what the participants do in text. *)
Recorded(text, map) ==
  /\ text \in Seq(Communication)
  /\ WellFormed(text)
  /\ DOMAIN map = ActingIn(text)
  /\ \A k : Does(k, text) = IF k \in DOMAIN map THEN map[k] ELSE << >>

(* Nothing said, no lists. *)
LEMMA RecordedNone == Recorded(<< >>, Empty)
<1>1. << >> \in Seq(Communication) /\ DOMAIN << >> = {}
  OBVIOUS
<1>2. WellFormed(<< >>) /\ ActingIn(<< >>) = {} /\ DOMAIN Empty = {}
  BY <1>1, EnvIsMap DEF WellFormed, ActingIn
<1>3. \A k : Does(k, << >>) = << >>
  <2>1. TAKE k
  <2>. DEFINE f == [i \in DOMAIN << >> |-> Part(k, << >>[i])]
  <2>2. f = << >> /\ << >> \in Seq(Seq(Act))
    BY <1>1
  <2>3. FlattenSeq(<< >>) = << >>
    BY <2>2, FlattenIs
  <2>. QED
    BY <2>2, <2>3 DEF Does
<1>. QED
  BY <1>1, <1>2, <1>3 DEF Recorded

(* Two elements appended, one at a time or both at once. *)
LEMMA TwoMore ==
  ASSUME NEW S, NEW s \in Seq(S), NEW a \in S, NEW b \in S
  PROVE  s \o (<<a>> \o <<b>>) = Append(Append(s, a), b)
<1>1. PICK t \in Seq(S) : t = <<a>>
  <2>1. <<a>> \in Seq(S)
    OBVIOUS
  <2>. QED
    BY <2>1
<1>2. PICK u \in Seq(S) : u = <<b>>
  <2>1. <<b>> \in Seq(S)
    OBVIOUS
  <2>. QED
    BY <2>1
<1>3. s \o (t \o u) = (s \o t) \o u
  <2>1. Associative(s, t, u)
    BY Assoc, Zenon
  <2>. QED
    BY <2>1 DEF Associative
<1>4. PICK v \in Seq(S) : v = Append(s, a)
  <2>1. Append(s, a) \in Seq(S)
    OBVIOUS
  <2>. QED
    BY <2>1
<1>5. s \o <<a>> = Append(s, a) /\ v \o <<b>> = Append(v, b)
  OBVIOUS
<1>. QED
  BY <1>1, <1>2, <1>3, <1>4, <1>5

(* VisitCom's two appends record one communication more. *)
LEMMA RecordedMore ==
  ASSUME NEW text, NEW map, Recorded(text, map), NEW com \in Communication,
         {com.from, com.to} \subseteq DeclaredKeys, com.index \in SizeT
  PROVE  Recorded(Append(text, com),
                  addProjection(addProjection(map, com.from, ActOf("send", com)),
                                com.to, ActOf("receive", com)))
<1>. DEFINE sent == addProjection(map, com.from, ActOf("send", com))
            both == addProjection(sent, com.to, ActOf("receive", com))
<1>1. PICK more \in Seq(Communication) : more = Append(text, com)
  <2>1. text \in Seq(Communication)
    BY DEF Recorded
  <2>2. Append(text, com) \in Seq(Communication)
    BY <2>1
  <2>. QED
    BY <2>2
<1>2. PICK n \in Nat : n = Len(text) /\ text \in Seq(Communication)
  BY DEF Recorded
<1>3. /\ DOMAIN text = 1 .. n /\ DOMAIN more = 1 .. n + 1 /\ more[n + 1] = com
      /\ \A i \in 1 .. n : more[i] = text[i]
  BY <1>1, <1>2
<1>4. WellFormed(more)
  <2>1. ASSUME NEW i \in DOMAIN more
        PROVE  {more[i].from, more[i].to} \subseteq DeclaredKeys /\ more[i].index \in SizeT
    <3>1. CASE i \in 1 .. n
      BY <1>3, <3>1 DEF Recorded, WellFormed
    <3>2. CASE i = n + 1
      BY <1>3, <3>2
    <3>. QED
      BY <1>3, <3>1, <3>2
  <2>. QED
    BY <2>1 DEF WellFormed
<1>5. DOMAIN both = DOMAIN map \cup {com.from, com.to}
  BY DEF addProjection
<1>6. ActingIn(more) = ActingIn(text) \cup {com.from, com.to}
  <2>1. 1 .. n + 1 = 1 .. n \cup {n + 1}
    OBVIOUS
  <2>. QED
    BY <1>3, <2>1 DEF ActingIn
<1>7. ASSUME NEW k
      PROVE  Does(k, more) = IF k \in DOMAIN both THEN both[k] ELSE << >>
  <2>1. PICK old \in Seq(Act) : old = Does(k, text)
    BY <1>2, DoesMore
  <2>2. old = IF k \in DOMAIN map THEN map[k] ELSE << >>
    BY <2>1 DEF Recorded
  <2>3. PICK a \in Act, b \in Act : a = ActOf("send", com) /\ b = ActOf("receive", com)
    BY DEF ActOf, Act, Communication
  <2>4. Does(k, more) = old \o Part(k, com)
    BY <1>1, <1>2, <2>1, DoesMore
  <2>5. Part(k, com) = (IF com.from = k THEN <<a>> ELSE << >>) \o (IF com.to = k THEN <<b>> ELSE << >>)
    BY <2>3 DEF Part, ActOf
  <2>6. k \in DOMAIN sent <=> k \in DOMAIN map \/ k = com.from
    BY DEF addProjection
  <2>7. k \in DOMAIN sent =>
          sent[k] = IF k = com.from THEN Append(old, a) ELSE old
    BY <2>2, <2>3, <2>6 DEF addProjection
  <2>8. k \notin DOMAIN sent => old = << >>
    BY <2>2, <2>6
  <2>9. k \in DOMAIN both <=> k \in DOMAIN sent \/ k = com.to
    BY DEF addProjection
  <2>. DEFINE mid == IF k = com.from THEN Append(old, a) ELSE old
  <2>10. k \in DOMAIN both => both[k] = IF k = com.to THEN Append(mid, b) ELSE mid
    <3>1. k = com.to => both[k] = Append(IF k \in DOMAIN sent THEN sent[k] ELSE << >>, b)
      BY <2>3 DEF addProjection
    <3>2. k # com.to /\ k \in DOMAIN sent => both[k] = sent[k]
      BY DEF addProjection
    <3>3. (IF k \in DOMAIN sent THEN sent[k] ELSE << >>) = mid
      BY <2>6, <2>7, <2>8
    <3>. HIDE DEF sent, both, mid
    <3>. QED
      BY <2>9, <3>1, <3>2, <3>3
  <2>11. k \notin DOMAIN both => old = << >> /\ k # com.from /\ k # com.to
    BY <2>6, <2>8, <2>9
  <2>12. old \o Part(k, com) = IF k = com.to THEN Append(mid, b) ELSE mid
    <3>. HIDE DEF sent, both
    <3>1. CASE k = com.from /\ k = com.to
      <4>1. old \o (<<a>> \o <<b>>) = Append(Append(old, a), b)
        BY TwoMore
      <4>. QED
        BY <2>5, <3>1, <4>1
    <3>2. CASE k = com.from /\ k # com.to
      <4>1. <<a>> \o << >> = <<a>> /\ old \o <<a>> = Append(old, a)
        OBVIOUS
      <4>. QED
        BY <2>5, <3>2, <4>1
    <3>3. CASE k # com.from /\ k = com.to
      <4>1. << >> \o <<b>> = <<b>> /\ old \o <<b>> = Append(old, b)
        OBVIOUS
      <4>. QED
        BY <2>5, <3>3, <4>1
    <3>4. CASE k # com.from /\ k # com.to
      <4>1. << >> \o << >> = << >> /\ old \o << >> = old
        OBVIOUS
      <4>. QED
        BY <2>5, <3>4, <4>1
    <3>. QED
      BY <3>1, <3>2, <3>3, <3>4
  <2>. HIDE DEF sent, both
  <2>13. CASE k \in DOMAIN both
    BY <2>4, <2>10, <2>12, <2>13
  <2>14. CASE k \notin DOMAIN both
    BY <2>4, <2>11, <2>12, <2>14
  <2>. QED
    BY <2>13, <2>14
<1>8. DOMAIN both = ActingIn(more)
  BY <1>5, <1>6 DEF Recorded
<1>. HIDE DEF sent, both
<1>9. Recorded(more, both)
  BY <1>4, <1>7, <1>8 DEF Recorded
<1>. QED
  BY <1>1, <1>9 DEF sent, both

(* An index has the value it has in a larger environment, if it has one. *)
LEMMA EvalAgrees ==
  ASSUME NEW e, NEW map, NEW env, DOMAIN map \subseteq DOMAIN env,
         \A x \in DOMAIN map : map[x] = env[x], eval(e, map) \in SizeT
  PROVE  eval(e, env) = eval(e, map)
<1>1. Undefined \notin SizeT
  BY SizeAssumption DEF Undefined, SizeT
<1>2. Identifiers(e) \subseteq DOMAIN map
  BY <1>1 DEF eval
<1>3. \A i \in DOMAIN e : e[i][1] = "identifier" => e[i][2] \in DOMAIN map
  BY <1>2 DEF Identifiers
<1>4. Substituted(e, env) = Substituted(e, map)
  BY <1>3 DEF Substituted
<1>. QED
  BY <1>2, <1>4 DEF eval

----------------------------------------------------------------------------
(***************************************************************************)
(* The shape of the stack: a frame visits what an expression of the frame  *)
(* below it names or iterates.  It says of a choreography c what Acting,   *)
(* Reaches and Shadowed say of choreo.                                     *)
(***************************************************************************)
ActingOf(c, l) == {c.lists[l][i] : i \in DOMAIN c.lists[l]}
ClosedIn(c, S) == \A l \in S : \A e \in ActingOf(c, l) : e.tag # "com" => e.body \in S
ReachesIn(c, l, m) == \A S \in SUBSET ListId : l \in S /\ ClosedIn(c, S) => m \in S

ShadowedIn(c) ==
  \E l, m \in ListId : \E e \in ActingOf(c, l), f \in ActingOf(c, m) :
    /\ e.tag = "forEach" /\ f.tag = "forEach" /\ e.iter.var = f.iter.var
    /\ ReachesIn(c, c.top, l)
    /\ ReachesIn(c, e.body, m)

PlainIn(c) ==
  \A l \in ListId : \A e \in ActingOf(c, l) : e.tag = "forEach" => PlainIter(e.iter)

TextOf(c) == Written(c)[<<c.top, Empty>>]

(* A pass is over its list, with its variable. *)
LEMMA PassLooks == \A l, x, el, m : Pass(l, x, el, m).list = l /\ Pass(l, x, el, m).var = x
BY DEF Pass

(* The properties of choreo, said of it as a parameter. *)
LEMMA OfChoreo ==
  /\ Shadowed <=> ShadowedIn(choreo)
  /\ Bounded /\ Plain => PlainIn(choreo)
  /\ Text = TextOf(choreo)
<1>1. \A l : Acting(l) = ActingOf(choreo, l)
  BY DEF Acting, ActingOf
<1>2. \A S : Closed(S) <=> ClosedIn(choreo, S)
  BY <1>1 DEF Closed, ClosedIn
<1>3. \A l, m : Reaches(l, m) <=> ReachesIn(choreo, l, m)
  BY <1>2 DEF Reaches, ReachesIn
<1>4. Shadowed <=> ShadowedIn(choreo)
  BY <1>1, <1>3 DEF Shadowed, ShadowedIn
<1>5. ASSUME Bounded, Plain, NEW l \in ListId, NEW e \in ActingOf(choreo, l), e.tag = "forEach"
      PROVE  PlainIter(e.iter)
  <2>1. e.iter \in Iterations
    BY <1>1, <1>5 DEF Iterations
  <2>. QED
    BY <1>5, <2>1 DEF Bounded, Plain, PlainIter
<1>. QED
  BY <1>4, <1>5 DEF PlainIn, Text, TextOf

Starts(e, f) ==
  /\ e.tag # "com" /\ e.body = f.list
  /\ f.var # NoId => e.tag = "forEach" /\ e.iter.var = f.var

Linked(c, stk) ==
  /\ stk # << >> => stk[1].list = c.top /\ stk[1].var = NoId
  /\ \A i \in 2 .. Len(stk) : \E e \in ActingOf(c, stk[i - 1].list) : Starts(e, stk[i])
  /\ \A j \in 1 .. Len(stk) : \A i \in 1 .. j : ReachesIn(c, stk[i].list, stk[j].list)

(* The walk starts on the top list. *)
LEMMA LinkedStart == ASSUME NEW c PROVE Linked(c, <<Visiting(c.top)>>)
<1>. DEFINE stk == <<Visiting(c.top)>>
<1>1. Len(stk) = 1 /\ stk[1] = Visiting(c.top) /\ 2 .. 1 = {} /\ 1 .. 1 = {1}
  OBVIOUS
<1>2. stk[1].list = c.top /\ stk[1].var = NoId
  BY <1>1 DEF Visiting, Pass
<1>3. ReachesIn(c, c.top, c.top)
  BY DEF ReachesIn
<1>. HIDE DEF stk
<1>4. \A j \in 1 .. Len(stk) : \A i \in 1 .. j : ReachesIn(c, stk[i].list, stk[j].list)
  <2>1. ASSUME NEW j \in 1 .. Len(stk), NEW i \in 1 .. j
        PROVE  ReachesIn(c, stk[i].list, stk[j].list)
    <3>1. j = 1 /\ i = 1
      BY <1>1
    <3>. QED
      BY <1>2, <1>3, <3>1
  <2>. QED
    BY <2>1
<1>5. Linked(c, stk)
  BY <1>1, <1>2, <1>4 DEF Linked
<1>. QED
  BY <1>5 DEF stk

(* Only the list and the identifier of a frame matter. *)
LEMMA LinkedSame ==
  ASSUME NEW c, NEW stk \in Seq(Frame), NEW new \in Seq(Frame), Linked(c, stk),
         Len(new) = Len(stk),
         \A i \in 1 .. Len(stk) : new[i].list = stk[i].list /\ new[i].var = stk[i].var
  PROVE  Linked(c, new)
<1>1. PICK n \in Nat : n = Len(stk)
  OBVIOUS
<1>2. new # << >> => stk # << >> /\ 1 \in 1 .. n
  BY <1>1
<1>3. new # << >> => new[1].list = c.top /\ new[1].var = NoId
  BY <1>1, <1>2 DEF Linked
<1>4. ASSUME NEW i \in 2 .. n
      PROVE  \E e \in ActingOf(c, new[i - 1].list) : Starts(e, new[i])
  <2>1. i \in 1 .. n /\ i - 1 \in 1 .. n
    OBVIOUS
  <2>2. PICK e \in ActingOf(c, stk[i - 1].list) : Starts(e, stk[i])
    BY <1>1 DEF Linked
  <2>3. e \in ActingOf(c, new[i - 1].list) /\ Starts(e, new[i])
    BY <1>1, <2>1, <2>2 DEF Starts
  <2>. QED
    BY <2>3
<1>5. ASSUME NEW j \in 1 .. n, NEW i \in 1 .. j
      PROVE  ReachesIn(c, new[i].list, new[j].list)
  <2>1. i \in 1 .. n
    OBVIOUS
  <2>2. ReachesIn(c, stk[i].list, stk[j].list)
    BY <1>1 DEF Linked
  <2>. QED
    BY <1>1, <2>1, <2>2
<1>. QED
  BY <1>1, <1>3, <1>4, <1>5 DEF Linked

(* A frame pushed for an expression that names or iterates its list. *)
LEMMA LinkedPush ==
  ASSUME NEW c, NEW stk \in Seq(Frame), stk # << >>, Linked(c, stk), NEW f \in Frame,
         NEW e \in ActingOf(c, stk[Len(stk)].list), Starts(e, f)
  PROVE  Linked(c, Append(stk, f))
<1>1. PICK n \in Nat : n = Len(stk) /\ n >= 1
  OBVIOUS
<1>2. PICK new \in Seq(Frame) : new = Append(stk, f)
  <2>1. Append(stk, f) \in Seq(Frame)
    OBVIOUS
  <2>. QED
    BY <2>1
<1>3. /\ Len(new) = n + 1 /\ new[n + 1] = f /\ \A i \in 1 .. n : new[i] = stk[i]
  BY <1>1, <1>2
<1>4. new[1].list = c.top /\ new[1].var = NoId
  BY <1>1, <1>3 DEF Linked
<1>5. ASSUME NEW i \in 2 .. n + 1
      PROVE  \E d \in ActingOf(c, new[i - 1].list) : Starts(d, new[i])
  <2>1. CASE i = n + 1
    <3>1. i - 1 = n /\ n \in 1 .. n
      BY <1>1, <2>1
    <3>2. new[i - 1] = stk[Len(stk)] /\ new[i] = f
      BY <1>1, <1>3, <2>1, <3>1
    <3>. QED
      BY <3>2
  <2>2. CASE i # n + 1
    <3>1. i \in 2 .. n /\ i \in 1 .. n /\ i - 1 \in 1 .. n
      BY <2>2
    <3>2. PICK d \in ActingOf(c, stk[i - 1].list) : Starts(d, stk[i])
      BY <1>1, <3>1 DEF Linked
    <3>3. new[i] = stk[i] /\ new[i - 1] = stk[i - 1]
      BY <1>3, <3>1
    <3>. QED
      BY <3>2, <3>3
  <2>. QED
    BY <2>1, <2>2
<1>6. ASSUME NEW j \in 1 .. n + 1, NEW i \in 1 .. j
      PROVE  ReachesIn(c, new[i].list, new[j].list)
  <2>1. CASE j # n + 1
    <3>1. j \in 1 .. n /\ i \in 1 .. n
      BY <2>1
    <3>2. ReachesIn(c, stk[i].list, stk[j].list)
      BY <1>1, <3>1 DEF Linked
    <3>. QED
      BY <1>3, <3>1, <3>2
  <2>2. CASE j = n + 1 /\ i = n + 1
    BY <2>2 DEF ReachesIn
  <2>3. CASE j = n + 1 /\ i # n + 1
    <3>1. i \in 1 .. n /\ n \in 1 .. n
      BY <1>1, <2>3
    <3>2. ReachesIn(c, stk[i].list, stk[n].list)
      BY <1>1, <3>1 DEF Linked
    <3>3. e.tag # "com" /\ e.body = f.list
      BY DEF Starts
    <3>4. ReachesIn(c, stk[i].list, f.list)
      <4>1. ASSUME NEW S \in SUBSET ListId, stk[i].list \in S, ClosedIn(c, S)
            PROVE  f.list \in S
        <5>1. stk[n].list \in S
          BY <3>2, <4>1 DEF ReachesIn
        <5>. QED
          BY <1>1, <3>3, <4>1, <5>1 DEF ClosedIn
      <4>. QED
        BY <4>1 DEF ReachesIn
    <3>5. new[i] = stk[i] /\ new[j] = f
      BY <1>3, <2>3, <3>1
    <3>. QED
      BY <3>4, <3>5
  <2>. QED
    BY <2>1, <2>2, <2>3
<1>7. Linked(c, new)
  BY <1>3, <1>4, <1>5, <1>6 DEF Linked
<1>. QED
  BY <1>2, <1>7

(* A frame popped. *)
LEMMA LinkedPop ==
  ASSUME NEW c, NEW stk \in Seq(Frame), stk # << >>, Linked(c, stk)
  PROVE  Linked(c, Under(stk))
<1>1. PICK n \in Nat : n + 1 = Len(stk)
  <2>1. Len(stk) - 1 \in Nat
    OBVIOUS
  <2>. QED
    BY <2>1
<1>2. PICK new \in Seq(Frame) : new = SubSeq(stk, 1, Len(stk) - 1)
  <2>1. SubSeq(stk, 1, Len(stk) - 1) \in Seq(Frame)
    BY <1>1
  <2>. QED
    BY <2>1
<1>3. Len(new) = n /\ \A i \in 1 .. n : new[i] = stk[i]
  BY <1>1, <1>2
<1>4. new # << >> => new[1].list = c.top /\ new[1].var = NoId
  <2>1. new # << >> => 1 \in 1 .. n
    BY <1>3
  <2>. QED
    BY <1>3, <2>1 DEF Linked
<1>5. ASSUME NEW i \in 2 .. n
      PROVE  \E d \in ActingOf(c, new[i - 1].list) : Starts(d, new[i])
  <2>1. i \in 2 .. Len(stk) /\ i \in 1 .. n /\ i - 1 \in 1 .. n
    BY <1>1
  <2>2. PICK d \in ActingOf(c, stk[i - 1].list) : Starts(d, stk[i])
    BY <2>1 DEF Linked
  <2>3. new[i] = stk[i] /\ new[i - 1] = stk[i - 1]
    BY <1>3, <2>1
  <2>. QED
    BY <2>2, <2>3
<1>6. ASSUME NEW j \in 1 .. n, NEW i \in 1 .. j
      PROVE  ReachesIn(c, new[i].list, new[j].list)
  <2>1. j \in 1 .. Len(stk) /\ i \in 1 .. n
    BY <1>1
  <2>2. ReachesIn(c, stk[i].list, stk[j].list)
    BY <2>1 DEF Linked
  <2>. QED
    BY <1>3, <2>1, <2>2
<1>7. Linked(c, new)
  BY <1>3, <1>4, <1>5, <1>6 DEF Linked
<1>. QED
  BY <1>2, <1>7 DEF Under

(* Two loops over one identifier on the stack: it is shadowed. *)
LEMMA LinkedTwice ==
  ASSUME NEW c, NEW stk \in Seq(Frame), stk # << >>, Linked(c, stk),
         stk[Len(stk)].var # NoId,
         NEW j \in 1 .. Len(stk) - 1, stk[j].var = stk[Len(stk)].var
  PROVE  ShadowedIn(c)
<1>1. PICK n \in Nat : n = Len(stk)
  OBVIOUS
<1>2. j # 1
  BY DEF Linked
<1>3. /\ j \in 2 .. n /\ n \in 2 .. n
      /\ j - 1 \in 1 .. n /\ n - 1 \in 1 .. n /\ j \in 1 .. n - 1 /\ 1 \in 1 .. j - 1
  BY <1>1, <1>2
<1>4. PICK e \in ActingOf(c, stk[j - 1].list) : Starts(e, stk[j])
  BY <1>1, <1>3 DEF Linked
<1>5. PICK f \in ActingOf(c, stk[n - 1].list) : Starts(f, stk[n])
  BY <1>1, <1>3 DEF Linked
<1>6. /\ e.tag = "forEach" /\ f.tag = "forEach" /\ e.iter.var = f.iter.var
      /\ e.body = stk[j].list
  BY <1>1, <1>4, <1>5 DEF Starts
<1>7. stk[j - 1].list \in ListId /\ stk[n - 1].list \in ListId
  <2>1. stk[j - 1] \in Frame /\ stk[n - 1] \in Frame
    BY <1>1, <1>3
  <2>. QED
    BY <2>1 DEF Frame
<1>8. ReachesIn(c, c.top, stk[j - 1].list)
  BY <1>1, <1>3 DEF Linked
<1>9. ReachesIn(c, e.body, stk[n - 1].list)
  BY <1>1, <1>3, <1>6 DEF Linked
<1>. QED
  BY <1>4, <1>5, <1>6, <1>7, <1>8, <1>9 DEF ShadowedIn

----------------------------------------------------------------------------
(***************************************************************************)
(* What the walk has said and what its stack explains are the text of the  *)
(* choreography; the map of identifiers holds what they mean here, all of  *)
(* it unless one is shadowed.                                              *)
(***************************************************************************)
Remembers(c, map, env) ==
  /\ DOMAIN map \subseteq DOMAIN env
  /\ \A x \in DOMAIN map : map[x] = env[x]
  /\ DOMAIN map # DOMAIN env => ShadowedIn(c)

Explained(c, stk, map, lists) ==
  \E env \in Env, tail \in Seq(Communication), text \in Seq(Communication) :
    /\ Explains(c, stk, env, tail)
    /\ Remembers(c, map, env)
    /\ text \o tail = TextOf(c)
    /\ Recorded(text, lists)

(* The frames below the innermost one, and the innermost one. *)
LEMMA UnderTyped ==
  ASSUME NEW stk \in Seq(Frame), stk # << >>
  PROVE  /\ Under(stk) \in Seq(Frame) /\ Len(Under(stk)) = Len(stk) - 1
         /\ \A i \in 1 .. Len(stk) - 1 : Under(stk)[i] = stk[i]
         /\ Innermost(stk) \in Frame
         /\ Len(stk) = 1 => Under(stk) = << >>
<1>1. PICK n \in Nat : n + 1 = Len(stk)
  <2>1. Len(stk) - 1 \in Nat
    OBVIOUS
  <2>. QED
    BY <2>1
<1>2. Under(stk) \in Seq(Frame)
  BY <1>1 DEF Under
<1>3. Len(Under(stk)) = n /\ \A i \in 1 .. n : Under(stk)[i] = stk[i]
  BY <1>1 DEF Under
<1>4. Innermost(stk) \in Frame
  BY <1>1 DEF Innermost
<1>. QED
  BY <1>1, <1>2, <1>3, <1>4

(* Nothing has been said at the start, and the whole text is to come. *)
LEMMA ExplainedStart ==
  ASSUME NEW c \in Choreos
  PROVE  Explained(c, <<Visiting(c.top)>>, Empty, Empty)
<1>1. c.top \in ListId /\ Empty \in Env
  BY Ranked, EnvIsMap
<1>2. PICK f \in Frame : f = Visiting(c.top) /\ InBounds(f)
  BY <1>1, RestVisiting
<1>3. ScopeIn(f, Empty) = Empty /\ Rest(c, f, Empty) = TextOf(c)
  BY <1>1, <1>2, RestVisiting DEF TextOf
<1>4. TextOf(c) \in Seq(Communication)
  BY <1>1, WrittenTyped DEF TextOf
<1>5. Explains(c, Append(<< >>, f), ScopeIn(f, Empty), Rest(c, f, Empty) \o << >>)
  <2>1. << >> \in Seq(Frame)
    OBVIOUS
  <2>. QED
    BY <1>2, <2>1, ExplainsNone, ExplainsPush
<1>6. TextOf(c) \o << >> = TextOf(c) /\ << >> \o TextOf(c) = TextOf(c)
      /\ << >> \in Seq(Communication) /\ Append(<< >>, f) = <<f>>
  BY <1>4
<1>7. Remembers(c, Empty, Empty)
  BY DEF Remembers
<1>8. Explains(c, <<f>>, Empty, TextOf(c))
  BY <1>3, <1>5, <1>6
<1>. QED
  BY <1>1, <1>2, <1>4, <1>6, <1>7, <1>8, RecordedNone DEF Explained

(* The innermost frame has an expression to come. *)
Utters(c, f, env, tail, more) ==
  tail = Says(Written(c), c.lists[f.list][f.pos], env) \o more

LEMMA ExplainsHere ==
  ASSUME NEW c \in Choreos, NEW stk \in Seq(Frame), stk # << >>,
         NEW env, NEW tail, Explains(c, stk, env, tail),
         NEW f, f = Innermost(stk), f.pos <= Len(c.lists[f.list])
  PROVE  \E more \in Seq(Communication) :
           /\ Explains(c, Append(Under(stk), Past(f)), env, more)
           /\ Utters(c, f, env, tail, more)
<1>1. PICK outer \in Env, rest \in Seq(Communication) :
        /\ Explains(c, Under(stk), outer, rest)
        /\ InBounds(f)
        /\ env = ScopeIn(f, outer)
        /\ tail = Rest(c, f, outer) \o rest
  <2>1. PICK outer \in Env, rest \in Seq(Communication) : Splits(c, stk, env, tail, outer, rest)
    BY ExplainsPop
  <2>. QED
    BY <2>1 DEF Splits
<1>2. f \in Frame /\ Under(stk) \in Seq(Frame)
  BY UnderTyped
<1>3. /\ Past(f) \in Frame
      /\ ScopeIn(Past(f), outer) = env
      /\ InBounds(Past(f))
      /\ Rest(c, f, outer) = Says(Written(c), c.lists[f.list][f.pos], env)
                               \o Rest(c, Past(f), outer)
  BY <1>1, <1>2, RestPast
<1>4. PICK r \in Seq(Communication) : r = Rest(c, Past(f), outer)
  BY <1>3, RestTyped
<1>5. PICK s \in Seq(Communication) : s = Says(Written(c), c.lists[f.list][f.pos], env)
  <2>1. env \in Env
    BY <1>1, <1>2, RestTyped
  <2>2. f.list \in ListId /\ f.pos \in Nat \ {0}
    BY <1>2 DEF Frame
  <2>3. c.lists[f.list] \in Seq(Expr)
    BY <2>2, Ranked
  <2>4. c.lists[f.list][f.pos] \in Expr
    BY <2>2, <2>3
  <2>5. Says(Written(c), c.lists[f.list][f.pos], env) \in Seq(Communication)
    BY <2>1, <2>4, SaysWritten
  <2>. QED
    BY <2>5
<1>6. PICK more \in Seq(Communication) : more = r \o rest
  <2>1. r \o rest \in Seq(Communication)
    OBVIOUS
  <2>. QED
    BY <2>1
<1>7. (s \o r) \o rest = s \o more
  <2>1. Associative(s, r, rest)
    BY Assoc, Zenon
  <2>. QED
    BY <1>6, <2>1 DEF Associative
<1>8. tail = s \o more
  BY <1>1, <1>3, <1>4, <1>5, <1>7
<1>9. Explains(c, Append(Under(stk), Past(f)), env, more)
  BY <1>1, <1>2, <1>3, <1>4, <1>6, ExplainsPush
<1>. QED
  BY <1>5, <1>8, <1>9 DEF Utters

(* A frame pushed for an expression says what the expression says. *)
Voices(c, f, env, g) == Rest(c, g, env) = Says(Written(c), c.lists[f.list][f.pos], env)

LEMMA ExplainsEnter ==
  ASSUME NEW c \in Choreos, NEW stk \in Seq(Frame), stk # << >>,
         NEW env, NEW tail, Explains(c, stk, env, tail),
         NEW f, f = Innermost(stk), f.pos <= Len(c.lists[f.list]),
         NEW g \in Frame, InBounds(g), Voices(c, f, env, g)
  PROVE  Explains(c, Append(Append(Under(stk), Past(f)), g), ScopeIn(g, env), tail)
<1>1. PICK more \in Seq(Communication) :
        /\ Explains(c, Append(Under(stk), Past(f)), env, more)
        /\ Utters(c, f, env, tail, more)
  BY ExplainsHere
<1>2. PICK new \in Seq(Frame) : new = Append(Under(stk), Past(f))
  <2>1. f \in Frame /\ Under(stk) \in Seq(Frame)
    BY UnderTyped
  <2>2. Past(f) \in Frame
    BY <2>1, RestPast, EnvIsMap
  <2>3. Append(Under(stk), Past(f)) \in Seq(Frame)
    BY <2>1, <2>2
  <2>. QED
    BY <2>3
<1>3. tail = Rest(c, g, env) \o more
  BY <1>1 DEF Utters, Voices
<1>4. Explains(c, Append(new, g), ScopeIn(g, env), Rest(c, g, env) \o more)
  BY <1>1, <1>2, ExplainsPush
<1>. QED
  BY <1>2, <1>3, <1>4

(* Entering a list or a loop changes neither what was said nor what is to  *)
(* come.                                                                   *)
LEMMA ExplainedEnter ==
  ASSUME NEW c \in Choreos, NEW stk \in Seq(Frame), stk # << >>,
         NEW map, NEW lists, Explained(c, stk, map, lists),
         NEW f, f = Innermost(stk), f.pos <= Len(c.lists[f.list]),
         NEW e, e = c.lists[f.list][f.pos], e \in Expr, e.tag # "com",
         e.tag = "forEach" => PlainIter(e.iter),
         NEW g, g = (IF e.tag = "list" THEN Visiting(e.body)
                     ELSE Pass(e.body, e.iter.var, min(e.iter), max(e.iter))),
         NEW new, new = (IF e.tag = "list" THEN map ELSE Bind(map, e.iter.var, min(e.iter)))
  PROVE  /\ g \in Frame
         /\ Starts(e, g)
         /\ Explained(c, Append(Append(Under(stk), Past(f)), g), new, lists)
<1>1. PICK env \in Env, tail \in Seq(Communication), text \in Seq(Communication) :
        /\ Explains(c, stk, env, tail)
        /\ Remembers(c, map, env)
        /\ text \o tail = TextOf(c)
        /\ Recorded(text, lists)
  BY DEF Explained
<1>2. CASE e.tag = "list"
  <2>1. e.body \in ListId
    BY <1>2, BodyTyped
  <2>2. g = Visiting(e.body) /\ new = map
    BY <1>2
  <2>3. g \in Frame /\ InBounds(g) /\ ScopeIn(g, env) = env
        /\ Rest(c, g, env) = Written(c)[<<e.body, env>>]
    BY <2>1, <2>2, RestVisiting, ZenonT(40)
  <2>4. Says(Written(c), e, env) = Written(c)[<<e.body, env>>]
    BY <1>2 DEF Says
  <2>5. Explains(c, Append(Append(Under(stk), Past(f)), g), env, tail)
    <3>1. Voices(c, f, env, g)
      BY <2>3, <2>4 DEF Voices
    <3>2. Explains(c, Append(Append(Under(stk), Past(f)), g), ScopeIn(g, env), tail)
      BY <1>1, <2>3, <3>1, ExplainsEnter
    <3>. QED
      BY <2>3, <3>2
  <2>6. Starts(e, g)
    BY <1>2, <2>2 DEF Starts, Visiting, Pass
  <2>. QED
    BY <1>1, <2>2, <2>3, <2>5, <2>6 DEF Explained
<1>3. CASE e.tag = "forEach"
  <2>1. e \in ForEachExpr /\ e.iter \in Iteration
    BY <1>3, BodyTyped
  <2>0. PICK x \in Id : x = e.iter.var
    BY <2>1 DEF Iteration
  <2>2. PICK v : x = e.iter.var /\ v = min(e.iter)
    BY <2>0
  <2>3. g = Pass(e.body, x, v, max(e.iter)) /\ new = Bind(map, x, v)
    BY <1>3, <2>2
  <2>4. g \in Frame /\ InBounds(g) /\ ScopeIn(g, env) = Bind(env, x, v)
        /\ Rest(c, g, env) = Says(Written(c), e, env)
    BY <1>3, <2>1, <2>2, <2>3, RestEntered, ZenonT(40)
  <2>5. Explains(c, Append(Append(Under(stk), Past(f)), g), Bind(env, x, v), tail)
    <3>1. Voices(c, f, env, g)
      BY <2>4 DEF Voices
    <3>2. Explains(c, Append(Append(Under(stk), Past(f)), g), ScopeIn(g, env), tail)
      BY <1>1, <2>4, <3>1, ExplainsEnter
    <3>. QED
      BY <2>4, <3>2
  <2>6. Starts(e, g)
    <3>2. Pass(e.body, x, v, max(e.iter)).list = e.body /\ Pass(e.body, x, v, max(e.iter)).var = x
      BY PassLooks, SMTT(20)
    <3>1. g.list = e.body /\ g.var = x
      BY <2>3, <3>2
    <3>. QED
      BY <1>3, <2>2, <3>1 DEF Starts
  <2>7. Remembers(c, new, Bind(env, x, v))
    <3>1. DOMAIN new = DOMAIN map \cup {x} /\ DOMAIN Bind(env, x, v) = DOMAIN env \cup {x}
      BY <2>3 DEF Bind
    <3>2. \A y \in DOMAIN new : new[y] = Bind(env, x, v)[y]
      BY <1>1, <2>3 DEF Bind, Remembers
    <3>. QED
      BY <1>1, <3>1, <3>2 DEF Remembers
  <2>8. Bind(env, x, v) \in Env
    <3>1. v \in SizeT
      BY <2>1, <2>2, BoundsTyped
    <3>. QED
      BY <3>1, BindInEnv
  <2>. QED
    BY <1>1, <2>4, <2>5, <2>6, <2>7, <2>8 DEF Explained
<1>. QED
  BY <1>2, <1>3, BodyTyped

(* Nor does a further round of a loop. *)
LEMMA ExplainedRound ==
  ASSUME NEW c \in Choreos, NEW stk \in Seq(Frame), stk # << >>,
         NEW map, NEW lists, Explained(c, stk, map, lists),
         NEW f, f = Innermost(stk), f.pos > Len(c.lists[f.list]), f.var # NoId, f.el # f.max,
         NEW g, g = Pass(f.list, f.var, Successor(f.el), f.max)
  PROVE  /\ g \in Frame
         /\ Explained(c, Append(Under(stk), g), Bind(map, f.var, Successor(f.el)), lists)
<1>1. PICK env \in Env, tail \in Seq(Communication), text \in Seq(Communication) :
        /\ Explains(c, stk, env, tail)
        /\ Remembers(c, map, env)
        /\ text \o tail = TextOf(c)
        /\ Recorded(text, lists)
  BY DEF Explained
<1>2. PICK outer \in Env, rest \in Seq(Communication) :
        /\ Explains(c, Under(stk), outer, rest)
        /\ InBounds(f)
        /\ env = ScopeIn(f, outer)
        /\ tail = Rest(c, f, outer) \o rest
  <2>1. PICK outer \in Env, rest \in Seq(Communication) : Splits(c, stk, env, tail, outer, rest)
    BY <1>1, ExplainsPop
  <2>. QED
    BY <2>1 DEF Splits
<1>3. f \in Frame /\ Under(stk) \in Seq(Frame)
  BY UnderTyped
<1>0. PICK x \in Id : x = f.var
  BY <1>3 DEF Frame
<1>4. PICK v : x = f.var /\ v = Successor(f.el)
  BY <1>0
<1>5. /\ g \in Frame /\ InBounds(g)
      /\ ScopeIn(g, outer) = Bind(outer, x, v)
      /\ Rest(c, g, outer) = Rest(c, f, outer)
  BY <1>2, <1>3, <1>4, RestRound
<1>6. Explains(c, Append(Under(stk), g), Bind(outer, x, v), tail)
  BY <1>2, <1>3, <1>5, ExplainsPush
<1>7. env = Bind(outer, x, f.el)
  BY <1>2, <1>4 DEF ScopeIn
<1>8. Remembers(c, Bind(map, x, v), Bind(outer, x, v))
  <2>1. /\ DOMAIN Bind(map, x, v) = DOMAIN map \cup {x}
        /\ DOMAIN Bind(outer, x, v) = DOMAIN outer \cup {x}
        /\ DOMAIN env = DOMAIN outer \cup {x}
    BY <1>7 DEF Bind
  <2>2. \A y \in DOMAIN outer : y # x => env[y] = outer[y]
    BY <1>7 DEF Bind
  <2>3. \A y \in DOMAIN map : map[y] = env[y] /\ y \in DOMAIN env
    BY <1>1 DEF Remembers
  <2>4. ASSUME NEW y \in DOMAIN map \cup {x} PROVE Bind(map, x, v)[y] = Bind(outer, x, v)[y]
    <3>1. CASE y = x
      BY <3>1 DEF Bind
    <3>2. CASE y # x
      <4>1. y \in DOMAIN map /\ y \in DOMAIN outer
        BY <2>1, <2>3, <3>2
      <4>2. map[y] = outer[y]
        BY <2>2, <2>3, <3>2, <4>1
      <4>. QED
        BY <3>2, <4>1, <4>2 DEF Bind
    <3>. QED
      BY <3>1, <3>2
  <2>5. DOMAIN map \cup {x} # DOMAIN outer \cup {x} => ShadowedIn(c)
    BY <1>1, <2>1 DEF Remembers
  <2>. QED
    BY <2>1, <2>3, <2>4, <2>5 DEF Remembers
<1>9. Bind(outer, x, v) \in Env
  BY <1>3, <1>5, RestTyped
<1>. QED
  BY <1>1, <1>4, <1>5, <1>6, <1>8, <1>9 DEF Explained

(* Nor does leaving one; what Erase forgets besides is shadowed. *)
LEMMA ExplainedLeave ==
  ASSUME NEW c \in Choreos, NEW stk \in Seq(Frame), stk # << >>, Linked(c, stk),
         NEW map, NEW lists, Explained(c, stk, map, lists),
         NEW f, f = Innermost(stk), f.pos > Len(c.lists[f.list]), f.var # NoId => f.el = f.max,
         NEW new, new = (IF f.var = NoId THEN map ELSE Erase(map, f.var))
  PROVE  Explained(c, Under(stk), new, lists)
<1>1. PICK env \in Env, tail \in Seq(Communication), text \in Seq(Communication) :
        /\ Explains(c, stk, env, tail)
        /\ Remembers(c, map, env)
        /\ text \o tail = TextOf(c)
        /\ Recorded(text, lists)
  BY DEF Explained
<1>2. PICK outer \in Env, rest \in Seq(Communication) :
        /\ Explains(c, Under(stk), outer, rest)
        /\ InBounds(f)
        /\ env = ScopeIn(f, outer)
        /\ tail = Rest(c, f, outer) \o rest
  <2>1. PICK outer \in Env, rest \in Seq(Communication) : Splits(c, stk, env, tail, outer, rest)
    BY <1>1, ExplainsPop
  <2>. QED
    BY <2>1 DEF Splits
<1>3. f \in Frame /\ Under(stk) \in Seq(Frame)
  BY UnderTyped
<1>4. tail = rest
  <2>1. Rest(c, f, outer) = << >>
    BY <1>3, RestLeft
  <2>2. << >> \o rest = rest
    OBVIOUS
  <2>. QED
    BY <1>2, <2>1, <2>2
<1>5. Remembers(c, new, outer)
  <2>1. CASE f.var = NoId
    BY <1>1, <1>2, <2>1 DEF ScopeIn
  <2>2. CASE f.var # NoId
    <3>1. PICK x \in Id : x = f.var
      BY <1>3, <2>2 DEF Frame
    <3>2. env = Bind(outer, x, f.el) /\ new = Erase(map, x)
      BY <1>2, <2>2, <3>1 DEF ScopeIn
    <3>3. /\ DOMAIN env = DOMAIN outer \cup {x}
          /\ \A y \in DOMAIN outer : y # x => env[y] = outer[y]
      BY <3>2 DEF Bind
    <3>4. /\ DOMAIN new = DOMAIN map \ {x}
          /\ \A y \in DOMAIN new : new[y] = map[y]
      BY <3>2 DEF Erase
    <3>5. \A y \in DOMAIN map : map[y] = env[y] /\ y \in DOMAIN env
      BY <1>1 DEF Remembers
    <3>6. DOMAIN new \subseteq DOMAIN outer /\ \A y \in DOMAIN new : new[y] = outer[y]
      BY <3>3, <3>4, <3>5
    <3>7. CASE x \in DOMAIN outer
      <4>1. Under(stk) # << >>
        <5>1. ASSUME Under(stk) = << >> PROVE outer = Empty
          <6>1. PICK scope, tails : /\ ExplainedBy(c, Under(stk), scope, tails)
                                    /\ outer = scope[Len(Under(stk))]
            BY <1>2 DEF Explains
          <6>2. Len(Under(stk)) = 0
            BY <5>1
          <6>. QED
            BY <6>1, <6>2 DEF ExplainedBy
        <5>. QED
          BY <3>7, <5>1, EnvIsMap
      <4>2. PICK j \in 1 .. Len(Under(stk)) : Under(stk)[j].var = x
        BY <1>2, <1>3, <3>7, <4>1, ExplainsTyped
      <4>3. j \in 1 .. Len(stk) - 1 /\ stk[j].var = x
        BY <4>2, UnderTyped
      <4>4. stk[j].var = stk[Len(stk)].var /\ stk[Len(stk)].var # NoId
        BY <2>2, <3>1, <4>3 DEF Innermost
      <4>5. ShadowedIn(c)
        BY <4>3, <4>4, LinkedTwice
      <4>. QED
        BY <3>6, <4>5 DEF Remembers
    <3>8. CASE x \notin DOMAIN outer
      <4>1. DOMAIN new # DOMAIN outer => DOMAIN map # DOMAIN env
        BY <3>3, <3>4, <3>8
      <4>2. DOMAIN map # DOMAIN env => ShadowedIn(c)
        BY <1>1 DEF Remembers
      <4>. QED
        BY <3>6, <4>1, <4>2 DEF Remembers
    <3>. QED
      BY <3>7, <3>8
  <2>. QED
    BY <2>1, <2>2
<1>. QED
  BY <1>1, <1>2, <1>4, <1>5 DEF Explained

----------------------------------------------------------------------------
(* Replacing the innermost frame, by EXCEPT or by popping and pushing. *)
LEMMA Replaced ==
  ASSUME NEW stk \in Seq(Frame), stk # << >>, NEW g \in Frame
  PROVE  /\ [stk EXCEPT ![Len(stk)] = g] = Append(Under(stk), g)
         /\ Append(Under(stk), g) \in Seq(Frame)
         /\ Append(Under(stk), g) # << >>
         /\ Innermost(Append(Under(stk), g)) = g
<1>1. PICK n \in Nat : n + 1 = Len(stk)
  <2>1. Len(stk) - 1 \in Nat
    OBVIOUS
  <2>. QED
    BY <2>1
<1>2. PICK u \in Seq(Frame) : u = Under(stk) /\ Len(u) = n /\ \A i \in 1 .. n : u[i] = stk[i]
  <2>1. Under(stk) \in Seq(Frame) /\ Len(Under(stk)) = n
        /\ \A i \in 1 .. n : Under(stk)[i] = stk[i]
    <3>1. n = Len(stk) - 1
      BY <1>1
    <3>. QED
      BY <3>1, UnderTyped
  <2>. QED
    BY <2>1
<1>3. /\ Append(u, g) \in Seq(Frame) /\ Len(Append(u, g)) = n + 1
      /\ Append(u, g)[n + 1] = g /\ \A i \in 1 .. n : Append(u, g)[i] = u[i]
  BY <1>2
<1>4. PICK new \in Seq(Frame) : new = [stk EXCEPT ![Len(stk)] = g]
  <2>1. [stk EXCEPT ![Len(stk)] = g] \in Seq(Frame)
    OBVIOUS
  <2>. QED
    BY <2>1
<1>5. /\ Len(new) = n + 1 /\ new[n + 1] = g
      /\ \A i \in 1 .. n : new[i] = stk[i]
  BY <1>1, <1>4
<1>6. new = Append(u, g)
  <2>1. \A i \in 1 .. n + 1 : i \in 1 .. n \/ i = n + 1
    OBVIOUS
  <2>2. \A i \in 1 .. n + 1 : new[i] = Append(u, g)[i]
    BY <1>2, <1>3, <1>5, <2>1
  <2>3. PICK v \in Seq(Frame) : v = Append(u, g)
    BY <1>3
  <2>4. new = v
    BY <1>3, <1>5, <2>2, <2>3, SeqEqual
  <2>. QED
    BY <2>3, <2>4
<1>7. Append(u, g) # << >> /\ Innermost(Append(u, g)) = g
  <2>1. new # << >> /\ new[Len(new)] = g
    BY <1>5
  <2>. QED
    BY <1>6, <2>1 DEF Innermost
<1>. QED
  BY <1>2, <1>3, <1>4, <1>6, <1>7

(* A frame replaced by one of the same list and identifier. *)
LEMMA LinkedReplaced ==
  ASSUME NEW c, NEW stk \in Seq(Frame), stk # << >>, Linked(c, stk), NEW g \in Frame,
         g.list = Innermost(stk).list, g.var = Innermost(stk).var
  PROVE  Linked(c, Append(Under(stk), g))
<1>1. PICK n \in Nat : n + 1 = Len(stk)
  <2>1. Len(stk) - 1 \in Nat
    OBVIOUS
  <2>. QED
    BY <2>1
<1>2. PICK u \in Seq(Frame) : u = Under(stk) /\ Len(u) = n /\ \A i \in 1 .. n : u[i] = stk[i]
  <2>1. Under(stk) \in Seq(Frame) /\ Len(Under(stk)) = n
        /\ \A i \in 1 .. n : Under(stk)[i] = stk[i]
    <3>1. n = Len(stk) - 1
      BY <1>1
    <3>. QED
      BY <3>1, UnderTyped
  <2>. QED
    BY <2>1
<1>3. PICK new \in Seq(Frame) : new = Append(u, g)
  <2>1. Append(u, g) \in Seq(Frame)
    OBVIOUS
  <2>. QED
    BY <2>1
<1>4. Len(new) = n + 1 /\ new[n + 1] = g /\ \A i \in 1 .. n : new[i] = u[i]
  BY <1>2, <1>3
<1>5. ASSUME NEW i \in 1 .. n + 1
      PROVE  new[i].list = stk[i].list /\ new[i].var = stk[i].var
  <2>1. CASE i = n + 1
    BY <1>1, <1>4, <2>1 DEF Innermost
  <2>2. CASE i # n + 1
    <3>1. i \in 1 .. n
      BY <2>2
    <3>. QED
      BY <1>2, <1>4, <3>1
  <2>. QED
    BY <2>1, <2>2
<1>6. Linked(c, new)
  BY <1>1, <1>4, <1>5, LinkedSame
<1>. QED
  BY <1>2, <1>3, <1>6

----------------------------------------------------------------------------
(* A communication whose indices are in range. *)
Sound(com) == {com.from, com.to} \subseteq DeclaredKeys /\ com.index \in SizeT

(* What the map gives a sound value is spoken as it is written. *)
LEMMA SpokenAgrees ==
  ASSUME NEW c, NEW map, NEW env, Remembers(c, map, env), NEW e, Sound(Spoken(e, map))
  PROVE  Spoken(e, env) = Spoken(e, map)
<1>1. \A r, v : <<r, v>> \in DeclaredKeys => v \in SizeT
  <2>1. ASSUME NEW r, NEW v, <<r, v>> \in DeclaredKeys PROVE v \in SizeT
    <3>1. PICK q \in Role : <<r, v>> \in {q} \X (Lower[IndexOf[q]] .. Upper[IndexOf[q]])
      BY <2>1 DEF DeclaredKeys
    <3>2. v \in Lower[IndexOf[q]] .. Upper[IndexOf[q]]
      BY <3>1
    <3>3. Lower[IndexOf[q]] \in SizeT /\ Upper[IndexOf[q]] \in SizeT
      BY SizeAssumption
    <3>. QED
      BY <3>2, <3>3, SizeAssumption DEF SizeT
  <2>. QED
    BY <2>1
<1>2. /\ eval(e.from[2], map) \in SizeT
      /\ eval(e.to[2], map) \in SizeT
      /\ eval(e.on[2], map) \in SizeT
  <2>1. /\ <<e.from[1], eval(e.from[2], map)>> \in DeclaredKeys
        /\ <<e.to[1], eval(e.to[2], map)>> \in DeclaredKeys
        /\ eval(e.on[2], map) \in SizeT
    BY DEF Sound, Spoken
  <2>. QED
    BY <1>1, <2>1
<1>3. DOMAIN map \subseteq DOMAIN env /\ \A x \in DOMAIN map : map[x] = env[x]
  BY DEF Remembers
<1>4. /\ eval(e.from[2], env) = eval(e.from[2], map)
      /\ eval(e.to[2], env) = eval(e.to[2], map)
      /\ eval(e.on[2], env) = eval(e.on[2], map)
  BY <1>2, <1>3, EvalAgrees
<1>. QED
  BY <1>4 DEF Spoken

(* A communication visited moves from what is to come to what was said. *)
LEMMA ExplainedCom ==
  ASSUME NEW c \in Choreos, NEW stk \in Seq(Frame), stk # << >>,
         NEW map, NEW lists, Explained(c, stk, map, lists),
         NEW f, f = Innermost(stk), f.pos <= Len(c.lists[f.list]),
         NEW e \in CommunicationExpr, e = c.lists[f.list][f.pos],
         NEW com, com = Spoken(e, map), Sound(com)
  PROVE  Explained(c, Append(Under(stk), Past(f)), map,
                   addProjection(addProjection(lists, com.from, ActOf("send", com)),
                                 com.to, ActOf("receive", com)))
<1>1. PICK env \in Env, tail \in Seq(Communication), text \in Seq(Communication) :
        /\ Explains(c, stk, env, tail)
        /\ Remembers(c, map, env)
        /\ text \o tail = TextOf(c)
        /\ Recorded(text, lists)
  BY DEF Explained
<1>2. PICK more \in Seq(Communication) :
        /\ Explains(c, Append(Under(stk), Past(f)), env, more)
        /\ Utters(c, f, env, tail, more)
  BY <1>1, ExplainsHere
<1>3. com = Spoken(e, env)
  BY <1>1, SpokenAgrees
<1>4. com \in Communication
  BY <1>3, SpokenTyped
<1>5. tail = <<com>> \o more
  <2>1. Says(Written(c), e, env) = <<com>>
    <3>1. e.tag = "com"
      BY DEF CommunicationExpr
    <3>. QED
      BY <1>3, <3>1 DEF Says
  <2>. QED
    BY <1>2, <2>1 DEF Utters
<1>6. Append(text, com) \o more = TextOf(c)
  <2>1. PICK one \in Seq(Communication) : one = <<com>>
    <3>1. <<com>> \in Seq(Communication)
      BY <1>4
    <3>. QED
      BY <3>1
  <2>2. Associative(text, one, more)
    BY Assoc, Zenon
  <2>3. (text \o one) \o more = TextOf(c)
    BY <1>1, <1>5, <2>1, <2>2 DEF Associative
  <2>4. text \o <<com>> = Append(text, com)
    BY <1>4
  <2>. QED
    BY <2>1, <2>3, <2>4
<1>7. Append(text, com) \in Seq(Communication)
  BY <1>4
<1>8. Recorded(Append(text, com),
               addProjection(addProjection(lists, com.from, ActOf("send", com)),
                             com.to, ActOf("receive", com)))
  BY <1>1, <1>4, RecordedMore DEF Sound
<1>. QED
  BY <1>1, <1>2, <1>6, <1>7, <1>8 DEF Explained

(* An index that has no value, or one out of range, is ill-formed text. *)
LEMMA ExplainedThrow ==
  ASSUME NEW c \in Choreos, NEW stk \in Seq(Frame), stk # << >>,
         NEW map, IsMap(map, Id, SizeT), NEW lists, Explained(c, stk, map, lists),
         NEW f, f = Innermost(stk), f.pos <= Len(c.lists[f.list]),
         NEW e \in CommunicationExpr, e = c.lists[f.list][f.pos],
         ~Sound(Spoken(e, map)), ~ShadowedIn(c)
  PROVE  ~WellFormed(TextOf(c))
<1>1. PICK env \in Env, tail \in Seq(Communication), text \in Seq(Communication) :
        /\ Explains(c, stk, env, tail)
        /\ Remembers(c, map, env)
        /\ text \o tail = TextOf(c)
  BY DEF Explained
<1>2. map = env
  <2>1. DOMAIN map = DOMAIN env /\ \A x \in DOMAIN map : map[x] = env[x]
    BY <1>1 DEF Remembers
  <2>2. map = [x \in DOMAIN map |-> map[x]] /\ env = [x \in DOMAIN env |-> env[x]]
    BY EnvIsMap DEF IsMap
  <2>. QED
    BY <2>1, <2>2
<1>3. PICK more \in Seq(Communication) : Utters(c, f, env, tail, more)
  BY <1>1, ExplainsHere
<1>4. PICK com \in Communication : com = Spoken(e, env)
  BY SpokenTyped
<1>5. tail = <<com>> \o more
  <2>1. Says(Written(c), e, env) = <<com>>
    <3>1. e.tag = "com"
      BY DEF CommunicationExpr
    <3>. QED
      BY <1>4, <3>1 DEF Says
  <2>. QED
    BY <1>3, <2>1 DEF Utters
<1>6. Len(text) + 1 \in DOMAIN TextOf(c) /\ TextOf(c)[Len(text) + 1] = com
  <2>1. Len(tail) \in Nat \ {0} /\ tail[1] = com
    BY <1>5
  <2>2. Len(text) + 1 \in DOMAIN (text \o tail) /\ (text \o tail)[Len(text) + 1] = tail[1]
    BY <2>1
  <2>. QED
    BY <1>1, <2>1, <2>2
<1>7. ~Sound(com)
  BY <1>2, <1>4
<1>. QED
  BY <1>6, <1>7 DEF WellFormed, Sound

ProjectsIn(c, lists) ==
  /\ WellFormed(TextOf(c))
  /\ DOMAIN lists = ActingIn(TextOf(c))
  /\ \A k \in DOMAIN lists : lists[k] = Does(k, TextOf(c))

(* An empty stack has said it all. *)
LEMMA ExplainedEnd ==
  ASSUME NEW c \in Choreos, NEW map, NEW lists, Explained(c, << >>, map, lists)
  PROVE  ProjectsIn(c, lists)
<1>1. PICK env \in Env, tail \in Seq(Communication), text \in Seq(Communication) :
        /\ Explains(c, << >>, env, tail)
        /\ text \o tail = TextOf(c)
        /\ Recorded(text, lists)
  BY DEF Explained
<1>2. tail = << >>
  <2>1. PICK none \in Seq(Frame) : none = << >> /\ Len(none) = 0
    <3>1. << >> \in Seq(Frame) /\ Len(<< >>) = 0
      OBVIOUS
    <3>. QED
      BY <3>1
  <2>2. Explains(c, none, env, tail)
    BY <1>1, <2>1
  <2>3. Len(none) = 0
    BY <2>1
  <2>4. \A x : Explains(c, none, env, x) => x = << >>
    BY <2>3 DEF Explains, ExplainedBy
  <2>. QED
    BY <2>2, <2>4
<1>3. text \o << >> = text
  OBVIOUS
<1>4. text = TextOf(c)
  BY <1>1, <1>2, <1>3
<1>. QED
  BY <1>1, <1>4 DEF Recorded, ProjectsIn

----------------------------------------------------------------------------
(***************************************************************************)
(* The inductive invariant of the text: a walk that is running stands      *)
(* where its stack says, what it has recorded and what the stack explains  *)
(* being the choreography written out.                                     *)
(***************************************************************************)
TextInv ==
  /\ choreo \in Choreos
  /\ outcome = "running" <=> stack # << >>
  /\ Linked(choreo, stack)
  /\ PlainIn(choreo) =>
       /\ stack # << >> => Explained(choreo, stack, indexIdentifierMap, projectionMap)
       /\ outcome = "done" => ProjectsIn(choreo, projectionMap)
       /\ outcome = "failed" => ShadowedIn(choreo) \/ ~WellFormed(TextOf(choreo))

(* The walk starts in the invariant. *)
LEMMA InitText == Init => TextInv
<1>. SUFFICES ASSUME Init PROVE TextInv
  OBVIOUS
<1>1. /\ choreo \in Choreos /\ stack = <<Visiting(choreo.top)>> /\ outcome = "running"
      /\ indexIdentifierMap = Empty /\ projectionMap = Empty
  BY DEF Init
<1>2. stack # << >>
  BY <1>1
<1>3. Linked(choreo, stack)
  BY <1>1, LinkedStart
<1>4. Explained(choreo, stack, indexIdentifierMap, projectionMap)
  BY <1>1, ExplainedStart
<1>. QED
  BY <1>1, <1>2, <1>3, <1>4 DEF TextInv

(* The words of the walk in those of the text. *)
LEMMA AtText ==
  ASSUME TypeOK, TextInv, NEW tag, At(tag)
  PROVE  /\ stack \in Seq(Frame) /\ stack # << >>
         /\ Top = Innermost(stack) /\ Top \in Frame /\ Popped = Under(stack)
         /\ Top.pos <= Len(choreo.lists[Top.list])
         /\ Here = choreo.lists[Top.list][Top.pos] /\ Here \in Expr /\ Here.tag = tag
         /\ Here \in ActingOf(choreo, Top.list)
         /\ Past(Top) \in Frame /\ Past(Top).list = Top.list /\ Past(Top).var = Top.var
         /\ Advanced = Append(Under(stack), Past(Top))
<1>1. Running /\ ~AtEnd /\ Here.tag = tag
  BY DEF At
<1>2. stack \in Seq(Frame) /\ stack # << >>
  BY <1>1 DEF TypeOK, Running
<1>3. Top = Innermost(stack) /\ Popped = Under(stack)
  BY DEF Top, Popped, Innermost, Under
<1>4. Top \in Frame /\ choreo.lists[Top.list] \in Seq(Expr)
  BY <1>1, TopTyped DEF Expr
<1>5. Top.pos \in Nat \ {0} /\ Top.pos <= Len(choreo.lists[Top.list])
  <2>1. Len(choreo.lists[Top.list]) \in Nat
    BY <1>4
  <2>2. Top.pos \in Nat \ {0}
    BY <1>4 DEF Frame
  <2>. QED
    BY <1>1, <2>1, <2>2 DEF AtEnd
<1>6. Top.pos \in DOMAIN choreo.lists[Top.list]
  BY <1>4, <1>5
<1>7. Here \in Expr /\ Here \in ActingOf(choreo, Top.list)
  BY <1>4, <1>6 DEF Here, ActingOf
<1>8. Past(Top) \in Frame /\ Past(Top).list = Top.list /\ Past(Top).var = Top.var
  BY <1>4 DEF Past, Frame
<1>9. Advanced = [stack EXCEPT ![Len(stack)] = Past(Top)]
  BY <1>2 DEF Advanced, Past, Top
<1>10. Advanced = Append(Under(stack), Past(Top))
  BY <1>2, <1>8, <1>9, Replaced
<1>. QED
  BY <1>1, <1>2, <1>3, <1>4, <1>5, <1>7, <1>8, <1>10 DEF Here

(* Advancing keeps the links. *)
LEMMA LinkedPast ==
  ASSUME TypeOK, TextInv, NEW tag, At(tag)
  PROVE  Linked(choreo, Append(Under(stack), Past(Top)))
  BY AtText, LinkedReplaced DEF TextInv

(* VisitCom keeps the invariant. *)
LEMMA VisitComText == ASSUME TypeOK, TextInv, VisitCom PROVE TextInv'
<1>1. At("com") /\ Evaluates(Here)
  BY DEF VisitCom
<1>2. /\ stack' = Advanced /\ choreo' = choreo /\ outcome' = outcome
      /\ indexIdentifierMap' = indexIdentifierMap
  BY DEF VisitCom
<1>3. stack' = Append(Under(stack), Past(Top)) /\ stack # << >>
  BY <1>1, <1>2, AtText
<1>4. stack' # << >>
  BY <1>1, <1>3, AtText, Replaced
<1>5. Linked(choreo, stack')
  BY <1>1, <1>3, LinkedPast
<1>. DEFINE com == Spoken(Here, indexIdentifierMap)
<1>6. Key(Here.from) = com.from /\ Key(Here.to) = com.to
  BY DEF Key, Spoken
<1>7. Sound(com)
  <2>1. Key(Here.from) \in DeclaredKeys /\ Key(Here.to) \in DeclaredKeys
    BY <1>1, ComTyped
  <2>2. com.index \in SizeT
    BY <1>1 DEF Evaluates, Spoken
  <2>. QED
    BY <1>6, <2>1, <2>2 DEF Sound
<1>8. \A kind : Local(kind, Here) = ActOf(kind, com)
  BY DEF Local, ActOf, Spoken
<1>. HIDE DEF com
<1>9. projectionMap' = addProjection(addProjection(projectionMap, com.from, ActOf("send", com)),
                                     com.to, ActOf("receive", com))
  BY <1>6, <1>8 DEF VisitCom
<1>10. Here \in CommunicationExpr
  BY <1>1, HereTyped
<1>11. ASSUME PlainIn(choreo)
       PROVE  Explained(choreo, stack', indexIdentifierMap, projectionMap')
  <2>1. Explained(choreo, stack, indexIdentifierMap, projectionMap)
    BY <1>3, <1>11 DEF TextInv
  <2>2. choreo \in Choreos
    BY DEF TextInv
  <2>. QED
    BY <1>1, <1>3, <1>7, <1>9, <1>10, <2>1, <2>2, AtText, ExplainedCom DEF com
<1>. QED
  BY <1>2, <1>3, <1>4, <1>5, <1>11 DEF TextInv

(* Throw keeps it: what throws is ill-formed, or shadowed. *)
LEMMA ThrowText == ASSUME TypeOK, TextInv, Throw PROVE TextInv'
<1>1. At("com") /\ ~Evaluates(Here)
  BY DEF Throw
<1>2. stack' = << >> /\ choreo' = choreo /\ outcome' = "failed"
  BY DEF Throw
<1>3. Linked(choreo, << >>)
  <2>1. Len(<< >>) = 0 /\ 2 .. 0 = {} /\ 1 .. 0 = {}
    OBVIOUS
  <2>. QED
    BY <2>1 DEF Linked
<1>4. Here \in CommunicationExpr
  BY <1>1, HereTyped
<1>5. ~Sound(Spoken(Here, indexIdentifierMap))
  <2>1. ASSUME NEW e \in Role \X Seq(Term), Key(e) \in DeclaredKeys PROVE InRange(Key(e))
    <3>. DEFINE v == eval(e[2], indexIdentifierMap)
    <3>1. Key(e) = <<e[1], v>> /\ e[1] \in Role
      BY DEF Key
    <3>. HIDE DEF v
    <3>2. PICK q \in Role : <<e[1], v>> \in {q} \X (Lower[IndexOf[q]] .. Upper[IndexOf[q]])
      BY <2>1, <3>1 DEF DeclaredKeys
    <3>3. e[1] = q /\ v \in Lower[IndexOf[q]] .. Upper[IndexOf[q]]
      BY <3>2
    <3>. QED
      BY <3>1, <3>3 DEF InRange
  <2>2. Here.from \in Role \X Seq(Term) /\ Here.to \in Role \X Seq(Term)
    BY <1>4 DEF CommunicationExpr
  <2>3. /\ Spoken(Here, indexIdentifierMap).from = Key(Here.from)
        /\ Spoken(Here, indexIdentifierMap).to = Key(Here.to)
        /\ Spoken(Here, indexIdentifierMap).index = eval(Here.on[2], indexIdentifierMap)
    BY DEF Key, Spoken
  <2>. QED
    BY <1>1, <2>1, <2>2, <2>3 DEF Sound, Evaluates
<1>6. ASSUME PlainIn(choreo), ~ShadowedIn(choreo) PROVE ~WellFormed(TextOf(choreo))
  <2>1. stack # << >>
    BY <1>1, AtText
  <2>2. Explained(choreo, stack, indexIdentifierMap, projectionMap)
    BY <1>6, <2>1 DEF TextInv
  <2>3. choreo \in Choreos /\ IsMap(indexIdentifierMap, Id, SizeT)
    BY DEF TextInv, TypeOK
  <2>. QED
    BY <1>1, <1>4, <1>5, <1>6, <2>2, <2>3, AtText, ExplainedThrow
<1>. QED
  BY <1>2, <1>3, <1>6 DEF TextInv

(* Entering a list or a loop keeps the invariant. *)
LEMMA EnterText ==
  ASSUME TypeOK, TextInv, NEW tag \in {"list", "forEach"}, At(tag),
         NEW g, g = (IF Here.tag = "list" THEN Visiting(Here.body)
                     ELSE Pass(Here.body, Here.iter.var, min(Here.iter), max(Here.iter))),
         stack' = Append(Advanced, g),
         indexIdentifierMap' = (IF Here.tag = "list" THEN indexIdentifierMap
                                ELSE Bind(indexIdentifierMap, Here.iter.var, min(Here.iter))),
         UNCHANGED <<choreo, projectionMap, outcome>>
  PROVE  TextInv'
<1>1. /\ stack \in Seq(Frame) /\ stack # << >>
      /\ Top = Innermost(stack) /\ Top \in Frame
      /\ Top.pos <= Len(choreo.lists[Top.list])
      /\ Here = choreo.lists[Top.list][Top.pos] /\ Here \in Expr /\ Here.tag = tag
      /\ Here \in ActingOf(choreo, Top.list)
      /\ Past(Top) \in Frame /\ Past(Top).list = Top.list
      /\ Advanced = Append(Under(stack), Past(Top))
  BY AtText
<1>2. Here.tag # "com" /\ Here.body \in ListId
  BY <1>1, BodyTyped
<1>3. g \in Frame /\ Starts(Here, g)
  <2>1. CASE Here.tag = "list"
    <3>1. g = Visiting(Here.body)
      BY <2>1
    <3>2. g \in Frame
      BY <1>2, <3>1, SizeAssumption DEF Visiting, Pass, Frame, SizeT
    <3>3. g.list = Here.body /\ g.var = NoId
      BY <3>1 DEF Visiting, Pass
    <3>. QED
      BY <1>2, <3>2, <3>3 DEF Starts
  <2>2. CASE Here.tag = "forEach"
    <3>1. Here.iter \in Iteration
      BY <1>1, <2>2, BodyTyped
    <3>2. Here.iter.var \in Id /\ min(Here.iter) \in SizeT /\ max(Here.iter) \in SizeT
      BY <3>1, BoundsTyped DEF Iteration
    <3>3. g = Pass(Here.body, Here.iter.var, min(Here.iter), max(Here.iter))
      BY <2>2
    <3>4. g \in Frame /\ g.list = Here.body /\ g.var = Here.iter.var
      BY <1>2, <3>2, <3>3 DEF Pass, Frame
    <3>. QED
      BY <1>2, <2>2, <3>4 DEF Starts
  <2>. QED
    BY <1>1, <2>1, <2>2
<1>4. PICK adv \in Seq(Frame) : adv = Append(Under(stack), Past(Top)) /\ adv # << >>
                                /\ Innermost(adv) = Past(Top)
  BY <1>1, Replaced
<1>5. Linked(choreo, adv)
  BY <1>4, LinkedPast
<1>6. stack' = Append(adv, g) /\ stack' # << >>
  <2>1. Append(adv, g) # << >>
    OBVIOUS
  <2>. QED
    BY <1>1, <1>4, <2>1
<1>7. Linked(choreo, stack')
  <2>1. adv[Len(adv)].list = Top.list
    BY <1>1, <1>4 DEF Innermost
  <2>2. Here \in ActingOf(choreo, adv[Len(adv)].list)
    BY <1>1, <2>1
  <2>3. Linked(choreo, Append(adv, g))
    BY <1>3, <1>4, <1>5, <2>2, LinkedPush
  <2>. QED
    BY <1>6, <2>3
<1>8. ASSUME PlainIn(choreo)
      PROVE  Explained(choreo, stack', indexIdentifierMap', projectionMap)
  <2>1. Explained(choreo, stack, indexIdentifierMap, projectionMap) /\ choreo \in Choreos
    BY <1>1, <1>8 DEF TextInv
  <2>2. Here.tag = "forEach" => PlainIter(Here.iter)
    <3>1. Top.list \in ListId
      BY <1>1 DEF Frame
    <3>. QED
      BY <1>1, <1>8, <3>1 DEF PlainIn
  <2>3. Explained(choreo, Append(Append(Under(stack), Past(Top)), g), indexIdentifierMap', projectionMap)
    BY <1>1, <1>2, <2>1, <2>2, ExplainedEnter
  <2>. QED
    BY <1>4, <1>6, <2>3
<1>. QED
  BY <1>1, <1>6, <1>7, <1>8 DEF TextInv

(* VisitList keeps it. *)
LEMMA VisitListText == ASSUME TypeOK, TextInv, VisitList PROVE TextInv'
<1>1. At("list") /\ Here.tag = "list"
  BY DEF VisitList, At
<1>2. /\ stack' = Append(Advanced, Visiting(Here.body))
      /\ UNCHANGED <<choreo, indexIdentifierMap, projectionMap, outcome>>
  BY DEF VisitList
<1>. QED
  BY <1>1, <1>2, EnterText

(* EnterForEach keeps it. *)
LEMMA EnterForEachText == ASSUME TypeOK, TextInv, EnterForEach PROVE TextInv'
<1>1. At("forEach") /\ Here.tag = "forEach"
  BY DEF EnterForEach, At
<1>2. /\ stack' = Append(Advanced, Pass(Here.body, Here.iter.var, min(Here.iter), max(Here.iter)))
      /\ indexIdentifierMap' = Bind(indexIdentifierMap, Here.iter.var, min(Here.iter))
      /\ UNCHANGED <<choreo, projectionMap, outcome>>
  BY DEF EnterForEach
<1>. QED
  BY <1>1, <1>2, EnterText

(* SkipForEach keeps it: no plain loop is passed over. *)
LEMMA SkipForEachText == ASSUME TypeOK, TextInv, SkipForEach PROVE TextInv'
<1>1. At("forEach") /\ Here.tag = "forEach" /\ Upper[Here.iter.over] = SizeMax
  BY DEF SkipForEach, At, Unbounded
<1>2. stack' = Advanced /\ choreo' = choreo /\ outcome' = outcome
  BY DEF SkipForEach
<1>3. stack' = Append(Under(stack), Past(Top)) /\ stack # << >>
  BY <1>1, <1>2, AtText
<1>4. stack' # << >>
  BY <1>1, <1>3, AtText, Replaced
<1>5. Linked(choreo, stack')
  BY <1>1, <1>3, LinkedPast
<1>6. ~PlainIn(choreo)
  <2>1. Top.list \in ListId /\ Here \in ActingOf(choreo, Top.list)
    BY <1>1, AtText DEF Frame
  <2>2. ~(SizeMax < SizeMax)
    BY SizeAssumption
  <2>. QED
    BY <1>1, <2>1, <2>2 DEF PlainIn, PlainIter
<1>. QED
  BY <1>2, <1>3, <1>4, <1>5, <1>6 DEF TextInv

(* The end of a list. *)
LEMMA EndText ==
  ASSUME TypeOK, TextInv, Running, AtEnd
  PROVE  /\ stack \in Seq(Frame) /\ stack # << >> /\ choreo \in Choreos
         /\ Top = Innermost(stack) /\ Top \in Frame /\ Popped = Under(stack)
         /\ Top.pos > Len(choreo.lists[Top.list])
         /\ Linked(choreo, stack)
         /\ PlainIn(choreo) => Explained(choreo, stack, indexIdentifierMap, projectionMap)
<1>1. stack \in Seq(Frame) /\ stack # << >>
  BY DEF TypeOK, Running
<1>2. Top = Innermost(stack) /\ Popped = Under(stack)
  BY DEF Top, Popped, Innermost, Under
<1>3. Top \in Frame
  BY TopTyped
<1>. QED
  BY <1>1, <1>2, <1>3 DEF TextInv, AtEnd

(* NextRound keeps it. *)
LEMMA NextRoundText == ASSUME TypeOK, TextInv, NextRound PROVE TextInv'
<1>1. Running /\ AtEnd /\ Top.var # NoId /\ Top.el # Top.max
  BY DEF NextRound, InLoop, LastRound
<1>. DEFINE g == Pass(Top.list, Top.var, Successor(Top.el), Top.max)
<1>2. /\ stack' = [stack EXCEPT ![Len(stack)] = g]
      /\ indexIdentifierMap' = Bind(indexIdentifierMap, Top.var, Successor(Top.el))
      /\ choreo' = choreo /\ projectionMap' = projectionMap /\ outcome' = outcome
  BY DEF NextRound
<1>3. g \in Frame /\ g.list = Top.list /\ g.var = Top.var
  <2>1. Top \in Frame
    BY <1>1, EndText
  <2>2. Successor(Top.el) \in SizeT
    BY <2>1, SuccessorTyped DEF Frame
  <2>. QED
    BY <2>1, <2>2 DEF Pass, Frame
<1>. HIDE DEF g
<1>4. stack' = Append(Under(stack), g) /\ stack' # << >> /\ stack # << >>
  BY <1>1, <1>2, <1>3, EndText, Replaced
<1>5. Linked(choreo, stack')
  BY <1>1, <1>3, <1>4, EndText, LinkedReplaced
<1>6. ASSUME PlainIn(choreo)
      PROVE  Explained(choreo, stack', indexIdentifierMap', projectionMap)
  <2>1. Explained(choreo, stack, indexIdentifierMap, projectionMap)
    BY <1>1, <1>6, EndText
  <2>2. Explained(choreo, Append(Under(stack), g),
                  Bind(indexIdentifierMap, Top.var, Successor(Top.el)), projectionMap)
    BY <1>1, <2>1, EndText, ExplainedRound DEF g
  <2>. QED
    BY <1>2, <1>4, <2>2
<1>. QED
  BY <1>2, <1>4, <1>5, <1>6 DEF TextInv

(* LeaveForEach keeps it: the top list is no loop's body. *)
LEMMA LeaveForEachText == ASSUME TypeOK, TextInv, LeaveForEach PROVE TextInv'
<1>1. Running /\ AtEnd /\ Top.var # NoId /\ Top.el = Top.max
  BY DEF LeaveForEach, InLoop, LastRound
<1>2. /\ stack' = Under(stack)
      /\ indexIdentifierMap' = Erase(indexIdentifierMap, Top.var)
      /\ choreo' = choreo /\ projectionMap' = projectionMap /\ outcome' = outcome
  BY <1>1, EndText DEF LeaveForEach
<1>3. Linked(choreo, stack')
  BY <1>1, <1>2, EndText, LinkedPop
<1>4. stack' # << >> /\ stack # << >>
  <2>1. Len(stack) # 1
    BY <1>1, EndText DEF Linked, Innermost
  <2>2. Len(Under(stack)) = Len(stack) - 1 /\ Len(stack) \in Nat /\ stack # << >>
    BY <1>1, EndText, UnderTyped
  <2>3. Len(stack) # 0
    BY <1>1, EndText
  <2>4. Len(Under(stack)) # 0
    BY <2>1, <2>2, <2>3
  <2>. QED
    BY <1>2, <2>2, <2>4
<1>5. ASSUME PlainIn(choreo)
      PROVE  Explained(choreo, stack', indexIdentifierMap', projectionMap)
  BY <1>1, <1>2, <1>5, EndText, ExplainedLeave
<1>. QED
  BY <1>2, <1>3, <1>4, <1>5 DEF TextInv

(* LeaveList keeps it: with the last list the text ends. *)
LEMMA LeaveListText == ASSUME TypeOK, TextInv, LeaveList PROVE TextInv'
<1>1. Running /\ AtEnd /\ Top.var = NoId
  BY DEF LeaveList, InLoop
<1>2. /\ stack' = Under(stack)
      /\ outcome' = IF Len(stack) = 1 THEN "done" ELSE outcome
      /\ UNCHANGED <<choreo, indexIdentifierMap, projectionMap>>
  BY <1>1, EndText DEF LeaveList
<1>3. Linked(choreo, stack')
  BY <1>1, <1>2, EndText, LinkedPop
<1>4. ASSUME PlainIn(choreo)
      PROVE  Explained(choreo, stack', indexIdentifierMap, projectionMap)
  BY <1>1, <1>2, <1>4, EndText, ExplainedLeave
<1>5. stack # << >> /\ outcome = "running"
  BY <1>1 DEF TextInv, Running
<1>6. stack' = << >> <=> Len(stack) = 1
  <2>1. Len(Under(stack)) = Len(stack) - 1 /\ Len(stack) \in Nat
        /\ (Len(stack) = 1 => Under(stack) = << >>)
    BY <1>1, EndText, UnderTyped
  <2>2. Under(stack) = << >> => Len(Under(stack)) = 0
    OBVIOUS
  <2>. QED
    BY <1>2, <2>1, <2>2
<1>7. CASE Len(stack) = 1
  <2>1. stack' = << >> /\ outcome' = "done"
    BY <1>2, <1>6, <1>7
  <2>2. ASSUME PlainIn(choreo) PROVE ProjectsIn(choreo, projectionMap)
    BY <1>1, <1>4, <2>1, <2>2, EndText, ExplainedEnd
  <2>. QED
    BY <1>2, <1>3, <2>1, <2>2 DEF TextInv
<1>8. CASE Len(stack) # 1
  <2>1. stack' # << >> /\ outcome' = "running"
    BY <1>2, <1>5, <1>6, <1>8
  <2>. QED
    BY <1>2, <1>3, <1>4, <2>1 DEF TextInv
<1>. QED
  BY <1>7, <1>8

(* So does every step. *)
LEMMA NextText == TypeOK /\ TextInv /\ [Next \/ Done]_vars => TextInv'
<1>. SUFFICES ASSUME TypeOK, TextInv, [Next \/ Done]_vars PROVE TextInv'
  OBVIOUS
<1>1. CASE UNCHANGED vars
  BY <1>1 DEF vars, TextInv
<1>. QED
  BY <1>1, VisitComText, ThrowText, VisitListText, SkipForEachText, EnterForEachText,
     NextRoundText, LeaveForEachText, LeaveListText DEF Next, Done

(* Every reachable state satisfies it. *)
LEMMA TextInvariant == Spec => []TextInv
<1>1. WalkInv => TypeOK
  BY DEF WalkInv
<1>. QED
  BY InitText, NextText, WalkInvariant, <1>1, PTL DEF Spec

(* A projection that ends has, for every choreography without crossed or   *)
(* empty loops, given every participant what it does in the choreography   *)
(* written out, in order (AstVisitor.cpp:137-199, 213-248).                *)
THEOREM WrittenIsProjected == Spec => []ProjectsWritten
<1>1. TextInv => ProjectsWritten
  BY OfChoreo DEF TextInv, ProjectsWritten, ProjectsIn, Projects
<1>. QED
  BY TextInvariant, <1>1, PTL

(* One that fails fails for a cause in the choreography's text, or for an  *)
(* identifier re-used by an inner loop (AstVisitor.cpp:246).               *)
THEOREM FailuresHaveCauses == Spec => []FailsForCause
<1>1. TextInv => FailsForCause
  BY OfChoreo DEF TextInv, FailsForCause
<1>. QED
  BY TextInvariant, <1>1, PTL
=============================================================================
