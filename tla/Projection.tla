----------------------------- MODULE Projection -----------------------------
(***************************************************************************)
(* Endpoint projection: Proj_PchorASTVisitor walks the final global type   *)
(* of a choreography, unrolls its loops, and appends to the list of every  *)
(* participant it meets what that participant does                         *)
(* (src/src/analyzer/visitors/AstVisitor.cpp, 115-250).                    *)
(*                                                                         *)
(* The visitor's recursion over the syntax tree is the stack of the        *)
(* expression lists being visited.  A global type named in another one is  *)
(* that one's list, shared: the tree is a graph of lists without cycles.   *)
(***************************************************************************)
EXTENDS Naturals, Sequences, FiniteSets, SequencesExt

CONSTANTS
  Role,        \* the names of participants, such as Process
  Channel,     \* the names of channels
  Type,        \* the names of data types
  Index,       \* the names of index declarations
  Id,          \* iteration identifiers
  NoId,        \* the iteration identifier of a list that is no loop's body
  SizeMax,     \* std::numeric_limits<size_t>::max()
  Lower, Upper,\* the bounds an index declaration gives; n stands for SizeMax
  IndexOf,     \* the index declaration of a role
  ListId,      \* the expression lists of a choreography
  Choreos      \* the choreographies: see Choreo

SizeT == 0 .. SizeMax

ASSUME SizeAssumption ==
  /\ SizeMax \in Nat \ {0}
  /\ Lower \in [Index -> SizeT]
  /\ Upper \in [Index -> SizeT]
  /\ IndexOf \in [Role -> Index]
  /\ NoId \notin Id

(***************************************************************************)
(* Index arithmetic, in postfix form: literals (min and max of an index    *)
(* are literals after parsing), iteration identifiers, sums, differences.  *)
(* Every operation throws rather than leave size_t, and an identifier      *)
(* without a value throws too; Undefined stands for the exception.         *)
(***************************************************************************)
Term == ({"literal"} \X SizeT) \cup ({"identifier"} \X Id) \cup {<<"+">>, <<"-">>}

Undefined == SizeMax + 1

AdditionExpr(l, r) == IF l + r > SizeMax THEN Undefined ELSE l + r

SubtractionExpr(l, r) == IF l = Undefined \/ l < r THEN Undefined ELSE l - r

Identifiers(e) == {e[i][2] : i \in {i \in DOMAIN e : e[i][1] = "identifier"}}

Substituted(e, env) ==
  [i \in DOMAIN e |-> IF e[i][1] = "identifier" THEN <<"literal", env[e[i][2]]>> ELSE e[i]]

Value(e) ==
  LET Step(s, t) ==
        CASE t[1] = "literal" -> <<t[2]>> \o s
          [] t[1] = "+" -> <<AdditionExpr(s[2], s[1])>> \o SubSeq(s, 3, Len(s))
          [] t[1] = "-" -> <<SubtractionExpr(s[2], s[1])>> \o SubSeq(s, 3, Len(s))
  IN  Head(FoldLeft(Step, << >>, e))

eval(e, env) ==
  IF Identifiers(e) \subseteq DOMAIN env THEN Value(Substituted(e, env)) ELSE Undefined

(***************************************************************************)
(* Expressions.  The bounds of an iteration are those parseIterExpr        *)
(* computes, in size_t: 0 - 1 is SizeMax.                                  *)
(***************************************************************************)
Iteration == [var : Id, kind : {":", "<", ">"}, over : Index]

PredecessorInZ(n) == n - 1   \* slip: a signed bound
Predecessor(n) == IF n = 0 THEN SizeMax ELSE n - 1
Successor(n) == IF n = SizeMax THEN 0 ELSE n + 1

min(it) == IF it.kind = ">" THEN Predecessor(Lower[it.over]) ELSE Lower[it.over]
max(it) == IF it.kind = "<" THEN Predecessor(Upper[it.over]) ELSE Upper[it.over]

CommunicationExpr ==
  [tag : {"com"}, from : Role \X Seq(Term), to : Role \X Seq(Term),
   on : Channel \X Seq(Term), type : Type]
ForEachExpr == [tag : {"forEach"}, iter : Iteration, body : ListId]
ListExpr == [tag : {"list"}, body : ListId]

Choreo == [top : ListId, lists : [ListId -> Seq(CommunicationExpr \cup ForEachExpr \cup ListExpr)]]

(* A list only holds lists that were complete before it was. *)
Acyclic(c) ==
  \E rank \in [ListId -> 0 .. Cardinality(ListId)] :
    \A l \in ListId : \A i \in DOMAIN c.lists[l] :
      c.lists[l][i].tag # "com" => rank[c.lists[l][i].body] < rank[l]

ASSUME ChoreoAssumption ==
  /\ IsFiniteSet(ListId)
  /\ Choreos \subseteq Choreo
  /\ \A c \in Choreos : Acyclic(c)

(* Maps are functions; IsMap says which keys and values one may have. *)
Empty == [x \in {} |-> x]
IsMap(f, D, R) == DOMAIN f \subseteq D /\ f \in [DOMAIN f -> R]

ParticipantKey == Role \X SizeT
LocalType == [kind : {"send", "receive"}, channel : Channel, index : SizeT, type : Type]

VARIABLES
  choreo,              \* the choreography; never changes
  stack,               \* the lists being visited, the innermost one last
  indexIdentifierMap,  \* the values of iteration identifiers
  projectionMap,       \* the list of every participant met so far
  mappingSuccess,
  outcome              \* "running", "done", "failed" (an exception escaped)

vars == <<choreo, stack, indexIdentifierMap, projectionMap, mappingSuccess, outcome>>

(* One pass through list l, with x = el in a loop that ends at m. *)
Pass(l, x, el, m) == [list |-> l, pos |-> 1, var |-> x, el |-> el, max |-> m]
Visiting(l) == Pass(l, NoId, 0, 0)

Init ==
  /\ choreo \in Choreos
  /\ stack = <<Visiting(choreo.top)>>
  /\ indexIdentifierMap = Empty
  /\ projectionMap = Empty
  /\ mappingSuccess = TRUE
  /\ outcome = "running"

----------------------------------------------------------------------------
Top == stack[Len(stack)]
Running == stack # << >>
AtEnd == Top.pos > Len(choreo.lists[Top.list])
Here == choreo.lists[Top.list][Top.pos]
At(tag) == Running /\ ~AtEnd /\ Here.tag = tag

Advanced == [stack EXCEPT ![Len(stack)].pos = @ + 1]
Popped == SubSeq(stack, 1, Len(stack) - 1)

Bind(env, x, v) == [y \in DOMAIN env \cup {x} |-> IF y = x THEN v ELSE env[y]]
Erase(env, x) == [y \in DOMAIN env \ {x} |-> env[y]]

(* Appended to the participant's list, which is created at need. *)
addProjection(map, k, p) ==
  [j \in DOMAIN map \cup {k} |->
     IF j # k THEN map[j] ELSE Append(IF k \in DOMAIN map THEN map[k] ELSE << >>, p)]

Key(e) == <<e[1], eval(e[2], indexIdentifierMap)>>

(* The bounds of a participant's index are checked, a channel's are not. *)
BelowUpper(k) == k[2] \in 0 .. Upper[IndexOf[k[1]]]   \* slip: the lower bound not checked
InRange(k) == k[2] \in Lower[IndexOf[k[1]]] .. Upper[IndexOf[k[1]]]

Evaluates(e) ==
  /\ eval(e.on[2], indexIdentifierMap) \in SizeT
  /\ InRange(Key(e.from))
  /\ InRange(Key(e.to))

(***************************************************************************)
(* visit(CommunicationExpr): the channel and its index first, then the     *)
(* sender's list, then the receiver's, which may be the same.              *)
(***************************************************************************)
Local(kind, e) ==
  [kind |-> kind, channel |-> e.on[1], index |-> eval(e.on[2], indexIdentifierMap), type |-> e.type]

VisitCom ==
  /\ At("com")
  /\ Evaluates(Here)
  /\ projectionMap' = addProjection(addProjection(projectionMap, Key(Here.from), Local("send", Here)),
                                    Key(Here.to), Local("receive", Here))
  /\ stack' = Advanced
  /\ UNCHANGED <<choreo, indexIdentifierMap, mappingSuccess, outcome>>

(* An exception unwinds the whole visit, and the lists go with the visitor. *)
Throw ==
  /\ At("com")
  /\ ~Evaluates(Here)
  /\ outcome' = "failed"
  /\ stack' = << >>
  /\ indexIdentifierMap' = Empty
  /\ projectionMap' = Empty
  /\ UNCHANGED <<choreo, mappingSuccess>>

(* visit(ExprList), for a global type named in this one. *)
VisitList ==
  /\ At("list")
  /\ stack' = Append(Advanced, Visiting(Here.body))
  /\ UNCHANGED <<choreo, indexIdentifierMap, projectionMap, mappingSuccess, outcome>>

(***************************************************************************)
(* visit(ForEachExpr).  An iteration over an index without an upper bound  *)
(* is passed over, whatever its kind, with a line on the console.          *)
(***************************************************************************)
Unbounded(e) == Upper[e.iter.over] = SizeMax

SkipForEach ==
  /\ At("forEach")
  /\ Unbounded(Here)
  /\ mappingSuccess' = FALSE
  /\ stack' = Advanced
  /\ UNCHANGED <<choreo, indexIdentifierMap, projectionMap, outcome>>

EnterForEach ==
  /\ At("forEach")
  /\ ~Unbounded(Here)
  /\ LET it == Here.iter
     IN  /\ stack' = Append(Advanced, Pass(Here.body, it.var, min(it), max(it)))
         /\ indexIdentifierMap' = Bind(indexIdentifierMap, it.var, min(it))
  /\ UNCHANGED <<choreo, projectionMap, mappingSuccess, outcome>>

InLoop == Top.var # NoId

LastRoundIfAbove == Top.el > Top.max   \* slip: the loop counts until the bound is exceeded
LastRound == Top.el = Top.max

NextRoundStale ==   \* slip: the identifier keeps its first value
  /\ Running /\ AtEnd /\ InLoop /\ ~LastRound
  /\ stack' = [stack EXCEPT ![Len(stack)] = Pass(Top.list, Top.var, Successor(Top.el), Top.max)]
  /\ UNCHANGED <<choreo, indexIdentifierMap, projectionMap, mappingSuccess, outcome>>

NextRound ==
  /\ Running /\ AtEnd /\ InLoop /\ ~LastRound
  /\ stack' = [stack EXCEPT ![Len(stack)] = Pass(Top.list, Top.var, Successor(Top.el), Top.max)]
  /\ indexIdentifierMap' = Bind(indexIdentifierMap, Top.var, Successor(Top.el))
  /\ UNCHANGED <<choreo, projectionMap, mappingSuccess, outcome>>

(* Slips: the identifier stays in the map; all identifiers are dropped. *)
LeaveForEachBound ==
  /\ Running /\ AtEnd /\ InLoop /\ LastRound
  /\ stack' = Popped
  /\ UNCHANGED <<choreo, indexIdentifierMap, projectionMap, mappingSuccess, outcome>>

LeaveForEachClear ==
  /\ Running /\ AtEnd /\ InLoop /\ LastRound
  /\ stack' = Popped
  /\ indexIdentifierMap' = Empty
  /\ UNCHANGED <<choreo, projectionMap, mappingSuccess, outcome>>

LeaveForEach ==
  /\ Running /\ AtEnd /\ InLoop /\ LastRound
  /\ stack' = Popped
  /\ indexIdentifierMap' = Erase(indexIdentifierMap, Top.var)
  /\ UNCHANGED <<choreo, projectionMap, mappingSuccess, outcome>>

LeaveList ==
  /\ Running /\ AtEnd /\ ~InLoop
  /\ stack' = Popped
  /\ outcome' = IF Len(stack) = 1 THEN "done" ELSE outcome
  /\ UNCHANGED <<choreo, indexIdentifierMap, projectionMap, mappingSuccess>>

Next ==
  \/ VisitCom
  \/ Throw
  \/ VisitList
  \/ SkipForEach
  \/ EnterForEach
  \/ NextRound
  \/ LeaveForEach
  \/ LeaveList

Done == outcome # "running" /\ UNCHANGED vars

Spec == Init /\ [][Next \/ Done]_vars
FairSpec == Spec /\ WF_vars(Next)

----------------------------------------------------------------------------
Frame == [list : ListId, pos : Nat \ {0}, var : Id \cup {NoId}, el : SizeT, max : SizeT]

(* Every variable has its type. *)
TypeOK ==
  /\ choreo \in Choreo
  /\ stack \in Seq(Frame)
  /\ IsMap(indexIdentifierMap, Id, SizeT)
  /\ IsMap(projectionMap, ParticipantKey, Seq(LocalType))
  /\ mappingSuccess \in BOOLEAN
  /\ outcome \in {"running", "done", "failed"}

(***************************************************************************)
(* A local type is only ever attributed to a participant its declaration   *)
(* has (lines 172-174), also when a loop's bounds are crossed and its      *)
(* identifier runs through all of size_t.                                  *)
(***************************************************************************)
DeclaredKeys == UNION {{r} \X (Lower[IndexOf[r]] .. Upper[IndexOf[r]]) : r \in Role}

KeysDeclared == DOMAIN projectionMap \subseteq DeclaredKeys

(***************************************************************************)
(* An identifier has a value only inside a loop over it, and then that of  *)
(* the innermost such loop's counter (lines 236-246): no value outlives    *)
(* its loop, and none is seen where another loop's should be.              *)
(***************************************************************************)
Loops(x) == {i \in DOMAIN stack : stack[i].var = x}

ScopesExact ==
  \A x \in DOMAIN indexIdentifierMap :
    \E i \in Loops(x) : /\ \A j \in Loops(x) : j <= i
                       /\ indexIdentifierMap[x] = stack[i].el

----------------------------------------------------------------------------
(***************************************************************************)
(* Reference: a choreography written out.  An iteration stands for its     *)
(* body, once for every index the comment of parseIterExpr                 *)
(* (PchorParser.cpp:556-562) names: all, all but the last, all but the     *)
(* first.  An identifier means the innermost loop it is written in.        *)
(***************************************************************************)
Env == UNION {[D -> SizeT] : D \in SUBSET Id}

From(it) == IF it.kind = ">" THEN Lower[it.over] + 1 ELSE Lower[it.over]
Rounds(it) == LET n == Upper[it.over] + 1 - Lower[it.over]
              IN  IF it.kind = ":" \/ n = 0 THEN n ELSE n - 1

Spoken(e, env) ==
  [from |-> <<e.from[1], eval(e.from[2], env)>>, to |-> <<e.to[1], eval(e.to[2], env)>>,
   channel |-> e.on[1], index |-> eval(e.on[2], env), type |-> e.type]

(* What e says, when w has what lists say. *)
Says(w, e, env) ==
  CASE e.tag = "com" -> <<Spoken(e, env)>>
    [] e.tag = "list" -> w[<<e.body, env>>]
    [] e.tag = "forEach" ->
         FlattenSeq([n \in 1 .. Rounds(e.iter) |->
           w[<<e.body, Bind(env, e.iter.var, From(e.iter) + n - 1)>>]])

ListSays(c, w, l, env) ==
  FlattenSeq([i \in DOMAIN c.lists[l] |-> Says(w, c.lists[l][i], env)])

Written(c) ==
  LET w[t \in ListId \X Env] == ListSays(c, w, t[1], t[2]) IN w

Text == Written(choreo)[<<choreo.top, Empty>>]

(* What participant k does in a communication, and in a sequence of them. *)
Part(k, com) ==
  LET act(kind) == [kind |-> kind, channel |-> com.channel, index |-> com.index, type |-> com.type]
  IN  (IF com.from = k THEN <<act("send")>> ELSE << >>)
      \o (IF com.to = k THEN <<act("receive")>> ELSE << >>)

Does(k, s) == FlattenSeq([i \in DOMAIN s |-> Part(k, s[i])])

WellFormed(s) ==
  \A i \in DOMAIN s : /\ {s[i].from, s[i].to} \subseteq DeclaredKeys
                      /\ s[i].index \in SizeT

ActingIn(s) == UNION {{s[i].from, s[i].to} : i \in DOMAIN s}

Acting(l) == {choreo.lists[l][i] : i \in DOMAIN choreo.lists[l]}
Iterations == {e.iter : e \in {e \in UNION {Acting(l) : l \in ListId} : e.tag = "forEach"}}

Bounded == \A it \in Iterations : Upper[it.over] < SizeMax

(* The loops whose bounds in size_t are those of the comment. *)
Plain ==
  \A it \in Iterations :
    \/ it.kind = ":" /\ Lower[it.over] <= Upper[it.over]
    \/ it.kind = "<" /\ Lower[it.over] < Upper[it.over]

(* A list reaches those it names or iterates, and whatever they reach. *)
Closed(S) == \A l \in S : \A e \in Acting(l) : e.tag # "com" => e.body \in S
Reaches(l, m) == \A S \in SUBSET ListId : l \in S /\ Closed(S) => m \in S

(* A loop over an identifier inside another loop over it. *)
Shadowed ==
  \E l, m \in ListId : \E e \in Acting(l), f \in Acting(m) :
    /\ e.tag = "forEach" /\ f.tag = "forEach" /\ e.iter.var = f.iter.var
    /\ Reaches(choreo.top, l)
    /\ Reaches(e.body, m)

(***************************************************************************)
(* A finished projection is the endpoint projection of the choreography    *)
(* written out: every participant that acts in it has a list, and the list *)
(* holds all it does and nothing else, in the order of the choreography    *)
(* (lines 137-199, 213-248).                                               *)
(***************************************************************************)
Projects ==
  /\ WellFormed(Text)
  /\ DOMAIN projectionMap = ActingIn(Text)
  /\ \A k \in DOMAIN projectionMap : projectionMap[k] = Does(k, Text)

ProjectsWritten == outcome = "done" /\ Bounded /\ Plain => Projects

(***************************************************************************)
(* A projection fails only for a cause in the choreography: an index out   *)
(* of its range, or an identifier without a value, in the text written     *)
(* out, or an identifier re-used by an inner loop (which line 246 erases   *)
(* for the outer one too).                                                 *)
(***************************************************************************)
FailsForCause ==
  outcome = "failed" /\ Bounded /\ Plain => Shadowed \/ ~WellFormed(Text)

(***************************************************************************)
(* test/multiCastTest/desc.txt:10 has the protocol of an iteration without *)
(* an upper bound validated.  Refuted: the iteration is passed over, the   *)
(* flag that records it is never read, and whoever only acts in it gets    *)
(* no local protocol, and no validation.                                   *)
(***************************************************************************)
EveryRoleProjected ==
  outcome = "done" =>
    \A e \in Acting(choreo.top) : e.tag = "forEach" =>
      \A c \in Acting(e.body) : c.tag = "com" =>
        {c.from[1], c.to[1]} \subseteq {k[1] : k \in DOMAIN projectionMap}

(***************************************************************************)
(* The walk always ends: a loop stops at its last value even when that     *)
(* lies below its first, or is the largest size_t.                         *)
(***************************************************************************)
Terminates == <>(outcome # "running")
=============================================================================
