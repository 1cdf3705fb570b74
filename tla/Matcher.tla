------------------------------ MODULE Matcher ------------------------------
(***************************************************************************)
(* The search that decides whether one C++ method carries out the local    *)
(* protocol of a participant: the recursive procedures                     *)
(* Psend::validateFunctionDecl and Precieve::validateFunctionDecl          *)
(* (src/src/pchor/ast/PchorProjection.cpp).                                *)
(*                                                                         *)
(* The procedure belongs to one projection, "this", and scans the          *)
(* statements of one scope for the first one that performs it.  A call of  *)
(* a method whose definition is known is scanned first, by a recursive     *)
(* call.  When the projection is found, the rest of the scope is handed to *)
(* another projection of the list by a tail call, which shares the scope,  *)
(* its iterators and the caller's result pointer with the call it          *)
(* replaces.  One frame of `stack' is therefore one scope; its self is the *)
(* projection that is searching it now.                                    *)
(***************************************************************************)
EXTENDS Naturals, FiniteSets, Sequences

CONSTANTS
  Fn,          \* the functions whose definition clang has seen
  Main,        \* the method under validation
  NoFn,        \* the callee of a statement that calls no such function
  Channel,     \* field declarations the choreography's channels map to
  Type,        \* record declarations its data types map to
  Programs,    \* the bodies to validate: functions from Fn to Seq(Stmt)
  Choreos,     \* the projection lists to validate them against
  MaxDepth     \* the number of nested calls the C++ stack holds

(***************************************************************************)
(* A statement is what the two clang matchers can tell of it: its class,   *)
(* the assignments <<channel, type>> in it, the channels its loop          *)
(* condition reads, and the method it calls, if that has a definition.     *)
(***************************************************************************)
sendSet == {"CXXOperatorCallExpr", "CallExpr", "BinaryOperator",
            "ExprWithCleanups", "CXXMemberCallExpr"}
recieveSet == {"WhileStmt", "ExprWithCleanups", "CXXMemberCallExpr"}
StmtClass == sendSet \cup recieveSet \cup {"Other"}

Stmt == [cls    : StmtClass,
         writes : SUBSET (Channel \X Type),
         waits  : SUBSET Channel,
         callee : Fn \cup {NoFn}]

Projection == [kind : {"send", "receive"}, channel : Channel, type : Type]

ASSUME MatcherAssumption ==
  /\ Main \in Fn
  /\ NoFn \notin Fn
  /\ Programs \subseteq [Fn -> Seq(Stmt)]
  /\ Choreos \subseteq Seq(Projection) \ {<< >>}
  /\ MaxDepth \in Nat \ {0}

VARIABLES
  code,        \* the program under validation; never changes
  projs,       \* the participant's projection list; never changes
  stack,       \* the scopes being searched, the innermost one last
  verdict,     \* how the outermost call ended, "none" before it has
  nested,      \* what that call left in the caller's result pointer
  stop,        \* where it left the caller's statement iterator
  trail        \* history: the statements passed, in the order of passing

vars == <<code, projs, stack, verdict, nested, stop, trail>>

(***************************************************************************)
(* A pointer to a projection is its index in the list; 0 is nullptr.       *)
(***************************************************************************)
Null == 0
N == Len(projs)
Pointer == 0 .. N
NextOfUnbounded(k) == k + 1      \* slip: no null after the last
NextOf(k) == IF k < N THEN k + 1 ELSE Null

Inspects(p, s) == s.cls \in IF p.kind = "send" THEN sendSet ELSE recieveSet

validateSendExpression(p, s) == <<p.channel, p.type>> \in s.writes

validateRecieveExpression(p, s) == s.cls = "WhileStmt" /\ p.channel \in s.waits

Performs(p, s) ==
  /\ Inspects(p, s)
  /\ IF p.kind = "send" THEN validateSendExpression(p, s)
                        ELSE validateRecieveExpression(p, s)

findFunctionDefinition(s) == s.callee

Call(k, f) == [self |-> k, fn |-> f, cpy |-> 1, matched |-> FALSE, child |-> Null]

Init ==
  /\ code \in Programs
  /\ projs \in Choreos
  /\ stack = <<Call(1, Main)>>
  /\ verdict = "none"
  /\ nested = Null
  /\ stop = 1
  /\ trail = << >>

----------------------------------------------------------------------------
Top == stack[Len(stack)]
Running == stack # << >>
BodyOf(f) == code[f.fn]
AtEnd == Top.cpy > Len(BodyOf(Top))
Here == BodyOf(Top)[Top.cpy]
This == projs[Top.self]

ScannedIfMatched == Running /\ Top.matched  \* slip: the end of the scope is not one
Scanning == Running /\ ~Top.matched /\ ~AtEnd
Scanned  == Running /\ (Top.matched \/ AtEnd)

Calls == Inspects(This, Here) /\ ~Performs(This, Here) /\ findFunctionDefinition(Here) # NoFn

SetTop(f) == stack' = [stack EXCEPT ![Len(stack)] = f]

(* The program ends without an answer. *)
Die(how) ==
  /\ verdict' = how
  /\ stack' = << >>
  /\ UNCHANGED <<code, projs, nested, stop, trail>>

(***************************************************************************)
(* The loop: one statement per step, and the iterator moves past it.       *)
(***************************************************************************)
MatchStmt ==
  /\ Scanning
  /\ Performs(This, Here)
  /\ SetTop([Top EXCEPT !.matched = TRUE, !.cpy = @ + 1])
  /\ trail' = Append(trail, Here)
  /\ UNCHANGED <<code, projs, verdict, nested, stop>>

SkipStmt ==
  /\ Scanning
  /\ ~Performs(This, Here)
  /\ ~Calls
  /\ SetTop([Top EXCEPT !.cpy = @ + 1])
  /\ trail' = Append(trail, Here)
  /\ UNCHANGED <<code, projs, verdict, nested, stop>>

(* Slips: the callee searched for the first projection of the list; the  *)
(* caller's own body iterated in place of the callee's.                  *)
EnterCalleeAtFirst ==
  /\ Scanning
  /\ Calls
  /\ Len(stack) < MaxDepth
  /\ stack' = Append(stack, Call(1, findFunctionDefinition(Here)))
  /\ UNCHANGED <<code, projs, verdict, nested, stop, trail>>

EnterOwnBody ==
  /\ Scanning
  /\ Calls
  /\ Len(stack) < MaxDepth
  /\ stack' = Append(stack, Call(Top.self, Top.fn))
  /\ UNCHANGED <<code, projs, verdict, nested, stop, trail>>

EnterCallee ==
  /\ Scanning
  /\ Calls
  /\ Len(stack) < MaxDepth
  /\ stack' = Append(stack, Call(Top.self, findFunctionDefinition(Here)))
  /\ UNCHANGED <<code, projs, verdict, nested, stop, trail>>

StackOverflow ==
  /\ Scanning
  /\ Calls
  /\ Len(stack) = MaxDepth
  /\ Die("overflow")

(***************************************************************************)
(* The message printed when a scope is exhausted names the statement at    *)
(* itr.  In an empty scope itr is the end iterator, and what reading       *)
(* through it does is undefined: the program may stop here, or go on.      *)
(***************************************************************************)
ReadPastEmptyBody ==
  /\ Running
  /\ BodyOf(Top) = << >>
  /\ Die("crash")

(***************************************************************************)
(* After the loop, statements left: a tail call takes over the scope.      *)
(***************************************************************************)
(* Slips: the iterator taken by value, and started over; moved twice.    *)
ContinueFromStart(k) ==
  /\ Scanned
  /\ ~AtEnd
  /\ SetTop(Call(k, Top.fn))
  /\ UNCHANGED <<code, projs, verdict, nested, stop, trail>>

ContinueAfterHere(k) ==
  /\ Scanned
  /\ ~AtEnd
  /\ SetTop([Top EXCEPT !.self = k, !.matched = FALSE, !.child = Null, !.cpy = @ + 1])
  /\ UNCHANGED <<code, projs, verdict, nested, stop, trail>>

ContinueWith(k) ==
  /\ Scanned
  /\ ~AtEnd
  /\ SetTop([Top EXCEPT !.self = k, !.matched = FALSE, !.child = Null])
  /\ UNCHANGED <<code, projs, verdict, nested, stop, trail>>

ContinueChild == Running /\ Top.child # Null /\ ContinueWith(Top.child)

ContinueNext == Running /\ Top.child = Null /\ Top.self < N /\ ContinueWith(Top.self + 1)

(***************************************************************************)
(* Returning.  The caller's loop takes the result as its match, moves past *)
(* the call statement, and finds in its child pointer what the callee put  *)
(* there: nothing new unless the callee reached the end of its scope.      *)
(***************************************************************************)
ReturnTo(caller, written) ==
  [caller EXCEPT !.matched = Top.matched,
                 !.cpy = @ + 1,
                 !.child = IF AtEnd THEN written ELSE @]

Return(written) ==
  /\ IF Len(stack) = 1
       THEN /\ stack' = << >>
            /\ verdict' = IF Top.matched THEN "true" ELSE "false"
            /\ nested' = IF AtEnd THEN written ELSE nested
            /\ stop' = Top.cpy
       ELSE /\ stack' = [SubSeq(stack, 1, Len(stack) - 1)
                           EXCEPT ![Len(stack) - 1] = ReturnTo(@, written)]
            /\ UNCHANGED <<verdict, nested, stop>>
  /\ UNCHANGED <<code, projs, trail>>

ReturnEarly ==
  /\ Scanned
  /\ ~AtEnd
  /\ Top.child = Null
  /\ Top.self = N
  /\ Return(Null)

(* Slip: a scope exhausted without a match names the next projection.    *)
ReturnNextAtEnd ==
  /\ Scanned
  /\ AtEnd
  /\ Return(NextOf(Top.self))

ReturnAtEnd ==
  /\ Scanned
  /\ AtEnd
  /\ Return(IF Top.matched THEN NextOf(Top.self) ELSE Top.self)

Next ==
  \/ MatchStmt
  \/ SkipStmt
  \/ EnterCallee
  \/ StackOverflow
  \/ ReadPastEmptyBody
  \/ ContinueChild
  \/ ContinueNext
  \/ ReturnEarly
  \/ ReturnAtEnd

(***************************************************************************)
(* One thread runs the plugin; it only stops where the program ends.       *)
(***************************************************************************)
Done == verdict # "none" /\ UNCHANGED vars

Spec == Init /\ [][Next \/ Done]_vars
FairSpec == Spec /\ WF_vars(Next)

----------------------------------------------------------------------------
Frame == [self : 1 .. N, fn : Fn, cpy : Nat \ {0}, matched : BOOLEAN, child : Pointer]

(* Every variable has its type; the input lists are never empty. *)
TypeOK ==
  /\ code \in [Fn -> Seq(Stmt)]
  /\ projs \in Seq(Projection) \ {<< >>}
  /\ stack \in Seq(Frame)
  /\ verdict \in {"none", "true", "false", "crash", "overflow"}
  /\ nested \in Pointer
  /\ stop \in Nat \ {0}
  /\ trail \in Seq(Stmt)

(***************************************************************************)
(* The first k projections of P are performed by statements of s, in the   *)
(* order of the list: f says which one performs which.                     *)
(***************************************************************************)
Embeds(P, k, s) ==
  \E f \in [1 .. k -> 1 .. Len(s)] :
    /\ \A i \in 1 .. k : Performs(P[i], s[f[i]])
    /\ \A i, j \in 1 .. k : i < j => f[i] < f[j]

(* What a result pointer promises: all projections before it are done. *)
DoneBefore(p) == Embeds(projs, IF p = Null THEN N ELSE p - 1, trail)

(***************************************************************************)
(* The pointer an accepting or rejecting call leaves behind is exact       *)
(* (lines 83-94): every projection before it was found, in order, in the   *)
(* statements passed; null after an acceptance means that all were.  An    *)
(* acceptance has found at least the first projection, and a rejection     *)
(* always names the projection that was missing.                           *)
(***************************************************************************)
PointerExact ==
  /\ verdict = "true" => DoneBefore(nested) /\ Embeds(projs, 1, trail) /\ nested # 1
  /\ verdict = "false" => nested # Null /\ DoneBefore(nested)

(***************************************************************************)
(* A call searches the statement its caller stands at, on behalf of a      *)
(* projection the caller has not passed: the search of the list never goes *)
(* back behind what an enclosing call is looking for, and the pointer a    *)
(* callee left never does either.                                          *)
(***************************************************************************)
NeverBehindCaller ==
  /\ \A i \in 1 .. Len(stack) : stack[i].child = Null \/ stack[i].self <= stack[i].child
  /\ \A i \in 1 .. Len(stack) - 1 :
       /\ ~stack[i].matched
       /\ stack[i].cpy <= Len(BodyOf(stack[i]))
       /\ stack[i].self <= stack[i + 1].self
       /\ stack[i + 1].fn = findFunctionDefinition(BodyOf(stack[i])[stack[i].cpy])

(***************************************************************************)
(* Only a program whose calls nest too deep, or in a circle, exhausts the  *)
(* stack: the validator has no guard of its own against recursive methods  *)
(* (lines 51-58), but a call graph that fits the stack never breaks it.    *)
(***************************************************************************)
CalledBy(f) == {code[f][i].callee : i \in DOMAIN code[f]} \cap Fn

CallsFit == \E rank \in [Fn -> 0 .. MaxDepth - 1] :
              \A f \in Fn : \A g \in CalledBy(f) : rank[g] < rank[f]

OverflowOnlyIfTooDeep == verdict = "overflow" => ~CallsFit

(***************************************************************************)
(* Reference: what a function does when it runs.  Upto(f, calls)[k] is     *)
(* what its first k statements do, with the functions they call as `calls' *)
(* has them; Inlined[d] is what each function does with d levels of calls  *)
(* followed, its own included.                                             *)
(***************************************************************************)
Part(s, calls) == IF s.callee \in DOMAIN calls THEN calls[s.callee] ELSE <<s>>

Upto(f, calls) ==
  LET upto[k \in 0 .. Len(code[f])] ==
        IF k = 0 THEN << >> ELSE upto[k - 1] \o Part(code[f][k], calls)
  IN  upto

Inlined ==
  LET does[d \in 0 .. MaxDepth] ==
        IF d = 0 THEN << >> ELSE [f \in Fn |-> Upto(f, does[d - 1])[Len(code[f])]]
  IN  does

Rank(S, i) == Cardinality({j \in S : j <= i})

(***************************************************************************)
(* The evidence for a verdict is in execution order: the statements that   *)
(* the search has passed, but for calls, can be found in what the method   *)
(* does with its helpers inlined, in that order, each at a place of its    *)
(* own, whatever was skipped, entered in vain or given up in the middle.   *)
(***************************************************************************)
Passed(s) == {i \in DOMAIN s : s[i].callee = NoFn}

EvidenceInOrder ==
  verdict \in {"true", "false"} =>
    LET does == Inlined[MaxDepth][Main]
    IN  \E found \in SUBSET DOMAIN does :
          /\ Cardinality(found) = Cardinality(Passed(trail))
          /\ \A i \in Passed(trail), j \in found :
               Rank(Passed(trail), i) = Rank(found, j) => does[j] = trail[i]

(***************************************************************************)
(* On code without helpers the search is complete: it rejects a method     *)
(* only when the list cannot be placed in its body (lines 34-62 take the   *)
(* first statement that performs each projection, which loses nothing).    *)
(***************************************************************************)
CallFree == \A i \in DOMAIN code[Main] : code[Main][i].callee = NoFn

FlatComplete == CallFree /\ verdict = "false" => ~Embeds(projs, N, code[Main])

(***************************************************************************)
(* What README.md:26 promises ("ensuring conformance to a choreography"):  *)
(* an accepted method carries out the whole list.  Refuted: a projection   *)
(* found at the last statement answers for all those after it (line 93).   *)
(***************************************************************************)
AcceptedConforms == verdict = "true" => Embeds(projs, N, trail)

(***************************************************************************)
(* What the comment of lines 84-89 says: after a success the search goes   *)
(* on from the next projection.  Refuted: a helper searched in vain before *)
(* the match leaves a pointer to "this", and line 74 follows it.           *)
(***************************************************************************)
ContinuesFromNext == Scanned /\ ~AtEnd => Top.child # Top.self

(* The search always ends: no loop of tail calls, no endless descent. *)
Terminates == <>(verdict # "none")
=============================================================================
