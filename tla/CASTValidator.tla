--------------------------- MODULE CASTValidator ---------------------------
(***************************************************************************)
(* CASTValidator::validateProjection with the search it starts for every   *)
(* candidate method: ValidationReport, which has the loops and the books,  *)
(* and Matcher composed.  A step of the search is a step of the validator; *)
(* between two searches the validator files the verdict and moves on.      *)
(***************************************************************************)
EXTENDS Naturals, Sequences, SequencesExt

CONSTANTS
  Participant, Name, Method, Methods, NameOf, KindOf, Defined,  \* see ValidationReport
  Fn, NoFn, Channel, Type, Programs, Choreos, MaxDepth,         \* see Matcher
  Projections   \* the projection maps: functions from Participant to Choreos

VARIABLES
  todo, cur, untried, succeeded, failed, outcome,   \* the validator
  code, stack, verdict, nested, stop, trail,        \* the search of one method
  projectionMap                                     \* the local protocols; never changes

reportVars == <<todo, cur, untried, succeeded, failed, outcome>>
searchVars == <<code, stack, verdict, nested, stop, trail>>
vars == <<todo, cur, untried, succeeded, failed, outcome,
          code, stack, verdict, nested, stop, trail, projectionMap>>

(* The list under search: that of the participant being visited. *)
projs == projectionMap[CHOOSE p \in cur : TRUE]

Search == INSTANCE Matcher WITH Main <- CHOOSE f \in Fn : TRUE
Report == INSTANCE ValidationReport

ASSUME ValidatorAssumption ==
  /\ Report!ReportAssumption
  /\ Search!MatcherAssumption
  /\ Projections \subseteq [Participant -> Choreos]
  /\ Defined \subseteq Fn

Idle == stack = << >> /\ verdict = "none"

Init ==
  /\ Report!Init
  /\ code \in Programs
  /\ projectionMap \in Projections
  /\ stack = << >>
  /\ verdict = "none"
  /\ nested = Search!Null
  /\ stop = 1
  /\ trail = << >>

Visit(p) ==
  /\ Idle
  /\ Report!Visit(p)
  /\ UNCHANGED <<searchVars, projectionMap>>

(* Slip: the exception caught, and the next candidate tried. *)
NoDefinitionSkipped ==
  /\ Idle
  /\ untried # << >>
  /\ Head(untried) \notin Defined
  /\ untried' = Tail(untried)
  /\ UNCHANGED <<todo, cur, succeeded, failed, outcome, searchVars, projectionMap>>

(* Slip: the definitions of a class looked for before its methods are tried. *)
NoDefinitionUpFront ==
  /\ Idle
  /\ \E i \in DOMAIN untried : untried[i] \notin Defined
  /\ Report!Abort
  /\ UNCHANGED <<searchVars, projectionMap>>

(* getFullDecl throws: the exception leaves validateProjection. *)
NoDefinition ==
  /\ Idle
  /\ untried # << >>
  /\ Head(untried) \notin Defined
  /\ Report!Abort
  /\ UNCHANGED <<searchVars, projectionMap>>

(***************************************************************************)
(* The call of the first projection of the list, with fresh iterators of   *)
(* the body.                                                               *)
(***************************************************************************)
BeginFrom(call) ==
  /\ Idle
  /\ outcome = "running"
  /\ untried # << >>
  /\ Head(untried) \in Defined
  /\ stack' = <<call>>
  /\ stop' = 1
  /\ trail' = << >>
  /\ UNCHANGED <<code, verdict, nested, reportVars, projectionMap>>

(* Slips: a null pointer for the list; its last element for its first; an  *)
(* iterator that outlives the search of the candidate before.              *)
BeginAtNull == BeginFrom(Search!Call(Search!Null, Head(untried)))
BeginAtLast == BeginFrom(Search!Call(Search!N, Head(untried)))
BeginWhereStopped == BeginFrom([Search!Call(1, Head(untried)) EXCEPT !.cpy = stop])

Begin == BeginFrom(Search!Call(1, Head(untried)))

Scan == UNCHANGED <<reportVars, projectionMap>> /\ Search!Next

(***************************************************************************)
(* The verdict is filed.  What the search left in its result pointer is    *)
(* not looked at, and goes out of scope.                                   *)
(***************************************************************************)
FiledAndKept(answer) ==   \* slip: the verdict is still there for the next candidate
  /\ verdict = answer
  /\ UNCHANGED <<searchVars, projectionMap>>

Filed(answer) ==
  /\ verdict = answer
  /\ verdict' = "none"
  /\ nested' = Search!Null
  /\ UNCHANGED <<code, stack, stop, trail, projectionMap>>

Accept(p) == Filed("true") /\ Report!Accept(p)
Reject(p) == Filed("false") /\ Report!Reject(p)

(* The process died in the search. *)
Die ==
  /\ verdict \in {"crash", "overflow"}
  /\ Report!Abort
  /\ UNCHANGED <<searchVars, projectionMap>>

printValidations ==
  /\ Idle
  /\ Report!printValidations
  /\ UNCHANGED <<searchVars, projectionMap>>

Next ==
  \/ \E p \in Participant : Visit(p) \/ Accept(p) \/ Reject(p)
  \/ NoDefinition
  \/ Begin
  \/ Scan
  \/ Die
  \/ printValidations

Done == outcome # "running" /\ UNCHANGED vars

Spec == Init /\ [][Next \/ Done]_vars
FairSpec == Spec /\ WF_vars(Next)

----------------------------------------------------------------------------
(* The composition keeps the types of its parts; there is nothing for a search *)
(* to look at before the first participant is visited, and so no search.       *)
TypeOK ==
  /\ Report!TypeOK
  /\ code \in Programs
  /\ projectionMap \in [Participant -> Choreos]
  /\ IF cur = {} THEN Idle ELSE Search!TypeOK

(***************************************************************************)
(* The printed report accounts for every participant (see                  *)
(* ValidationReport): its candidates were tried from the last declared on, *)
(* up to the first success, and every answer is filed, once.               *)
(***************************************************************************)
ReportAccountsForAll == Report!ReportAccountsForAll

(***************************************************************************)
(* A participant filed under "Successfull Validations" has a method that   *)
(* performs at least the first action of its protocol, and no participant  *)
(* is filed there on the strength of another's list or method.             *)
(***************************************************************************)
FiledInGoodFaith ==
  [][succeeded' # succeeded =>
       \E p \in cur :
         /\ succeeded' = Report!File(succeeded, NameOf[Head(untried)], p)
         /\ Search!Embeds(projectionMap[p], 1, trail)]_vars

(***************************************************************************)
(* The report depends on nothing but the code and the protocol: two        *)
(* participants of one class with the same list are filed alike, whoever   *)
(* was visited first and whatever the searches before them left behind.    *)
(***************************************************************************)
SameProtocolSameVerdict ==
  outcome = "complete" =>
    \A p, q \in Participant :
      Methods[p] = Methods[q] /\ projectionMap[p] = projectionMap[q] =>
        \A n \in Name : /\ Report!Count(succeeded[n], p) = Report!Count(succeeded[n], q)
                        /\ Report!Count(failed[n], p) = Report!Count(failed[n], q)

(***************************************************************************)
(* What a search of f may enter: f, what its body calls, and so on.        *)
(***************************************************************************)
Reach(f) ==
  {g \in Fn : \A S \in SUBSET Fn :
                f \in S /\ (\A h \in S : Search!CalledBy(h) \subseteq S) => g \in S}

EmptyBodyIn(m) == \E f \in Reach(m) : code[f] = << >>

CallsFitFrom(m) == \E rank \in [Reach(m) -> 0 .. MaxDepth - 1] :
                     \A f \in Reach(m) : \A g \in Search!CalledBy(f) : rank[g] < rank[f]

(***************************************************************************)
(* A report is printed only if every method without a definition stands    *)
(* behind a success: a method of its class, declared after it, under whose *)
(* name the participant is filed.  There is no way past such a method that *)
(* the report does not show (CASTAnalyzerUtils.cpp 85).                    *)
(***************************************************************************)
UndefinedBehindSuccess ==
  outcome = "complete" =>
    \A p \in Participant :
      LET c == Report!Candidates(p)
      IN  \A i \in DOMAIN c : c[i] \notin Defined =>
            \E j \in 1 .. i - 1 : Report!Count(succeeded[NameOf[c[j]]], p) > 0

(***************************************************************************)
(* A run is abandoned only over a participant none of whose methods has    *)
(* been accepted, and only at a method that has no definition              *)
(* (CASTAnalyzerUtils.cpp 85), or from which calls lead to an empty body   *)
(* (PchorProjection.cpp 39) or nest too deep for the stack (line 58): no   *)
(* other participant, no method that need not be tried and nothing an      *)
(* earlier search left behind brings it down.                              *)
(***************************************************************************)
AbortsForCause ==
  outcome = "aborted" =>
    /\ \A p \in cur, n \in Name : Report!Count(succeeded[n], p) = 0
    /\ untried # << >>
    /\ LET m == Head(untried)
       IN  m \notin Defined \/ EmptyBodyIn(m) \/ ~CallsFitFrom(m)

(* The run always comes to an end, with a report or without. *)
Terminates == <>(outcome # "running")
=============================================================================
