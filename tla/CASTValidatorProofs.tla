------------------------ MODULE CASTValidatorProofs ------------------------
(***************************************************************************)
(* Proofs about CASTValidator: whatever the search of a method does, and   *)
(* whatever code and protocols it is given, the validator keeps the        *)
(* promises of ValidationReport.                                           *)
(***************************************************************************)
EXTENDS CASTValidator, SequenceTheorems, TLAPS

(* The theorems of ValidationReport, for the validator's own books. *)
Books == INSTANCE ValidationReportProofs

(* A step of the validator is a step of the report, or leaves it alone. *)
LEMMA StepRefines == [Next \/ Done]_vars => [Report!Next]_reportVars
<1>. SUFFICES ASSUME [Next \/ Done]_vars PROVE [Report!Next]_reportVars
  OBVIOUS
<1>1. ASSUME NEW p \in Participant, Visit(p) PROVE Report!Next
  BY <1>1 DEF Visit, Report!Next
<1>2. ASSUME NEW p \in Participant, Accept(p) PROVE Report!Next
  BY <1>2 DEF Accept, Report!Next
<1>3. ASSUME NEW p \in Participant, Reject(p) PROVE Report!Next
  BY <1>3 DEF Reject, Report!Next
<1>4. CASE NoDefinition
  BY <1>4 DEF NoDefinition, Report!Next
<1>5. CASE Begin
  BY <1>5 DEF Begin, BeginFrom
<1>6. CASE Scan
  BY <1>6 DEF Scan
<1>7. CASE Die
  BY <1>7 DEF Die, Report!Next
<1>8. CASE printValidations
  BY <1>8 DEF printValidations, Report!Next
<1>9. CASE Done \/ UNCHANGED vars
  BY <1>9 DEF Done, vars, reportVars
<1>. QED
  BY <1>1, <1>2, <1>3, <1>4, <1>5, <1>6, <1>7, <1>8, <1>9 DEF Next

(* So what is proved of ValidationReport can be used here. *)
LEMMA RunsOfReport == Spec => Report!Spec
<1>1. Init => Report!Init
  BY DEF Init
<1>. QED
  BY <1>1, StepRefines, PTL DEF Spec, Report!Spec, reportVars, Report!reportVars

LEMMA BooksBehave == Spec => Books!ReportAssumption /\ Books!Spec
<1>1. Books!ReportAssumption
  BY ValidatorAssumption DEF Report!ReportAssumption, Report!Kind,
                             Books!ReportAssumption, Books!Kind
<1>2. Report!Init => Books!Init
  BY DEF Report!Init, Books!Init
<1>3. [Report!Next]_reportVars => [Books!Next]_reportVars
  BY DEF Report!Next, Report!Visit, Report!Accept, Report!Reject, Report!Abort,
         Report!printValidations, Report!Candidates, Report!File,
         Books!Next, Books!Visit, Books!Accept, Books!Reject, Books!Abort,
         Books!printValidations, Books!Candidates, Books!File
<1>. QED
  BY <1>1, <1>2, <1>3, RunsOfReport, PTL
     DEF Report!Spec, Books!Spec, reportVars, Report!reportVars, Books!reportVars

(***************************************************************************)
(* The report accounts for every participant: with the search of the       *)
(* methods in place of its answer, what is filed is what was tried.        *)
(***************************************************************************)
THEOREM ReportIsComplete == Spec => []ReportAccountsForAll
<1>1. Books!ReportAssumption /\ Books!Spec => []Books!ReportAccountsForAll
  BY Books!BooksAreComplete
<1>2. Books!ReportAccountsForAll => ReportAccountsForAll
  <2>1. \A p : Books!Candidates(p) = Report!Candidates(p)
    BY DEF Books!Candidates, Report!Candidates
  \* Each instance brings the library's operators under a name of its own.
  <2>2. \A S : Books!Cardinality(S) = Report!Cardinality(S)
    BY DEF Books!Cardinality, Report!Cardinality
  <2>3. /\ \A s, p : Books!Count(s, p) = Report!Count(s, p)
        /\ \A c, a, b, n : Books!Named(c, a, b, n) = Report!Named(c, a, b, n)
    BY <2>2 DEF Books!Count, Report!Count, Books!Named, Report!Named
  <2>4. \A p : Books!AccountedFor(p) <=> Report!AccountedFor(p)
    BY <2>1, <2>3 DEF Books!AccountedFor, Report!AccountedFor
  <2>5. \A p : Books!Finished(p) <=> Report!Finished(p)
    BY DEF Books!Finished, Report!Finished
  <2>. QED
    BY <2>4, <2>5
       DEF ReportAccountsForAll, Report!ReportAccountsForAll, Books!ReportAccountsForAll
<1>. QED
  BY <1>1, <1>2, BooksBehave, PTL

----------------------------------------------------------------------------
(***************************************************************************)
(* The search, with the lemmas about it.  MatcherProofs is instantiated as *)
(* Matcher is, and what the two instances define is the same.              *)
(***************************************************************************)
Facts == INSTANCE MatcherProofs WITH Main <- CHOOSE f \in Fn : TRUE

LEMMA SameSearch ==
  /\ Search!Next => Facts!Next
  /\ Facts!vars = <<code, projs, stack, verdict, nested, stop, trail>>
  /\ \A P, k, s : Facts!Embeds(P, k, s) => Search!Embeds(P, k, s)
  /\ \A k, f : Facts!Call(k, f) = Search!Call(k, f)
  /\ Facts!Null = Search!Null
<1>1. \A p, s : Facts!Performs(p, s) <=> Search!Performs(p, s)
  BY DEF Facts!Performs, Facts!Inspects, Facts!sendSet, Facts!recieveSet,
         Facts!validateSendExpression, Facts!validateRecieveExpression,
         Search!Performs, Search!Inspects, Search!sendSet, Search!recieveSet,
         Search!validateSendExpression, Search!validateRecieveExpression
<1>2. \A P, k, s : Facts!Embeds(P, k, s) => Search!Embeds(P, k, s)
  BY <1>1 DEF Facts!Embeds, Search!Embeds
<1>3. Search!Next => Facts!Next
  BY <1>1
  DEF Search!Next, Search!MatchStmt, Search!SkipStmt, Search!EnterCallee,
      Search!StackOverflow, Search!ReadPastEmptyBody, Search!ContinueChild,
      Search!ContinueNext, Search!ContinueWith, Search!ReturnEarly, Search!ReturnAtEnd,
      Search!Return, Search!ReturnTo, Search!Die, Search!SetTop, Search!Calls,
      Search!Scanned, Search!Scanning, Search!This, Search!Here, Search!AtEnd,
      Search!BodyOf, Search!Running, Search!Top, Search!Call, Search!NextOf, Search!N,
      Search!Null, Search!findFunctionDefinition, Search!Inspects, Search!sendSet,
      Search!recieveSet,
      Facts!Next, Facts!MatchStmt, Facts!SkipStmt, Facts!EnterCallee,
      Facts!StackOverflow, Facts!ReadPastEmptyBody, Facts!ContinueChild,
      Facts!ContinueNext, Facts!ContinueWith, Facts!ReturnEarly, Facts!ReturnAtEnd,
      Facts!Return, Facts!ReturnTo, Facts!Die, Facts!SetTop, Facts!Calls,
      Facts!Scanned, Facts!Scanning, Facts!This, Facts!Here, Facts!AtEnd,
      Facts!BodyOf, Facts!Running, Facts!Top, Facts!Call, Facts!NextOf, Facts!N,
      Facts!Null, Facts!findFunctionDefinition, Facts!Inspects, Facts!sendSet,
      Facts!recieveSet
<1>. QED
  BY <1>2, <1>3 DEF Facts!vars, Facts!Call, Search!Call, Facts!Null, Search!Null

(* What the lemmas about the search assume. *)
LEMMA FactsHold == Facts!MatcherAssumption
  BY ValidatorAssumption
  DEF Search!MatcherAssumption, Search!Stmt, Search!StmtClass, Search!sendSet,
      Search!recieveSet, Search!Projection,
      Facts!MatcherAssumption, Facts!Stmt, Facts!StmtClass, Facts!sendSet,
      Facts!recieveSet, Facts!Projection

(***************************************************************************)
(* What holds between the searches and during one.  A search runs only     *)
(* while a participant is visited, so that the list it reads is that one's *)
(* and stays the same; and when its verdict is filed it leaves nothing     *)
(* behind for the next.                                                    *)
(***************************************************************************)
FaithInv ==
  /\ code \in Programs
  /\ projectionMap \in [Participant -> Choreos]
  /\ cur = {} \/ \E p \in Participant : cur = {p}
  /\ untried # << >> => cur # {}
  /\ stop \in Nat \ {0} /\ trail \in Seq(Facts!Stmt)
  /\ Idle => nested = Facts!Null
  /\ ~Idle => Facts!SearchInv /\ untried # << >>

(* The list that is searched is that of the participant visited. *)
LEMMA ProjsOfVisited ==
  ASSUME NEW p \in Participant, cur = {p}
  PROVE  projs = projectionMap[p]
  BY DEF projs

(* What has its type for the lemmas has it for the search. *)
LEMMA SameTypes == Facts!TypeOK => Search!TypeOK
  BY DEF Facts!TypeOK, Facts!Stmt, Facts!StmtClass, Facts!sendSet, Facts!recieveSet,
         Facts!Projection, Facts!Frame, Facts!Pointer, Facts!N, Facts!Null,
         Search!TypeOK, Search!Stmt, Search!StmtClass, Search!sendSet, Search!recieveSet,
         Search!Projection, Search!Frame, Search!Pointer, Search!N, Search!Null

LEMMA FaithInit == Init => FaithInv
  BY ValidatorAssumption
  DEF Init, Report!Init, FaithInv, Idle, Search!MatcherAssumption, Search!Null, Facts!Null,
      Search!Stmt, Search!StmtClass, Search!sendSet, Search!recieveSet,
      Facts!Stmt, Facts!StmtClass, Facts!sendSet, Facts!recieveSet

(* The first call of a search finds everything as SearchBegins wants it. *)
LEMMA FaithBegin ==
  ASSUME FaithInv, Begin
  PROVE  FaithInv'
<1>1. /\ Idle /\ untried # << >> /\ Head(untried) \in Fn
      /\ stack' = <<Facts!Call(1, Head(untried))>> /\ stop' = 1 /\ trail' = << >>
      /\ UNCHANGED <<code, verdict, nested, reportVars, projectionMap>>
  BY SameSearch, ValidatorAssumption DEF Begin, BeginFrom
<1>2. PICK p \in Participant : cur = {p} /\ cur' = {p}
  BY <1>1 DEF FaithInv, reportVars
<1>3. projs = projectionMap[p] /\ projs' = projectionMap[p]
  BY <1>1, <1>2 DEF projs
<1>4. projs \in Seq(Facts!Projection) \ {<< >>}
  BY <1>3, ValidatorAssumption
  DEF FaithInv, Search!MatcherAssumption, Search!Projection, Facts!Projection
<1>5. Facts!SearchInv'
  <2>1. Facts!TypeOK'
    <3>1. Facts!N' = Len(projs) /\ Len(projs) \in Nat \ {0}
      BY <1>3, <1>4 DEF Facts!N
    <3>2. Facts!Call(1, Head(untried)) \in Facts!Frame'
      BY <1>1, <3>1 DEF Facts!Call, Facts!Frame, Facts!Pointer, Facts!Null
    <3>3. stack' \in Seq(Facts!Frame')
      BY <1>1, <3>2
    <3>. QED
      BY <1>1, <1>3, <1>4, <3>1, <3>3, FactsHold
      DEF Facts!TypeOK, Facts!Pointer, Facts!Null, Facts!MatcherAssumption, FaithInv, Idle
  <2>2. Facts!Begun'
    BY <1>1 DEF FaithInv, Idle, Facts!Begun
  <2>3. (Facts!TypeOK /\ Facts!Begun => Facts!SearchInv)'
    BY FactsHold, Facts!SearchBegins, PTL
  <2>. QED
    BY <2>1, <2>2, <2>3
<1>. QED
  BY <1>1, <1>5 DEF FaithInv, Idle, reportVars

(* As long as the participant visited stays, a step of the search keeps it right. *)
LEMMA FaithSearch ==
  ASSUME FaithInv, ~Idle, UNCHANGED <<untried, cur, projectionMap>>,
         Search!Next \/ UNCHANGED searchVars
  PROVE  FaithInv'
<1>1. projs' = projs
  BY DEF projs
<1>2. Facts!SearchInv'
  BY <1>1, FactsHold, Facts!SearchStep, SameSearch DEF FaithInv, searchVars, Facts!vars
<1>3. ~Idle' /\ Facts!TypeOK'
  BY <1>2 DEF Facts!SearchInv, Facts!Running, Idle
<1>4. code' = code
  BY DEF Search!Next, Search!MatchStmt, Search!SkipStmt, Search!EnterCallee,
         Search!StackOverflow, Search!ReadPastEmptyBody, Search!ContinueChild,
         Search!ContinueNext, Search!ContinueWith, Search!ReturnEarly, Search!ReturnAtEnd,
         Search!Return, Search!Die, searchVars
<1>. QED
  BY <1>2, <1>3, <1>4 DEF FaithInv, Facts!TypeOK

LEMMA FaithStep ==
  ASSUME FaithInv, [Next \/ Done]_vars
  PROVE  FaithInv'
<1>. USE DEF FaithInv, Idle, searchVars
<1>1. ASSUME NEW p \in Participant, Visit(p) PROVE FaithInv'
  BY <1>1 DEF Visit, Report!Visit
<1>2. ASSUME NEW p \in Participant, Accept(p) \/ Reject(p) PROVE FaithInv'
  <2>1. /\ verdict \in {"true", "false"} /\ verdict' = "none" /\ nested' = Facts!Null
        /\ UNCHANGED <<code, stack, stop, trail, projectionMap, cur>> /\ cur = {p}
    BY <1>2, SameSearch DEF Accept, Reject, Filed, Report!Accept, Report!Reject
  <2>2. stack = << >>
    BY <2>1 DEF Facts!SearchInv, Facts!Running
  <2>. QED
    BY <2>1, <2>2
<1>3. CASE NoDefinition
  BY <1>3 DEF NoDefinition, Report!Abort
<1>4. CASE Begin
  BY <1>4, FaithBegin
<1>5. CASE Scan
  <2>1. Search!Next /\ UNCHANGED <<untried, cur, projectionMap>>
    BY <1>5 DEF Scan, reportVars
  <2>2. ~Idle
    BY <2>1
    DEF Search!Next, Search!MatchStmt, Search!SkipStmt, Search!EnterCallee,
        Search!StackOverflow, Search!ReadPastEmptyBody, Search!ContinueChild,
        Search!ContinueNext, Search!ReturnEarly, Search!ReturnAtEnd,
        Search!Scanning, Search!Scanned, Search!Running
  <2>. QED
    BY <2>1, <2>2, FaithSearch
<1>6. CASE Die
  <2>1. ~Idle /\ UNCHANGED <<untried, cur, projectionMap, searchVars>>
    BY <1>6 DEF Die, Report!Abort
  <2>. QED
    BY <2>1, FaithSearch
<1>7. CASE printValidations
  BY <1>7 DEF printValidations, Report!printValidations
<1>8. CASE Done \/ UNCHANGED vars
  <2>1. UNCHANGED <<untried, cur, projectionMap, searchVars>>
    BY <1>8 DEF Done, vars
  <2>2. CASE Idle
    BY <2>1, <2>2
  <2>3. CASE ~Idle
    BY <2>1, <2>3, FaithSearch
  <2>. QED
    BY <2>2, <2>3
<1>. QED
  BY <1>1, <1>2, <1>3, <1>4, <1>5, <1>6, <1>7, <1>8 DEF Next

(***************************************************************************)
(* Nobody is filed as successful but the participant visited, under the    *)
(* name of the method just searched, and only if statements the search     *)
(* passed perform at least the first projection of that participant's own  *)
(* list (CASTValidator.cpp lines 79-118, PchorProjection.cpp 83-94).       *)
(***************************************************************************)
THEOREM GoodFaith == Spec => FiledInGoodFaith
<1>. DEFINE Faithful ==
       succeeded' # succeeded =>
         \E p \in cur : /\ succeeded' = Report!File(succeeded, NameOf[Head(untried)], p)
                        /\ Search!Embeds(projectionMap[p], 1, trail)
<1>1. ASSUME FaithInv, [Next \/ Done]_vars PROVE [Faithful]_vars
  <2>1. ASSUME NEW p \in Participant, Accept(p) PROVE Faithful
    <3>1. /\ verdict = "true" /\ cur = {p}
          /\ succeeded' = Report!File(succeeded, NameOf[Head(untried)], p)
      BY <2>1 DEF Accept, Filed, Report!Accept
    <3>2. Facts!SearchInv /\ projs = projectionMap[p]
      BY <1>1, <3>1, ProjsOfVisited DEF FaithInv, Idle
    <3>3. Facts!Embeds(projs, 1, trail)
      BY <3>1, <3>2 DEF Facts!SearchInv, Facts!PointerExact
    <3>. QED
      BY <3>1, <3>2, <3>3, SameSearch
  <2>2. CASE ~ \E p \in Participant : Accept(p)
    <3>1. succeeded' = succeeded
      BY <1>1, <2>2
      DEF Next, Done, vars, Visit, Report!Visit, Reject, Report!Reject, NoDefinition, Die,
          Report!Abort, Begin, BeginFrom, Scan, reportVars, printValidations,
          Report!printValidations
    <3>. QED
      BY <3>1
  <2>. QED
    BY <2>1, <2>2
<1>2. Init => FaithInv
  BY FaithInit
<1>3. FaithInv /\ [Next \/ Done]_vars => FaithInv'
  BY FaithStep
<1>. QED
  BY <1>1, <1>2, <1>3, PTL DEF Spec, FiledInGoodFaith

(***************************************************************************)
(* The books hold participants under the names of methods, and whatever    *)
(* list and method a search is begun with, its pointers and iterators stay *)
(* those of that list and that code.                                       *)
(***************************************************************************)
THEOREM TypesHold == Spec => []TypeOK
<1>1. Books!TypeOK /\ FaithInv => TypeOK
  <2>. SUFFICES ASSUME Books!TypeOK, FaithInv PROVE TypeOK
    OBVIOUS
  <2>1. Report!TypeOK
    BY DEF Books!TypeOK, Report!TypeOK
  <2>2. cur = {} => Idle
    BY DEF FaithInv
  <2>3. ASSUME cur # {} PROVE Search!TypeOK
    <3>1. PICK p \in Participant : cur = {p}
      BY <2>3 DEF FaithInv
    <3>2. projs \in Seq(Facts!Projection) \ {<< >>}
      BY <3>1, ProjsOfVisited, ValidatorAssumption
      DEF FaithInv, Search!MatcherAssumption, Search!Projection, Facts!Projection
    <3>3. CASE Idle
      <4>1. code \in [Fn -> Seq(Facts!Stmt)]
        BY FactsHold DEF FaithInv, Facts!MatcherAssumption
      <4>2. nested \in Facts!Pointer
        BY <3>2, <3>3 DEF FaithInv, Facts!Pointer, Facts!N, Facts!Null
      <4>3. Facts!TypeOK
        BY <3>2, <3>3, <4>1, <4>2 DEF FaithInv, Idle, Facts!TypeOK
      <4>. QED
        BY <4>3, SameTypes
    <3>4. CASE ~Idle
      BY <3>4, SameTypes DEF FaithInv, Facts!SearchInv
    <3>. QED
      BY <3>3, <3>4
  <2>. QED
    BY <2>1, <2>2, <2>3 DEF TypeOK, FaithInv
<1>2. Books!ReportAssumption /\ Books!Spec => []Books!TypeOK
  BY Books!BooksTyped
<1>3. Init => FaithInv
  BY FaithInit
<1>4. FaithInv /\ [Next \/ Done]_vars => FaithInv'
  BY FaithStep
<1>. QED
  BY <1>1, <1>2, <1>3, <1>4, BooksBehave, PTL DEF Spec

----------------------------------------------------------------------------
(***************************************************************************)
(* The report is a function of the code and the protocol.  A search is, by *)
(* Facts!ReachedOnce, and so are the candidates tried before the first one *)
(* accepted: the invariant holds that what is filed about a participant is *)
(* what the searches of its candidates answer, each begun anew.            *)
(***************************************************************************)
Answers(p, i, v) ==
  /\ Books!Candidates(p)[i] \in Defined
  /\ Facts!Reached(code, projectionMap[p], Books!Candidates(p)[i], << >>, v)

(* The first k candidates of p, in the order they are tried, are rejected. *)
Rejected(p, k) == \A i \in 1 .. k : Answers(p, i, "false")

(* What is filed about p is what the searches answer. *)
FiledAsAnswered(p) ==
  \E k \in 0 .. Len(Books!Candidates(p)) :
    /\ Books!AccountedWith(p, k)
    /\ Rejected(p, k)
    /\ k < Len(Books!Candidates(p)) => Answers(p, k + 1, "true")

AnswersInv ==
  /\ \A p \in cur, k \in Nat : Books!StillToTry(p, k) => Rejected(p, k)
  /\ \A p \in cur :
       ~Idle => \/ verdict = "crash"
                \/ Facts!Reached(code, projectionMap[p], Head(untried), stack, verdict)
  /\ \A p \in Participant : Books!Finished(p) => FiledAsAnswered(p)

(* The steps of the validator are those of the books. *)
LEMMA StepsOfBooks ==
  /\ \A p : Report!Visit(p) => Books!Visit(p)
  /\ \A p : Report!Accept(p) => Books!Accept(p)
  /\ \A p : Report!Reject(p) => Books!Reject(p)
BY DEF Report!Visit, Report!Accept, Report!Reject, Report!Candidates, Report!File,
       Books!Visit, Books!Accept, Books!Reject, Books!Candidates, Books!File

(* What is left to try tells how many have been. *)
LEMMA TriedOnce ==
  ASSUME NEW c \in Seq(Method), NEW k \in Nat, NEW j \in Nat, k < Len(c), j < Len(c),
         [i \in 1 .. Len(c) - k |-> c[k + i]] = [i \in 1 .. Len(c) - j |-> c[j + i]]
  PROVE  k = j
<1>1. 1 .. Len(c) - k = 1 .. Len(c) - j
  OBVIOUS
<1>2. Len(c) - k \in Nat /\ Len(c) - j \in Nat
  OBVIOUS
<1>. QED
  BY <1>1, <1>2

(* And as long as one is left, something is. *)
LEMMA LeftToTry ==
  ASSUME NEW c \in Seq(Method), NEW j \in Nat, j < Len(c)
  PROVE  [i \in 1 .. Len(c) - j |-> c[j + i]] # << >>
<1>. DEFINE s == [i \in 1 .. Len(c) - j |-> c[j + i]]
<1>1. DOMAIN s = 1 .. Len(c) - j
  OBVIOUS
<1>2. 1 \in 1 .. Len(c) - j
  OBVIOUS
<1>3. DOMAIN << >> = {}
  OBVIOUS
<1>. HIDE DEF s
<1>4. s # << >>
  BY <1>1, <1>2, <1>3
<1>. QED
  BY <1>4 DEF s

LEMMA AnswersInit == Init => AnswersInv
BY DEF Init, Report!Init, AnswersInv, Idle, Books!Finished

(* What is filed and what it stands for changes with the books and the code only. *)
LEMMA AnswersKept ==
  ASSUME AnswersInv, UNCHANGED <<reportVars, code, projectionMap>>,
         \A p \in cur' :
           ~Idle' => \/ verdict' = "crash"
                     \/ Facts!Reached(code', projectionMap'[p], Head(untried'), stack', verdict')
  PROVE  AnswersInv'
<1>. USE DEF reportVars
<1>1. \A p, i, v : Answers(p, i, v)' <=> Answers(p, i, v)
  BY DEF Answers
<1>2. \A p, k : Rejected(p, k)' <=> Rejected(p, k)
  BY <1>1 DEF Rejected
<1>3. \A p, k : /\ Books!StillToTry(p, k)' <=> Books!StillToTry(p, k)
                /\ Books!AccountedWith(p, k)' <=> Books!AccountedWith(p, k)
  BY DEF Books!StillToTry, Books!AccountedWith, Books!Count
<1>4. \A p : Books!Finished(p)' <=> Books!Finished(p)
  BY DEF Books!Finished
<1>5. \A p : FiledAsAnswered(p)' <=> FiledAsAnswered(p)
  BY <1>1, <1>2, <1>3 DEF FiledAsAnswered
<1>. QED
  BY <1>2, <1>3, <1>4, <1>5 DEF AnswersInv

(* Those who were through stay as they were when another is visited or filed. *)
LEMMA OthersAnswered ==
  ASSUME AnswersInv, UNCHANGED <<code, projectionMap>>,
         NEW q \in Participant, Books!Finished(q),
         \A k : Books!AccountedWith(q, k) => Books!AccountedWith(q, k)'
  PROVE  FiledAsAnswered(q)'
<1>1. \A i, v : Answers(q, i, v)' <=> Answers(q, i, v)
  BY DEF Answers
<1>2. \A k : Rejected(q, k)' <=> Rejected(q, k)
  BY <1>1 DEF Rejected
<1>. QED
  BY <1>1, <1>2 DEF AnswersInv, FiledAsAnswered

LEMMA AnswersVisit ==
  ASSUME Books!ReportAssumption, Books!BooksInv, AnswersInv, NEW p \in Participant, Visit(p)
  PROVE  AnswersInv'
<1>1. /\ Idle' /\ cur' = {p} /\ untried = << >> /\ untried' = Books!Candidates(p)
      /\ todo' = todo \ {p} /\ UNCHANGED <<succeeded, failed, code, projectionMap>>
  BY StepsOfBooks DEF Visit, Books!Visit, Idle, searchVars
<1>2. Books!Candidates(p) \in Seq(Method)
  BY Books!CandidatesType
<1>3. ASSUME NEW k \in Nat, Books!StillToTry(p, k)' PROVE Rejected(p, k)'
  <2>1. /\ k < Len(Books!Candidates(p))
        /\ Books!Candidates(p) = [i \in 1 .. Len(Books!Candidates(p)) - k
                                    |-> Books!Candidates(p)[k + i]]
    BY <1>1, <1>3 DEF Books!StillToTry, Books!Candidates
  <2>2. k = 0
    BY <1>2, <2>1
  <2>. QED
    BY <2>2 DEF Rejected
<1>4. ASSUME NEW q \in Participant, Books!Finished(q)' PROVE FiledAsAnswered(q)'
  <2>1. CASE q = p
    <3>1. untried' = << >>
      BY <1>1, <1>4, <2>1 DEF Books!Finished
    <3>2. Len(Books!Candidates(p)) = 0 /\ Books!AccountedWith(p, 0)'
      BY <3>1, StepsOfBooks, Books!BooksVisit DEF Visit
    <3>3. Rejected(p, 0)'
      BY DEF Rejected
    <3>4. 0 \in 0 .. Len(Books!Candidates(p)) /\ ~(0 < Len(Books!Candidates(p)))
      BY <3>2
    <3>5. FiledAsAnswered(p)'
      BY <3>2, <3>3, <3>4 DEF FiledAsAnswered, Books!Candidates
    <3>. QED
      BY <2>1, <3>5
  <2>2. CASE q # p
    <3>1. Books!Finished(q)
      BY <1>1, <1>4, <2>2 DEF Books!Finished
    <3>2. \A k : Books!AccountedWith(q, k) => Books!AccountedWith(q, k)'
      BY <1>1 DEF Books!AccountedWith, Books!Count
    <3>. QED
      BY <1>1, <3>1, <3>2, OthersAnswered
  <2>. QED
    BY <2>1, <2>2
<1>. QED
  BY <1>1, <1>3, <1>4 DEF AnswersInv

(* When the verdict is filed, it is the answer of the search of the next candidate. *)
LEMMA FiledAnswer ==
  ASSUME FaithInv, AnswersInv, NEW p \in Participant, NEW a \in {"true", "false"},
         cur = {p}, Filed(a)
  PROVE  /\ Facts!Reached(code, projectionMap[p], Head(untried), << >>, a)
         /\ Idle' /\ UNCHANGED <<code, projectionMap>>
<1>1. verdict = a /\ ~Idle /\ verdict # "crash"
  BY DEF Filed, Idle
<1>2. stack = << >>
  BY <1>1 DEF FaithInv, Facts!SearchInv, Facts!Running
<1>. QED
  BY <1>1, <1>2 DEF AnswersInv, Filed, Idle

LEMMA AnswersAccept ==
  ASSUME Books!ReportAssumption, Books!BooksInv, FaithInv, AnswersInv,
         NEW p \in Participant, Accept(p)
  PROVE  AnswersInv'
<1>1. Filed("true") /\ Books!Accept(p)
  BY StepsOfBooks DEF Accept
<1>2. cur = {p} /\ untried' = << >> /\ UNCHANGED <<todo, cur>> /\ Head(untried) \in Defined
  BY <1>1 DEF Books!Accept
<1>3. /\ Facts!Reached(code, projectionMap[p], Head(untried), << >>, "true")
      /\ Idle' /\ UNCHANGED <<code, projectionMap>>
  BY <1>1, <1>2, FiledAnswer
<1>4. PICK k \in Nat : /\ Books!StillToTry(p, k)
                       /\ Head(untried) = Books!Candidates(p)[k + 1]
                       /\ Books!AccountedWith(p, k)'
  BY <1>1, Books!BooksAccept
<1>5. \A q \in Participant \ {p} : \A j : Books!AccountedWith(q, j) => Books!AccountedWith(q, j)'
  BY <1>1, Books!BooksAccept
<1>6. Books!Candidates(p) \in Seq(Method)
  BY Books!CandidatesType
<1>7. FiledAsAnswered(p)'
  <2>1. Rejected(p, k)' /\ Answers(p, k + 1, "true")'
    BY <1>2, <1>3, <1>4 DEF AnswersInv, Rejected, Answers
  <2>2. k \in 0 .. Len(Books!Candidates(p))
    BY <1>4, <1>6 DEF Books!StillToTry
  <2>. QED
    BY <1>4, <2>1, <2>2 DEF FiledAsAnswered, Books!Candidates
<1>8. ASSUME NEW j \in Nat PROVE ~Books!StillToTry(p, j)'
  BY <1>2, <1>6, LeftToTry DEF Books!StillToTry, Books!Candidates
<1>9. ASSUME NEW q \in Participant, Books!Finished(q)' PROVE FiledAsAnswered(q)'
  <2>1. CASE q = p
    BY <1>7, <2>1
  <2>2. CASE q # p
    <3>1. Books!Finished(q)
      BY <1>2, <1>9, <2>2 DEF Books!Finished
    <3>. QED
      BY <1>3, <1>5, <2>2, <3>1, OthersAnswered
  <2>. QED
    BY <2>1, <2>2
<1>. QED
  BY <1>2, <1>3, <1>8, <1>9 DEF AnswersInv

LEMMA AnswersReject ==
  ASSUME Books!ReportAssumption, Books!BooksInv, FaithInv, AnswersInv,
         NEW p \in Participant, Reject(p)
  PROVE  AnswersInv'
<1>1. Filed("false") /\ Books!Reject(p)
  BY StepsOfBooks DEF Reject
<1>2. cur = {p} /\ UNCHANGED <<todo, cur>> /\ Head(untried) \in Defined
  BY <1>1 DEF Books!Reject
<1>3. /\ Facts!Reached(code, projectionMap[p], Head(untried), << >>, "false")
      /\ Idle' /\ UNCHANGED <<code, projectionMap>>
  BY <1>1, <1>2, FiledAnswer
<1>4. PICK k \in Nat :
        /\ Books!StillToTry(p, k)
        /\ Head(untried) = Books!Candidates(p)[k + 1]
        /\ IF k + 1 = Len(Books!Candidates(p))
             THEN untried' = << >> /\ Books!AccountedWith(p, k + 1)'
             ELSE untried' # << >> /\ Books!StillToTry(p, k + 1)'
  BY <1>1, Books!BooksReject
<1>5. \A q \in Participant \ {p} : \A j : Books!AccountedWith(q, j) => Books!AccountedWith(q, j)'
  BY <1>1, Books!BooksReject
<1>6. Books!Candidates(p) \in Seq(Method)
  BY Books!CandidatesType
<1>7. Rejected(p, k + 1)'
  <2>1. Rejected(p, k) /\ Answers(p, k + 1, "false")
    BY <1>2, <1>3, <1>4 DEF AnswersInv, Answers
  <2>2. \A i \in 1 .. k + 1 : i \in 1 .. k \/ i = k + 1
    OBVIOUS
  <2>. QED
    BY <1>3, <2>1, <2>2 DEF Rejected, Answers
<1>8. ASSUME NEW j \in Nat, Books!StillToTry(p, j)' PROVE Rejected(p, j)'
  <2>1. CASE k + 1 = Len(Books!Candidates(p))
    <3>1. /\ j < Len(Books!Candidates(p))
          /\ << >> = [i \in 1 .. Len(Books!Candidates(p)) - j |-> Books!Candidates(p)[j + i]]
      BY <1>4, <1>8, <2>1 DEF Books!StillToTry, Books!Candidates
    <3>. QED
      BY <1>6, <3>1, LeftToTry
  <2>2. CASE k + 1 # Len(Books!Candidates(p))
    <3>1. /\ j < Len(Books!Candidates(p)) /\ k + 1 < Len(Books!Candidates(p))
          /\ [i \in 1 .. Len(Books!Candidates(p)) - j |-> Books!Candidates(p)[j + i]]
              = [i \in 1 .. Len(Books!Candidates(p)) - (k + 1)
                   |-> Books!Candidates(p)[(k + 1) + i]]
      BY <1>4, <1>8, <2>2 DEF Books!StillToTry, Books!Candidates
    <3>2. j = k + 1
      BY <1>6, <3>1, k + 1 \in Nat, TriedOnce
    <3>. QED
      BY <1>7, <3>2
  <2>. QED
    BY <2>1, <2>2
<1>9. ASSUME NEW q \in Participant, Books!Finished(q)' PROVE FiledAsAnswered(q)'
  <2>1. CASE q = p
    <3>1. untried' = << >>
      BY <1>2, <1>9, <2>1 DEF Books!Finished
    <3>2. k + 1 = Len(Books!Candidates(p)) /\ Books!AccountedWith(p, k + 1)'
      BY <1>4, <3>1
    <3>3. k + 1 \in 0 .. Len(Books!Candidates(p)) /\ ~(k + 1 < Len(Books!Candidates(p)))
      BY <1>6, <3>2
    <3>4. Len(Books!Candidates(p))' = Len(Books!Candidates(p))
      BY DEF Books!Candidates
    <3>5. FiledAsAnswered(p)'
      BY <1>7, <3>2, <3>3, <3>4 DEF FiledAsAnswered
    <3>. QED
      BY <2>1, <3>5
  <2>2. CASE q # p
    <3>1. Books!Finished(q)
      BY <1>2, <1>9, <2>2 DEF Books!Finished
    <3>. QED
      BY <1>3, <1>5, <2>2, <3>1, OthersAnswered
  <2>. QED
    BY <2>1, <2>2
<1>. QED
  BY <1>2, <1>3, <1>8, <1>9 DEF AnswersInv

(* A step of the search comes by what is next, or kills the process. *)
LEMMA AnswersScan ==
  ASSUME FaithInv, AnswersInv, Scan
  PROVE  AnswersInv'
<1>1. Search!Next /\ UNCHANGED <<reportVars, projectionMap>>
  BY DEF Scan
<1>2. stack # << >> /\ code' = code
  BY <1>1
  DEF Search!Next, Search!MatchStmt, Search!SkipStmt, Search!EnterCallee,
      Search!StackOverflow, Search!ReadPastEmptyBody, Search!ContinueChild,
      Search!ContinueNext, Search!ContinueWith, Search!ReturnEarly, Search!ReturnAtEnd,
      Search!Return, Search!Die, Search!Scanning, Search!Scanned, Search!Running
<1>3. Facts!SearchInv /\ verdict # "crash"
  BY <1>2 DEF FaithInv, Idle, Facts!SearchInv, Facts!Running
<1>4. verdict' = "crash" \/ <<stack', verdict'>> = Facts!Advance(code, projs, stack)
  BY <1>1, <1>3, SameSearch, FactsHold, Facts!StepAdvances
<1>5. ASSUME NEW p \in cur', verdict' # "crash"
      PROVE  Facts!Reached(code', projectionMap'[p], Head(untried'), stack', verdict')
  <2>1. p \in Participant /\ cur = {p} /\ projs = projectionMap[p]
    BY <1>1, ProjsOfVisited DEF FaithInv, reportVars
  <2>2. Facts!Reached(code, projectionMap[p], Head(untried), stack, verdict)
    BY <1>2, <1>3, <2>1 DEF AnswersInv, Idle
  <2>3. Facts!Reached(code, projectionMap[p], Head(untried), stack', verdict')
    BY <1>2, <1>4, <1>5, <2>1, <2>2, FactsHold, Facts!ReachedNext
  <2>. QED
    BY <1>1, <1>2, <2>3 DEF reportVars
<1>. QED
  BY <1>1, <1>2, <1>5, AnswersKept

LEMMA AnswersStep ==
  ASSUME Books!ReportAssumption, Books!BooksInv, FaithInv, AnswersInv, [Next \/ Done]_vars
  PROVE  AnswersInv'
<1>1. ASSUME UNCHANGED <<todo, cur, untried, succeeded, failed, searchVars, projectionMap>>
      PROVE  AnswersInv'
  \* A change of the outcome is nothing to the invariant.
  <2>. USE DEF searchVars
  <2>1. \A p, i, v : Answers(p, i, v)' <=> Answers(p, i, v)
    BY <1>1 DEF Answers
  <2>2. \A p, k : Rejected(p, k)' <=> Rejected(p, k)
    BY <2>1 DEF Rejected
  <2>3. \A p, k : /\ Books!StillToTry(p, k)' <=> Books!StillToTry(p, k)
                  /\ Books!AccountedWith(p, k)' <=> Books!AccountedWith(p, k)
    BY <1>1 DEF Books!StillToTry, Books!AccountedWith, Books!Count
  <2>. QED
    BY <1>1, <2>1, <2>2, <2>3 DEF AnswersInv, FiledAsAnswered, Idle, Books!Finished
<1>2. ASSUME NEW p \in Participant, Visit(p) PROVE AnswersInv'
  BY <1>2, AnswersVisit
<1>3. ASSUME NEW p \in Participant, Accept(p) PROVE AnswersInv'
  BY <1>3, AnswersAccept
<1>4. ASSUME NEW p \in Participant, Reject(p) PROVE AnswersInv'
  BY <1>4, AnswersReject
<1>5. CASE NoDefinition
  BY <1>1, <1>5 DEF NoDefinition, Report!Abort
<1>6. CASE Begin
  <2>1. /\ stack' = <<Facts!Call(1, Head(untried))>> /\ verdict' = "none"
        /\ UNCHANGED <<code, reportVars, projectionMap>>
    BY <1>6, SameSearch DEF Begin, BeginFrom, Idle
  <2>2. \A p : Facts!Reached(code, projectionMap[p], Head(untried), stack', verdict')
    BY <2>1, FactsHold, Facts!ReachedStart
  <2>. QED
    BY <2>1, <2>2, AnswersKept DEF reportVars
<1>7. CASE Scan
  BY <1>7, AnswersScan
<1>8. CASE Die
  BY <1>1, <1>8 DEF Die, Report!Abort
<1>9. CASE printValidations
  BY <1>1, <1>9 DEF printValidations, Report!printValidations
<1>10. CASE Done \/ UNCHANGED vars
  BY <1>1, <1>10 DEF Done, vars, searchVars
<1>. QED
  BY <1>2, <1>3, <1>4, <1>5, <1>6, <1>7, <1>8, <1>9, <1>10 DEF Next

(* The candidates of a class searched for one list answer alike. *)
LEMMA SameAnswers ==
  ASSUME NEW p \in Participant, NEW q \in Participant,
         Methods[p] = Methods[q], projectionMap[p] = projectionMap[q]
  PROVE  /\ Books!Candidates(p) = Books!Candidates(q)
         /\ \A i, v : Answers(p, i, v) => Answers(q, i, v)
         /\ \A i : ~(Answers(p, i, "true") /\ Answers(q, i, "false"))
<1>1. Books!Candidates(p) = Books!Candidates(q)
  BY DEF Books!Candidates
<1>2. \A i, v : Answers(p, i, v) => Answers(q, i, v)
  BY <1>1 DEF Answers
<1>3. ASSUME NEW i, Answers(p, i, "true"), Answers(q, i, "false") PROVE FALSE
  <2>1. Answers(q, i, "true")
    BY <1>2, <1>3
  <2>2. \A m : ~(/\ Facts!Reached(code, projectionMap[q], m, << >>, "true")
                 /\ Facts!Reached(code, projectionMap[q], m, << >>, "false"))
    <3>1. "true" # "false"
      OBVIOUS
    <3>. QED
      BY <3>1, FactsHold, Facts!ReachedOnce
  <2>. QED
    BY <1>3, <2>1, <2>2 DEF Answers
<1>. QED
  BY <1>1, <1>2, <1>3

(* And so the first one accepted is the same, and what is filed. *)
LEMMA FiledAlike ==
  ASSUME NEW p \in Participant, NEW q \in Participant,
         Methods[p] = Methods[q], projectionMap[p] = projectionMap[q],
         FiledAsAnswered(p), FiledAsAnswered(q), Books!ReportAssumption
  PROVE  \A n \in Name : /\ Books!Count(succeeded[n], p) = Books!Count(succeeded[n], q)
                         /\ Books!Count(failed[n], p) = Books!Count(failed[n], q)
<1>. DEFINE c == Books!Candidates(p)
<1>1. c = Books!Candidates(q) /\ c \in Seq(Method)
  BY SameAnswers, Books!CandidatesType
<1>. HIDE DEF c
<1>2. PICK k \in 0 .. Len(c) : /\ Books!AccountedWith(p, k) /\ Rejected(p, k)
                               /\ k < Len(c) => Answers(p, k + 1, "true")
  BY DEF FiledAsAnswered, c
<1>3. PICK j \in 0 .. Len(c) : /\ Books!AccountedWith(q, j) /\ Rejected(q, j)
                               /\ j < Len(c) => Answers(q, j + 1, "true")
  BY <1>1 DEF FiledAsAnswered
<1>4. k = j
  <2>1. CASE k < j
    <3>1. k + 1 \in 1 .. j /\ k < Len(c)
      BY <1>1, <2>1
    <3>2. Answers(p, k + 1, "true") /\ Answers(q, k + 1, "false")
      BY <1>2, <1>3, <3>1 DEF Rejected
    <3>. QED
      BY <3>2, SameAnswers
  <2>2. CASE j < k
    <3>1. j + 1 \in 1 .. k /\ j < Len(c)
      BY <1>1, <2>2
    <3>2. Answers(q, j + 1, "true") /\ Answers(p, j + 1, "false")
      BY <1>2, <1>3, <3>1 DEF Rejected
    <3>. QED
      BY <3>2, SameAnswers
  <2>. QED
    BY <1>1, <2>1, <2>2
<1>. QED
  BY <1>1, <1>2, <1>3, <1>4 DEF Books!AccountedWith, c

(* The books are right, a search finds what it needs, and the answers filed are given. *)
LEMMA AnswersInvariant ==
  Spec => [](Books!ReportAssumption /\ Books!BooksInv /\ FaithInv /\ AnswersInv)
<1>. DEFINE Inv == Books!ReportAssumption /\ FaithInv /\ AnswersInv
<1>1. Books!ReportAssumption /\ Books!Spec => []Books!BooksInv
  BY Books!BooksInvariant
<1>2. Books!ReportAssumption /\ Init => Inv
  BY FaithInit, AnswersInit
<1>3. Books!BooksInv /\ Inv /\ [Next \/ Done]_vars => Inv'
  BY FaithStep, AnswersStep DEF Books!ReportAssumption
<1>. QED
  BY <1>1, <1>2, <1>3, BooksBehave, PTL DEF Spec

(* In a report, the books of everyone are what the searches answered. *)
LEMMA AllAnswered ==
  ASSUME Books!BooksInv, AnswersInv, outcome = "complete", NEW p \in Participant
  PROVE  FiledAsAnswered(p)
BY DEF Books!BooksInv, Books!Finished, AnswersInv

LEMMA SameCounts == \A s, r : Books!Count(s, r) = Report!Count(s, r)
BY DEF Books!Count, Report!Count, Books!Cardinality, Report!Cardinality

(***************************************************************************)
(* The verdict on a participant depends on nothing but its list and its    *)
(* class, for every program, every set of protocols and every order of the *)
(* visits: two participants with the same are filed alike                  *)
(* (CASTValidator.cpp lines 36-118).                                       *)
(***************************************************************************)
THEOREM SameVerdicts == Spec => []SameProtocolSameVerdict
<1>1. Books!ReportAssumption /\ Books!BooksInv /\ FaithInv /\ AnswersInv
        => SameProtocolSameVerdict
  <2>. SUFFICES ASSUME Books!ReportAssumption, Books!BooksInv, AnswersInv,
                       outcome = "complete",
                       NEW p \in Participant, NEW q \in Participant,
                       Methods[p] = Methods[q], projectionMap[p] = projectionMap[q],
                       NEW n \in Name
                PROVE  /\ Report!Count(succeeded[n], p) = Report!Count(succeeded[n], q)
                       /\ Report!Count(failed[n], p) = Report!Count(failed[n], q)
    BY DEF SameProtocolSameVerdict
  <2>1. FiledAsAnswered(p) /\ FiledAsAnswered(q)
    BY AllAnswered
  <2>. QED
    BY <2>1, SameCounts, FiledAlike
<1>. QED
  BY <1>1, AnswersInvariant, PTL

(***************************************************************************)
(* Every method without a definition stands, in a report that is printed,  *)
(* behind a success of the participant, for every class, program and       *)
(* protocol (CASTValidator.cpp lines 79-118, CASTAnalyzerUtils.cpp 76-90). *)
(***************************************************************************)
THEOREM UndefinedAreBehind == Spec => []UndefinedBehindSuccess
<1>1. Books!ReportAssumption /\ Books!BooksInv /\ FaithInv /\ AnswersInv
        => UndefinedBehindSuccess
  <2>. SUFFICES ASSUME Books!ReportAssumption, Books!BooksInv, AnswersInv,
                       outcome = "complete", NEW p \in Participant
                PROVE  \A i \in DOMAIN Report!Candidates(p) :
                         Report!Candidates(p)[i] \notin Defined =>
                           \E j \in 1 .. i - 1 :
                             Report!Count(succeeded[NameOf[Report!Candidates(p)[j]]], p) > 0
    BY DEF UndefinedBehindSuccess
  <2>. DEFINE c == Books!Candidates(p)
  <2>1. c \in Seq(Method) /\ Report!Candidates(p) = c
    BY Books!CandidatesType DEF Books!Candidates, Report!Candidates
  <2>. HIDE DEF c
  <2>2. PICK k \in 0 .. Len(c) : /\ Books!AccountedWith(p, k) /\ Rejected(p, k)
                                 /\ k < Len(c) => Answers(p, k + 1, "true")
    BY AllAnswered DEF FiledAsAnswered, c
  <2>. SUFFICES ASSUME NEW i \in 1 .. Len(c), c[i] \notin Defined
                PROVE  \E j \in 1 .. i - 1 : Report!Count(succeeded[NameOf[c[j]]], p) > 0
    BY <2>1
  <2>3. ~(i \in 1 .. k) /\ ~(k < Len(c) /\ i = k + 1)
    BY <2>2 DEF Rejected, Answers, c
  <2>4. k < Len(c) /\ k + 1 \in 1 .. i - 1 /\ k \in Nat /\ c[k + 1] \in Method
    BY <2>1, <2>3
  <2>. DEFINE n == NameOf[c[k + 1]]
  <2>5. n \in Name
    BY <2>4 DEF Books!ReportAssumption
  <2>6. Books!Named(c, k + 1, k + 1, n) = 1
    <3>1. Books!Named(c, k + 1, k, n) = 0
      BY <2>4, Books!NamedNone
    <3>2. Books!Named(c, k + 1, k + 1, n)
            = Books!Named(c, k + 1, k, n) + IF NameOf[c[k + 1]] = n THEN 1 ELSE 0
      BY <2>4, Books!NamedNext
    <3>. QED
      BY <3>1, <3>2
  <2>7. Books!Count(succeeded[n], p) = 1
    <3>1. Books!Count(succeeded[n], p)
            = Books!Named(c, k + 1, IF k < Len(c) THEN k + 1 ELSE k, n)
      BY <2>2, <2>5 DEF Books!AccountedWith, c
    <3>. QED
      BY <2>4, <2>6, <3>1
  <2>8. Report!Count(succeeded[NameOf[c[k + 1]]], p) = 1
    BY <2>7, SameCounts
  <2>. QED
    BY <2>4, <2>8
<1>. QED
  BY <1>1, AnswersInvariant, PTL

----------------------------------------------------------------------------
(***************************************************************************)
(* Why a run is abandoned.  A search begun with m stays in Reach(m), and a *)
(* ranking of Reach(m) that fits the stack leaves it room.                 *)
(***************************************************************************)
FallsFrom(m, rank) ==
  \A f \in Reach(m) : \A g \in Facts!CalledBy(f) : rank[g] < rank[f]

SearchWithin(m) ==
  /\ m \in Defined
  /\ \A i \in 1 .. Len(stack) : stack[i].fn \in Reach(m)
  /\ verdict = "crash" => EmptyBodyIn(m)
  /\ \A rank \in [Reach(m) -> 0 .. MaxDepth - 1] :
       FallsFrom(m, rank) => /\ verdict # "overflow"
                             /\ \A i \in 1 .. Len(stack) : rank[stack[i].fn] + i <= MaxDepth

Doomed(m) == m \notin Defined \/ EmptyBodyIn(m) \/ ~CallsFitFrom(m)

CauseInv ==
  /\ ~Idle => SearchWithin(Head(untried))
  /\ outcome = "aborted" => untried # << >> /\ Doomed(Head(untried))

LEMMA SameCalls == \A f : Facts!CalledBy(f) = Search!CalledBy(f)
  BY DEF Facts!CalledBy, Search!CalledBy

(* A search is in Reach(m) from the start, and calls do not leave it. *)
LEMMA ReachCloses ==
  ASSUME NEW m \in Fn
  PROVE  /\ m \in Reach(m) /\ Reach(m) \in SUBSET Fn
         /\ \A f \in Reach(m) : Facts!CalledBy(f) \subseteq Reach(m)
<1>1. m \in Reach(m) /\ Reach(m) \in SUBSET Fn
  BY DEF Reach
<1>2. ASSUME NEW f \in Reach(m), NEW g \in Search!CalledBy(f),
             NEW S \in SUBSET Fn, m \in S, \A h \in S : Search!CalledBy(h) \subseteq S
      PROVE  g \in S
  <2>1. f \in S
    BY <1>2 DEF Reach
  <2>. QED
    BY <1>2, <2>1
<1>3. ASSUME NEW f \in Reach(m), NEW g \in Search!CalledBy(f) PROVE g \in Reach(m)
  <2>1. g \in Fn
    BY DEF Search!CalledBy
  <2>. QED
    BY <1>2, <2>1 DEF Reach
<1>. QED
  BY <1>1, <1>3, SameCalls

(* Nobody rewrites the code, so that the causes there are stay. *)
LEMMA CausesStay ==
  ASSUME code' = code, NEW m
  PROVE  /\ Reach(m)' = Reach(m) /\ EmptyBodyIn(m)' = EmptyBodyIn(m)
         /\ CallsFitFrom(m)' = CallsFitFrom(m) /\ Doomed(m)' = Doomed(m)
         /\ \A rank : FallsFrom(m, rank)' = FallsFrom(m, rank)
<1>1. \A f : /\ Search!CalledBy(f)' = Search!CalledBy(f)
             /\ Facts!CalledBy(f)' = Facts!CalledBy(f)
  BY DEF Search!CalledBy, Facts!CalledBy
<1>2. Reach(m)' = Reach(m)
  BY <1>1 DEF Reach
<1>3. EmptyBodyIn(m)' = EmptyBodyIn(m) /\ CallsFitFrom(m)' = CallsFitFrom(m)
  BY <1>1, <1>2 DEF EmptyBodyIn, CallsFitFrom
<1>. QED
  BY <1>1, <1>2, <1>3 DEF FallsFrom, Doomed

LEMMA CauseBegin ==
  ASSUME CauseInv, Begin
  PROVE  CauseInv'
<1>0. PICK m : m = Head(untried)
  OBVIOUS
<1>1. /\ m \in Fn /\ m \in Defined /\ stack' = <<Facts!Call(1, m)>> /\ verdict' = "none"
      /\ UNCHANGED <<code, untried, outcome>>
  BY <1>0, SameSearch, ValidatorAssumption DEF Begin, BeginFrom, Idle, reportVars
<1>2. Len(stack') = 1 /\ stack'[1].fn = m
  BY <1>1 DEF Facts!Call
<1>3. m \in Reach(m) /\ MaxDepth \in Nat
  BY <1>1, ReachCloses, FactsHold DEF Facts!MatcherAssumption
<1>4. SearchWithin(m)'
  <2>1. ASSUME NEW rank \in [Reach(m) -> 0 .. MaxDepth - 1] PROVE rank[m] + 1 <= MaxDepth
    BY <1>3
  <2>2. \A i \in 1 .. Len(stack') : i = 1
    BY <1>2
  <2>. QED
    BY <1>1, <1>2, <1>3, <2>1, <2>2, CausesStay DEF SearchWithin
<1>5. outcome' # "aborted"
  BY DEF Begin, BeginFrom, reportVars
<1>. QED
  BY <1>0, <1>1, <1>4, <1>5 DEF CauseInv

LEMMA CauseScan ==
  ASSUME FaithInv, CauseInv, Scan
  PROVE  CauseInv'
<1>0. PICK m : m = Head(untried)
  OBVIOUS
<1>1. Search!Next /\ UNCHANGED <<untried, outcome, projectionMap>>
  BY DEF Scan, reportVars
<1>2. stack # << >> /\ code' = code
  BY <1>1
  DEF Search!Next, Search!MatchStmt, Search!SkipStmt, Search!EnterCallee,
      Search!StackOverflow, Search!ReadPastEmptyBody, Search!ContinueChild,
      Search!ContinueNext, Search!ContinueWith, Search!ReturnEarly, Search!ReturnAtEnd,
      Search!Return, Search!Die, Search!Scanning, Search!Scanned, Search!Running
<1>3. Facts!TypeOK /\ verdict = "none" /\ Facts!Next /\ SearchWithin(m)
  BY <1>0, <1>1, <1>2, SameSearch DEF FaithInv, CauseInv, Idle, Facts!SearchInv, Facts!Running
<1>4. CASE m \in Fn
  <2>1. Reach(m) \in SUBSET Fn /\ \A f \in Reach(m) : Facts!CalledBy(f) \subseteq Reach(m)
    BY <1>4, ReachCloses
  <2>2. /\ \A i \in 1 .. Len(stack') : stack'[i].fn \in Reach(m)
        /\ verdict' = "crash" => \E f \in Reach(m) : code[f] = << >>
    BY <1>3, <2>1, FactsHold, Facts!ScopesWithin DEF SearchWithin
  <2>3. ASSUME NEW rank \in [Reach(m) -> 0 .. MaxDepth - 1], FallsFrom(m, rank)
        PROVE  /\ verdict' # "overflow"
               /\ \A i \in 1 .. Len(stack') : rank[stack'[i].fn] + i <= MaxDepth
    BY <1>3, <2>1, <2>3, FactsHold, Facts!RoomWithin DEF SearchWithin, FallsFrom
  <2>4. SearchWithin(m)'
    <3>1. verdict' = "crash" => EmptyBodyIn(m)
      BY <2>2 DEF EmptyBodyIn
    <3>. QED
      BY <1>2, <1>3, <2>2, <2>3, <3>1, CausesStay DEF SearchWithin
  <2>. QED
    BY <1>0, <1>1, <1>2, <2>4, CausesStay DEF CauseInv
<1>5. m \in Fn
  BY <1>3, ValidatorAssumption DEF SearchWithin
<1>. QED
  BY <1>4, <1>5

LEMMA CauseStep == FaithInv /\ CauseInv /\ [Next \/ Done]_vars => CauseInv'
<1>. SUFFICES ASSUME FaithInv, CauseInv, [Next \/ Done]_vars PROVE CauseInv'
  OBVIOUS
<1>1. ASSUME UNCHANGED <<untried, outcome, searchVars>> PROVE CauseInv'
  <2>1. /\ UNCHANGED <<untried, outcome, stack, verdict>> /\ code' = code
    BY <1>1 DEF searchVars
  <2>2. SearchWithin(Head(untried))' <=> SearchWithin(Head(untried))
    BY <2>1, CausesStay DEF SearchWithin
  <2>. QED
    BY <2>1, <2>2, CausesStay DEF CauseInv, Idle
<1>2. ASSUME NEW p \in Participant, Visit(p) PROVE CauseInv'
  <2>1. Idle' /\ outcome' # "aborted"
    BY <1>2 DEF Visit, Report!Visit, Idle, searchVars
  <2>. QED
    BY <2>1 DEF CauseInv
<1>3. ASSUME NEW p \in Participant, Accept(p) \/ Reject(p) PROVE CauseInv'
  <2>1. verdict \in {"true", "false"} /\ verdict' = "none" /\ stack' = stack /\ outcome' # "aborted"
    BY <1>3 DEF Accept, Reject, Filed, Report!Accept, Report!Reject
  <2>2. stack = << >>
    BY <2>1 DEF FaithInv, Idle, Facts!SearchInv, Facts!Running
  <2>. QED
    BY <2>1, <2>2 DEF CauseInv, Idle
<1>4. CASE NoDefinition
  <2>1. /\ Idle' /\ untried' = untried /\ untried # << >> /\ Head(untried) \notin Defined
    BY <1>4 DEF NoDefinition, Report!Abort, Idle, searchVars
  <2>. QED
    BY <2>1 DEF CauseInv, Doomed
<1>5. CASE Begin
  BY <1>5, CauseBegin
<1>6. CASE Scan
  BY <1>6, CauseScan
<1>7. CASE Die
  <2>0. PICK m : m = Head(untried)
    OBVIOUS
  <2>1. /\ verdict \in {"crash", "overflow"} /\ ~Idle /\ untried # << >>
        /\ UNCHANGED <<untried, stack, verdict, code>>
    BY <1>7 DEF Die, Report!Abort, Idle, searchVars
  <2>2. SearchWithin(m)
    BY <2>0, <2>1 DEF CauseInv
  <2>3. Doomed(m)
    <3>1. CASE verdict = "crash"
      BY <2>2, <3>1 DEF SearchWithin, Doomed
    <3>2. CASE verdict = "overflow"
      <4>1. \A rank \in [Reach(m) -> 0 .. MaxDepth - 1] : ~FallsFrom(m, rank)
        BY <2>2, <3>2 DEF SearchWithin
      <4>. QED
        BY <4>1, SameCalls DEF FallsFrom, CallsFitFrom, Doomed
    <3>. QED
      BY <2>1, <3>1, <3>2
  <2>4. SearchWithin(m)' /\ Doomed(m)'
    BY <2>1, <2>2, <2>3, CausesStay DEF SearchWithin
  <2>. QED
    BY <2>0, <2>1, <2>4 DEF CauseInv, Idle
<1>8. CASE printValidations
  <2>1. Idle' /\ outcome' # "aborted"
    BY <1>8 DEF printValidations, Report!printValidations, Idle, searchVars
  <2>. QED
    BY <2>1 DEF CauseInv
<1>9. CASE Done \/ UNCHANGED vars
  BY <1>1, <1>9 DEF Done, vars, searchVars
<1>. QED
  BY <1>2, <1>3, <1>4, <1>5, <1>6, <1>7, <1>8, <1>9 DEF Next

(***************************************************************************)
(* A run is abandoned only over a participant not accepted yet, at a       *)
(* method that is not defined, or from which calls lead to an empty body   *)
(* or too deep (CASTAnalyzerUtils.cpp 85, PchorProjection.cpp 39 and 58).  *)
(***************************************************************************)
THEOREM AbortsHaveCause == Spec => []AbortsForCause
<1>1. Init => CauseInv
  BY DEF Init, Report!Init, CauseInv, Idle
<1>2. Books!BooksInv /\ CauseInv => AbortsForCause
  <2>. SUFFICES ASSUME Books!BooksInv, CauseInv, outcome = "aborted"
                PROVE  /\ \A p \in cur, n \in Name : Report!Count(succeeded[n], p) = 0
                       /\ untried # << >> /\ Doomed(Head(untried))
    BY DEF AbortsForCause, Doomed
  <2>1. untried # << >> /\ Doomed(Head(untried))
    BY DEF CauseInv
  <2>2. ASSUME NEW p \in cur, NEW n \in Name PROVE Report!Count(succeeded[n], p) = 0
    <3>1. \E k \in Nat : Books!Tried(p, k)
      BY <2>1 DEF Books!BooksInv, Books!UnderTrial
    <3>2. Books!Count(succeeded[n], p) = 0
      BY <3>1 DEF Books!Tried
    <3>. QED
      BY <3>2, SameCounts
  <2>. QED
    BY <2>1, <2>2
<1>. QED
  BY <1>1, <1>2, CauseStep, AnswersInvariant, PTL DEF Spec
=============================================================================
