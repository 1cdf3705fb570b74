-------------------------- MODULE ValidationReport --------------------------
(***************************************************************************)
(* What CASTValidator::validateProjection promises                         *)
(* (src/src/analyzer/visitors/CASTValidator.cpp), with the search of one   *)
(* method reduced to its answer.                                           *)
(*                                                                         *)
(* The participants of the projection map are visited in an order nobody   *)
(* chooses.  Each is tried against the methods of its class, the last      *)
(* declared first, until one is accepted; the answers are filed under the  *)
(* name of the method.  A method without a definition ends the whole run.  *)
(***************************************************************************)
EXTENDS Naturals, Sequences, FiniteSets

CONSTANTS
  Participant,  \* the keys of the projection map, such as Sender[1]
  Name,         \* names of methods
  Method,       \* the methods the classes declare
  Methods       \* for each participant, the methods of its class, in order

(***************************************************************************)
(* A method: its name, whether it is one the analyzer may try, and whether *)
(* the translation unit holds its definition.                              *)
(***************************************************************************)
Kind == {"method", "constructor", "destructor", "operator", "implicit"}

CONSTANTS
  NameOf, KindOf, Defined

ReportAssumption ==
  /\ NameOf \in [Method -> Name]
  /\ KindOf \in [Method -> Kind]
  /\ Defined \subseteq Method
  /\ Methods \in [Participant -> Seq(Method)]

VARIABLES
  todo,       \* participants not visited yet
  cur,        \* the participant being visited, {} or a singleton
  untried,    \* its methods still to try, the next one first
  succeeded,  \* successfullValidations: per name, the participants filed
  failed,     \* failedValidations, likewise; a name not filed has none
  outcome     \* "running", "complete" (the report is printed), "aborted"

reportVars == <<todo, cur, untried, succeeded, failed, outcome>>

(* The methods of p's class that may be tried, in the order they are tried. *)
Candidates(p) ==
  LET of[k \in 0 .. Len(Methods[p])] ==   \* of the first k methods
        IF k = 0 THEN << >>
        ELSE IF KindOf[Methods[p][k]] = "method" THEN <<Methods[p][k]>> \o of[k - 1]
        ELSE of[k - 1]
  IN  of[Len(Methods[p])]

Init ==
  /\ todo = Participant
  /\ cur = {}
  /\ untried = << >>
  /\ succeeded = [n \in Name |-> << >>]
  /\ failed = [n \in Name |-> << >>]
  /\ outcome = "running"

(* The next key of the projection map, and its candidates. *)
Visit(p) ==
  /\ outcome = "running"
  /\ untried = << >>
  /\ p \in todo
  /\ todo' = todo \ {p}
  /\ cur' = {p}
  /\ untried' = Candidates(p)
  /\ UNCHANGED <<succeeded, failed, outcome>>

File(book, n, p) == [book EXCEPT ![n] = Append(@, p)]

(* Slip: the loop over the candidates goes on after a success. *)
AcceptAndGoOn(p) ==
  /\ outcome = "running"
  /\ untried # << >>
  /\ cur = {p}
  /\ Head(untried) \in Defined
  /\ succeeded' = File(succeeded, NameOf[Head(untried)], p)
  /\ untried' = Tail(untried)
  /\ UNCHANGED <<todo, cur, failed, outcome>>

(* One success is enough: the other candidates are not tried. *)
Accept(p) ==
  /\ outcome = "running"
  /\ untried # << >>
  /\ cur = {p}
  /\ Head(untried) \in Defined
  /\ succeeded' = File(succeeded, NameOf[Head(untried)], p)
  /\ untried' = << >>
  /\ UNCHANGED <<todo, cur, failed, outcome>>

Reject(p) ==
  /\ outcome = "running"
  /\ untried # << >>
  /\ cur = {p}
  /\ Head(untried) \in Defined
  /\ failed' = File(failed, NameOf[Head(untried)], p)
  /\ untried' = Tail(untried)
  /\ UNCHANGED <<todo, cur, succeeded, outcome>>

(***************************************************************************)
(* An exception, or the end of the process, in the middle of a candidate:  *)
(* the results so far are never printed.                                   *)
(***************************************************************************)
Abort ==
  /\ outcome = "running"
  /\ untried # << >>
  /\ outcome' = "aborted"
  /\ UNCHANGED <<todo, cur, untried, succeeded, failed>>

printValidations ==
  /\ outcome = "running"
  /\ untried = << >>
  /\ todo = {}
  /\ outcome' = "complete"
  /\ UNCHANGED <<todo, cur, untried, succeeded, failed>>

Next ==
  \/ \E p \in Participant : Visit(p) \/ Accept(p) \/ Reject(p)
  \/ Abort
  \/ printValidations

Spec == Init /\ [][Next]_reportVars

----------------------------------------------------------------------------
TypeOK ==
  /\ todo \subseteq Participant
  /\ cur \in SUBSET Participant
  /\ untried \in Seq(Method)
  /\ succeeded \in [Name -> Seq(Participant)]
  /\ failed \in [Name -> Seq(Participant)]
  /\ outcome \in {"running", "complete", "aborted"}

Count(s, p) == Cardinality({i \in DOMAIN s : s[i] = p})

(* How many methods with name n are among the candidates from a to b. *)
Named(c, a, b, n) == Cardinality({i \in a .. b : NameOf[c[i]] = n})

(* Visited, and not being tried any more. *)
Finished(p) == p \notin todo /\ (p \in cur => untried = << >>)

(***************************************************************************)
(* What is filed about p: there is a number k of candidates, counted from  *)
(* the last method declared, that failed, all filed as failures; unless    *)
(* these are all the candidates there are, the next one is filed as a      *)
(* success; and nothing else is filed.                                     *)
(***************************************************************************)
AccountedFor(p) ==
  LET c == Candidates(p)
  IN  \E k \in 0 .. Len(c) : \A n \in Name :
        /\ Count(failed[n], p) = Named(c, 1, k, n)
        /\ Count(succeeded[n], p) = Named(c, k + 1, IF k < Len(c) THEN k + 1 ELSE k, n)

(***************************************************************************)
(* The books account for every participant the run is through with, and    *)
(* so the report for all.  (Lines 79-118 file by name: methods that share  *)
(* one share its entry.)                                                   *)
(***************************************************************************)
ReportAccountsForAll ==
  /\ outcome = "complete" => \A p \in Participant : Finished(p)
  /\ \A p \in Participant : Finished(p) => AccountedFor(p)
=============================================================================
