----------------------------- MODULE MCMatcher -----------------------------
(***************************************************************************)
(* Small programs for Matcher: a method, a helper it may call and a helper *)
(* of the helper, which may call back, with every body over a few kinds of *)
(* statements; longer methods that call nothing; and every list of at most *)
(* MaxList projections.                                                    *)
(***************************************************************************)
EXTENDS Matcher, SequencesExt

CONSTANTS
  MaxMain,     \* the longest body of the method
  MaxHelper,   \* the longest body of a helper
  MaxFlat,     \* the longest body of a method that calls nothing
  MaxList,     \* the longest projection list
  MainKinds, HelperKinds, LeafKinds, FlatKinds, \* the statements each body may have
  SendOn       \* the channels a choreography may have the participant send on

MCType == {"T"}
MCChannel == {"a", "b"}

Statement(cls, writes, waits, callee) ==
  [cls |-> cls, writes |-> writes, waits |-> waits, callee |-> callee]

(* The statements, by name, the way the tests of the repository write them *)
StatementOf(name) ==
  CASE name = "send a"  -> Statement("CXXOperatorCallExpr", {<<"a", "T">>}, {}, NoFn)
    [] name = "send b"  -> Statement("BinaryOperator", {<<"b", "T">>}, {}, NoFn)
    [] name = "wait b"  -> Statement("WhileStmt", {}, {"b"}, NoFn)
    [] name = "other"   -> Statement("Other", {<<"a", "T">>}, {"b"}, NoFn)
    [] name = "help"    -> Statement("CXXMemberCallExpr", {}, {}, "help")
    [] name = "x=help"  -> Statement("BinaryOperator", {}, {}, "help")
    [] name = "leaf"    -> Statement("CXXMemberCallExpr", {}, {}, "leaf")

Bodies(kinds, max) == {[i \in DOMAIN s |-> StatementOf(s[i])] : s \in BoundedSeq(kinds, max)}

MCCalls ==
  {[main |-> m, help |-> h, leaf |-> l] :
     m \in Bodies(MainKinds, MaxMain),
     h \in Bodies(HelperKinds, MaxHelper),
     l \in Bodies(LeafKinds, 1)}

MCFlat == {[main |-> m, help |-> << >>, leaf |-> << >>] : m \in Bodies(FlatKinds, MaxFlat)}

MCPrograms == MCCalls \cup MCFlat

MCChoreos ==
  BoundedSeq({[kind |-> "send", channel |-> c, type |-> "T"] : c \in SendOn}
             \cup {[kind |-> "receive", channel |-> "b", type |-> "T"]}, MaxList) \ {<< >>}
=============================================================================
