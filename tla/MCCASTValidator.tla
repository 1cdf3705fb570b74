-------------------------- MODULE MCCASTValidator --------------------------
(***************************************************************************)
(* Two participants of one class and a third of another, as Sender[1],     *)
(* Sender[2] and Receiver[1] would be.  The first class has two methods    *)
(* that share a name, one calling the other, and sometimes called back by  *)
(* it; the second a constructor, a pure virtual method and an ordinary     *)
(* one.                                                                    *)
(***************************************************************************)
EXTENDS CASTValidator

MCMethods == [p \in Participant |-> IF p = "R1" THEN <<"R", "pure", "get">>
                                              ELSE <<"put", "put2">>]
MCNameOf == [m \in Method |-> IF m = "put2" THEN "put" ELSE m]
MCKindOf == [m \in Method |-> IF m = "R" THEN "constructor" ELSE "method"]

Statement(cls, writes, waits, callee) ==
  [cls |-> cls, writes |-> writes, waits |-> waits, callee |-> callee]

SendA == Statement("CXXOperatorCallExpr", {<<"a", "T">>}, {}, NoFn)
WaitB == Statement("WhileStmt", {}, {"b"}, NoFn)
CallPut2 == Statement("CXXMemberCallExpr", {}, {}, "put2")
CallPut == Statement("CXXMemberCallExpr", {}, {}, "put")

MCPrograms ==
  {[put |-> b, put2 |-> c, get |-> d] :
     b \in BoundedSeq({SendA, WaitB, CallPut2}, 2),
     c \in BoundedSeq({SendA, WaitB}, 2) \cup {<<SendA, CallPut>>},
     d \in BoundedSeq({SendA, WaitB}, 1)}

Send == [kind |-> "send", channel |-> "a", type |-> "T"]
Receive == [kind |-> "receive", channel |-> "b", type |-> "T"]

MCChoreos == {<<Send>>, <<Send, Receive>>, <<Receive>>}

MCProjections ==
  {m \in [Participant -> MCChoreos] : m["R1"] = <<Receive>> /\ m["S1"] # <<Receive>>}
=============================================================================
