---------------------------- MODULE MCAnalyzer ----------------------------
(* An instance of Analyzer for model checking. *)
EXTENDS Analyzer

MCName == {"PchorUnaryIndex", "I", "J", "i", "p", "q", "r", "k", "G", "H", "L", "Work", "Ack"}

(* Uses and items. *)
Bare(n) == [name |-> n, index |-> "none"]
At(n) == [name |-> n, index |-> "plain"]
Bound(n, x) == [name |-> n, index |-> x]
Com(s, r, c, t) == [tag |-> "com", from |-> s, to |-> r, on |-> c, type |-> t]
Open(v, x) == [tag |-> "open", var |-> v, over |-> x, bound |-> ":"]
UpTo(v, x) == [tag |-> "open", var |-> v, over |-> x, bound |-> "<"]
Shut == [tag |-> "close"]
Ref(n) == [tag |-> "ref", name |-> n]

(* Declarations. *)
Index(n) == [tag |-> "Index", name |-> n]
Participant(n, x) == [tag |-> "Participant", name |-> n, index |-> x]
Channel(n, x) == [tag |-> "Channel", name |-> n, index |-> x]
Label(n) == [tag |-> "Label", name |-> n]
Malformed(n) == [tag |-> "Malformed", name |-> n]
Global(n, b) == [tag |-> "Global", name |-> n, body |-> b]
One == <<"literal", "1">>
By(n) == <<"name", n>>

(***************************************************************************)
(* The declarations a file begins with: 15, 23, 28, 31 and 18 tokens.  The *)
(* last two are refused.                                                   *)
(***************************************************************************)
Prologues == {
  <<Participant("p", One), Participant("q", One), Channel("k", One)>>,
  <<Index("I"), Participant("p", By("I")), Participant("q", One), Channel("k", One)>>,
  <<Index("I"), Participant("p", One), Participant("q", By("I")),
    Participant("r", <<"literal", "10">>), Channel("k", By("I"))>>,
  <<Index("I"), Index("J"), Participant("p", By("I")), Participant("q", By("J")), Channel("k", One)>>,
  <<Index("I"), Participant("p", By("I")), Channel("k", One)>>,
  <<Index("I"), Participant("p", <<"literal", "2">>)>>,
  <<Participant("p", By("q"))>>}

(* What follows, in any order and with any repetition. *)
Pool == {
  Global("G", <<Com(Bare("p"), Bare("q"), Bare("k"), "Work")>>),
  Global("G", <<Com(At("p"), At("q"), Bare("k"), "Ack")>>),
  Global("G", <<Open("i", "I"), Com(Bare("q"), Bare("p"), Bare("k"), "Work"), Shut>>),
  Global("G", <<Ref("H")>>),
  Global("H", <<Ref("G"), Com(Bare("q"), Bare("p"), Bare("k"), "Ack"), Ref("G")>>),
  Global("H", <<Com(Bound("p", "I"), Bare("q"), Bare("k"), "Work")>>),
  Global("H", <<Com(Bare("p"), Bare("q"), Bare("k"), "k")>>),
  Global("H", <<Com(Bare("p"), Bare("r"), Bare("k"), "Work")>>),
  Global("H", <<Com(Bare("p"), At("r"), Bare("k"), "Work")>>),
  Global("H", <<UpTo("p", "I"), Shut>>),
  Participant("p", One),
  Participant("H", One),
  Label("L"),
  Malformed("G")}

(* And names declared again: the last G would close a cycle, were it kept. *)
Again == {
  <<Global("G", <<Com(Bare("p"), Bare("q"), Bare("k"), "Work")>>),
    Global("H", <<Ref("G"), Com(Bare("q"), Bare("p"), Bare("k"), "Ack"), Ref("G")>>),
    Global("G", <<Ref("H")>>)>>,
  <<Global("G", <<Com(Bare("p"), Bare("q"), Bare("k"), "Work")>>),
    Channel("p", One), Global("G", << >>)>>,
  <<Global("G", <<Com(Bare("p"), Bare("r"), Bare("k"), "Work")>>),
    Global("H", <<Ref("G")>>), Global("H", <<Open("H", "I"), Shut>>)>>,
  <<Channel("r", One), Participant("r", One),
    Global("H", <<Com(Bare("p"), Bare("r"), Bare("k"), "Work")>>)>>,
  <<Participant("PchorUnaryIndex", One),
    Global("H", <<Com(Bare("p"), At("PchorUnaryIndex"), Bare("k"), "Work")>>)>>}

MCFiles == {a \o b : a \in Prologues, b \in {<<x>> : x \in Pool} \cup (Pool \X Pool) \cup Again}

(***************************************************************************)
(* The C++ code: the fields of p and q decide who owns the channel.        *)
(***************************************************************************)
Types == [n \in {"Work", "Ack", "k", "r"} |-> << >>]

MCCode == {
  ("p" :> <<"Ack", "Work">> @@ "q" :> <<"Ack", "Ack">>) @@ Types,
  ("p" :> <<"Work", "k">> @@ "q" :> <<"Ack", "Work", "Work">>) @@ Types,
  ("p" :> <<"Work", "Ack">> @@ "q" :> << >>) @@ [n \in {"Work", "H"} |-> << >>]}
===========================================================================
