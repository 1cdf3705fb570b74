---------------------------- MODULE MCProjection ----------------------------
(***************************************************************************)
(* Choreographies of three expression lists: the global type's own, a list *)
(* it may name or iterate, and a list either of them may.  They have the   *)
(* shape of the tests' rings and multicasts, with nested and crossed       *)
(* loops.                                                                  *)
(***************************************************************************)
EXTENDS Projection

CONSTANTS
  Kinds      \* the kinds of iteration the choreographies have

MCLower == [I |-> 1, U |-> 1, Z |-> 0, N |-> 1, X |-> 2]
MCUpper == [I |-> 2, U |-> 1, Z |-> 0, N |-> SizeMax, X |-> 1]
MCIndexOf == [A |-> "I", B |-> "U"]

Lit(n) == <<"literal", n>>
I == <<"identifier", "i">>
J == <<"identifier", "j">>

Com(from, to, on) == [tag |-> "com", from |-> from, to |-> to, on |-> on, type |-> "T"]
Loop(x, kind, over, l) == [tag |-> "forEach", iter |-> [var |-> x, kind |-> kind, over |-> over],
                           body |-> l]
Named(l) == [tag |-> "list", body |-> l]

(* B -> A[i]: c[i];  A[i] -> A[i+1]: c[i+1];  A[i] -> A[j]: c[i-j];  B -> B: c *)
Coms == {Com(<<"B", <<Lit(1)>> >>, <<"A", <<I>> >>, <<"c", <<I>> >>),
         Com(<<"A", <<I>> >>, <<"A", <<I, Lit(1), <<"+">> >> >>, <<"c", <<I, Lit(1), <<"+">> >> >>),
         Com(<<"A", <<I>> >>, <<"A", <<J>> >>, <<"c", <<I, J, <<"-">> >> >>),
         Com(<<"B", <<Lit(1)>> >>, <<"B", <<Lit(1)>> >>, <<"c", <<Lit(1)>> >>)}

(* What closes a ring: A[max(I)] -> A[min(I)]: c[min(I)] *)
Closing == Com(<<"A", <<Lit(2)>> >>, <<"A", <<Lit(1)>> >>, <<"c", <<Lit(1)>> >>)

Loops1(l) == {Loop("i", ":", "I", l), Loop("i", "<", "I", l), Loop("j", ":", "I", l)}
Loops2(l) == Loops1(l) \cup {Loop("i", k, "I", l) : k \in Kinds}
                       \cup {Loop("j", k, "U", l) : k \in Kinds}
                       \cup {Loop("j", k, "Z", l) : k \in Kinds}
                       \cup {Loop("i", k, "N", l) : k \in Kinds}
                       \cup {Loop("i", ":", "X", l)}

MCChoreos ==
  {[top |-> 3, lists |-> <<a, b, c>>] :
     a \in BoundedSeq(Coms, 1),
     b \in BoundedSeq(Coms \cup Loops1(1) \cup {Named(1)}, 2),
     c \in {s \o t : s \in BoundedSeq(Loops2(2) \cup {Named(2)}, 1),
                     t \in BoundedSeq({Closing, Named(1)}, 1)}}

(***************************************************************************)
(* PchorParser.cpp:561 has "i > min(I)" leave out the first index.         *)
(* Refuted: the loop starts one below it (line 632), and takes in all.     *)
(***************************************************************************)
ExcludesFirst ==
  outcome = "done" /\ Bounded
    /\ (\A it \in Iterations : Lower[it.over] < Upper[it.over]) => Projects
=============================================================================
