----------------------- MODULE ValidationReportProofs -----------------------
(***************************************************************************)
(* Proofs about ValidationReport: whatever the classes declare, and        *)
(* whatever the verdicts, the books are complete and exact.                *)
(***************************************************************************)
EXTENDS ValidationReport, LeastElement, FiniteSetTheorems, TLAPS

(* The functions of Candidates that are defined on the first m methods of s. *)
Collects(g, s, m) ==
  g = [k \in 0 .. m |->
         IF k = 0 THEN << >>
         ELSE IF KindOf[s[k]] = "method" THEN <<s[k]>> \o g[k - 1]
         ELSE g[k - 1]]

(* There is one for every m. *)
LEMMA CollectsExists ==
  ASSUME NEW s, NEW m \in Nat
  PROVE  \E g : Collects(g, s, m)
<1>. DEFINE Bad == {i \in Nat : ~\E g : Collects(g, s, i)}
<1>1. SUFFICES ASSUME Bad # {} PROVE FALSE
  OBVIOUS
<1>2. PICK i \in Bad : \A j \in Bad : i <= j
  <2>1. Bad \subseteq Nat
    OBVIOUS
  <2>. QED
    BY <1>1, <2>1, Least
<1>3. i # 0
  <2>1. Collects([k \in 0 .. 0 |-> << >>], s, 0)
    BY DEF Collects
  <2>. QED
    BY <2>1
<1>4. PICK g : Collects(g, s, i - 1)
  <2>1. i - 1 \in Nat /\ ~(i <= i - 1)
    BY <1>3
  <2>. QED
    BY <1>2, <2>1
<1>. DEFINE h == [k \in 0 .. i |->
                    IF k = 0 THEN << >>
                    ELSE IF KindOf[s[k]] = "method" THEN <<s[k]>> \o g[k - 1]
                    ELSE g[k - 1]]
<1>5. ASSUME NEW k \in 0 .. i - 1 PROVE h[k] = g[k]
  <2>1. k \in 0 .. i
    OBVIOUS
  <2>2. g[k] = IF k = 0 THEN << >>
               ELSE IF KindOf[s[k]] = "method" THEN <<s[k]>> \o g[k - 1]
               ELSE g[k - 1]
    BY <1>4 DEF Collects
  <2>. QED
    BY <2>1, <2>2
<1>6. \A k \in 0 .. i : k # 0 => k - 1 \in 0 .. i - 1
  BY <1>3
<1>7. Collects(h, s, i)
  BY <1>5, <1>6 DEF Collects
<1>. QED
  BY <1>7

(* A collection of methods is a list of methods. *)
LEMMA CollectsType ==
  ASSUME NEW s \in Seq(Method), NEW g, Collects(g, s, Len(s))
  PROVE  g[Len(s)] \in Seq(Method)
<1>. DEFINE Bad == {i \in 0 .. Len(s) : g[i] \notin Seq(Method)}
<1>1. SUFFICES ASSUME Bad # {} PROVE FALSE
  OBVIOUS
<1>2. PICK i \in Bad : \A j \in Bad : i <= j
  <2>1. Bad \subseteq Nat
    OBVIOUS
  <2>. QED
    BY <1>1, <2>1, Least
<1>3. i # 0
  BY DEF Collects
<1>4. g[i - 1] \in Seq(Method)
  BY <1>2, <1>3
<1>5. s[i] \in Method
  BY <1>3
<1>6. g[i] = IF KindOf[s[i]] = "method" THEN <<s[i]>> \o g[i - 1] ELSE g[i - 1]
  BY <1>3 DEF Collects
<1>7. <<s[i]>> \o g[i - 1] \in Seq(Method)
  BY <1>4, <1>5
<1>. QED
  BY <1>4, <1>6, <1>7

(* The candidates are methods. *)
LEMMA CandidatesType ==
  ASSUME ReportAssumption, NEW p \in Participant
  PROVE  Candidates(p) \in Seq(Method)
<1>1. Methods[p] \in Seq(Method) /\ Len(Methods[p]) \in Nat
  BY DEF ReportAssumption
<1>2. PICK g : Collects(g, Methods[p], Len(Methods[p]))
  BY <1>1, CollectsExists
<1>. DEFINE of == CHOOSE g1 : Collects(g1, Methods[p], Len(Methods[p]))
<1>3. Collects(of, Methods[p], Len(Methods[p]))
  BY <1>2
<1>4. Candidates(p) = of[Len(Methods[p])]
  BY DEF Candidates, Collects
<1>. HIDE DEF of
<1>. QED
  BY <1>1, <1>3, <1>4, CollectsType

(***************************************************************************)
(* Counting.                                                               *)
(***************************************************************************)
LEMMA CountType ==
  ASSUME NEW S, NEW s \in Seq(S), NEW p
  PROVE  Count(s, p) \in Nat /\ IsFiniteSet({i \in DOMAIN s : s[i] = p})
<1>1. IsFiniteSet(1 .. Len(s))
  BY FS_Interval
<1>2. {i \in DOMAIN s : s[i] = p} \subseteq 1 .. Len(s)
  OBVIOUS
<1>. QED
  BY <1>1, <1>2, FS_Subset, FS_CardinalityType DEF Count

LEMMA CountEmpty ==
  ASSUME NEW p
  PROVE  Count(<< >>, p) = 0
<1>1. {i \in DOMAIN << >> : << >>[i] = p} = {}
  OBVIOUS
<1>. QED
  BY <1>1, FS_EmptySet DEF Count

LEMMA CountAppend ==
  ASSUME NEW S, NEW s \in Seq(S), NEW q \in S, NEW p
  PROVE  Count(Append(s, q), p) = Count(s, p) + IF q = p THEN 1 ELSE 0
<1>. DEFINE old == {i \in DOMAIN s : s[i] = p}
            new == {i \in DOMAIN Append(s, q) : Append(s, q)[i] = p}
            l == Len(s) + 1
<1>0. /\ Count(s, p) = Cardinality(old)
      /\ Count(Append(s, q), p) = Cardinality(new)
  BY DEF Count
<1>1. IsFiniteSet(old) /\ Cardinality(old) \in Nat
  BY <1>0, CountType
<1>2. l \notin old
  OBVIOUS
<1>3. CASE q = p
  <2>1. new = old \cup {l}
    BY <1>3
  <2>2. Cardinality(new) = Cardinality(old) + 1
    BY <1>1, <1>2, <2>1, FS_AddElement
  <2>. HIDE DEF old, new
  <2>. QED
    BY <1>0, <1>3, <2>2
<1>4. CASE q # p
  <2>1. new = old
    BY <1>4
  <2>. HIDE DEF old, new
  <2>. QED
    BY <1>0, <1>1, <1>4, <2>1
<1>. QED
  BY <1>3, <1>4

LEMMA NamedType ==
  ASSUME NEW c, NEW a \in Nat, NEW b \in Nat, NEW n
  PROVE  Named(c, a, b, n) \in Nat /\ IsFiniteSet({i \in a .. b : NameOf[c[i]] = n})
<1>1. IsFiniteSet(a .. b)
  BY FS_Interval
<1>2. {i \in a .. b : NameOf[c[i]] = n} \subseteq a .. b
  OBVIOUS
<1>. QED
  BY <1>1, <1>2, FS_Subset, FS_CardinalityType DEF Named

LEMMA NamedNone ==
  ASSUME NEW c, NEW k \in Nat, NEW n
  PROVE  Named(c, k + 1, k, n) = 0
<1>1. {i \in k + 1 .. k : NameOf[c[i]] = n} = {}
  OBVIOUS
<1>. QED
  BY <1>1, FS_EmptySet DEF Named

(* The next candidate is one more, if it has the name. *)
LEMMA NamedNext ==
  ASSUME NEW c, NEW a \in Nat, NEW k \in Nat, a <= k + 1, NEW n
  PROVE  Named(c, a, k + 1, n)
           = Named(c, a, k, n) + IF NameOf[c[k + 1]] = n THEN 1 ELSE 0
<1>. DEFINE old == {i \in a .. k : NameOf[c[i]] = n}
            new == {i \in a .. k + 1 : NameOf[c[i]] = n}
<1>0. /\ Named(c, a, k, n) = Cardinality(old)
      /\ Named(c, a, k + 1, n) = Cardinality(new)
  BY DEF Named
<1>1. IsFiniteSet(old) /\ Cardinality(old) \in Nat
  BY <1>0, NamedType
<1>2. k + 1 \notin old
  OBVIOUS
<1>3. a .. k + 1 = (a .. k) \cup {k + 1}
  OBVIOUS
<1>4. CASE NameOf[c[k + 1]] = n
  <2>1. new = old \cup {k + 1}
    BY <1>3, <1>4
  <2>. QED
    BY <1>0, <1>1, <1>2, <1>4, <2>1, FS_AddElement
<1>5. CASE NameOf[c[k + 1]] # n
  <2>1. new = old
    BY <1>3, <1>5
  <2>. QED
    BY <1>0, <1>1, <1>5, <2>1
<1>. QED
  BY <1>4, <1>5

(***************************************************************************)
(* The inductive invariant.  The property says nothing of the participant  *)
(* being tried, nor of those to come; the invariant does: k candidates of  *)
(* the one have failed and been filed, the rest is still to try, and of    *)
(* the others nothing is filed.                                            *)
(***************************************************************************)
Tried(p, k) ==
  \A n \in Name : /\ Count(failed[n], p) = Named(Candidates(p), 1, k, n)
                  /\ Count(succeeded[n], p) = 0

StillToTry(p, k) ==
  /\ k < Len(Candidates(p))
  /\ untried = [i \in 1 .. Len(Candidates(p)) - k |-> Candidates(p)[k + i]]

UnderTrial(p) == \E k \in Nat : StillToTry(p, k) /\ Tried(p, k)

BooksInv ==
  /\ TypeOK
  /\ \A p \in cur : cur = {p} /\ p \notin todo
  /\ untried # << >> => cur # {}
  /\ outcome = "complete" => todo = {} /\ untried = << >>
  /\ \A p \in todo : Tried(p, 0)
  /\ \A p \in cur : untried # << >> => UnderTrial(p)
  /\ \A p \in Participant : Finished(p) => AccountedFor(p)

(* The books account for p with k failures. *)
AccountedWith(p, k) ==
  \A n \in Name :
    /\ Count(failed[n], p) = Named(Candidates(p), 1, k, n)
    /\ Count(succeeded[n], p)
         = Named(Candidates(p), k + 1, IF k < Len(Candidates(p)) THEN k + 1 ELSE k, n)

LEMMA AccountedForWith ==
  \A p : AccountedFor(p) <=> \E k \in 0 .. Len(Candidates(p)) : AccountedWith(p, k)
BY DEF AccountedFor, AccountedWith

(* All candidates tried, and none accepted. *)
LEMMA AllTried ==
  ASSUME ReportAssumption, NEW p \in Participant, Tried(p, Len(Candidates(p)))
  PROVE  AccountedWith(p, Len(Candidates(p))) /\ AccountedFor(p)
<1>. DEFINE k == Len(Candidates(p))
<1>1. k \in Nat
  BY CandidatesType
<1>2. \A n : Named(Candidates(p), k + 1, k, n) = 0
  BY <1>1, NamedNone
<1>3. k \in 0 .. Len(Candidates(p)) /\ ~(k < Len(Candidates(p)))
  BY <1>1
<1>. QED
  BY <1>2, <1>3, AccountedForWith DEF AccountedWith, Tried

LEMMA BooksInit == ReportAssumption /\ Init => BooksInv
<1>. SUFFICES ASSUME ReportAssumption, Init PROVE BooksInv
  OBVIOUS
<1>. USE DEF Init
<1>1. TypeOK
  BY DEF TypeOK
<1>2. ASSUME NEW p \in todo PROVE Tried(p, 0)
  <2>1. \A n : Named(Candidates(p), 1, 0, n) = 0
    BY NamedNone, 0 \in Nat, 0 + 1 = 1
  <2>. QED
    BY <2>1, CountEmpty DEF Tried
<1>. QED
  BY <1>1, <1>2 DEF BooksInv, Finished

(* Visiting p leaves the books alone, and so what they say of the others. *)
LEMMA BooksVisit ==
  ASSUME ReportAssumption, BooksInv, NEW p \in Participant, Visit(p)
  PROVE  /\ BooksInv'
         /\ untried' = << >> => Len(Candidates(p)) = 0 /\ AccountedWith(p, 0)'
<1>. USE DEF Visit
<1>1. Candidates(p) \in Seq(Method)
  BY CandidatesType
<1>2. TypeOK'
  BY <1>1 DEF BooksInv, TypeOK
<1>3. \A q : Candidates(q)' = Candidates(q)
  BY DEF Candidates
<1>4. \A q, k : Tried(q, k)' <=> Tried(q, k)
  BY <1>3 DEF Tried, Count, Named
<1>5. \A q : AccountedFor(q)' <=> AccountedFor(q)
  BY <1>3 DEF AccountedFor, Count, Named
<1>6. Tried(p, 0)
  BY DEF BooksInv
<1>7. CASE untried' = << >>
  <2>1. Len(Candidates(p)) = 0
    BY <1>7
  <2>2. AccountedFor(p) /\ AccountedWith(p, 0)
    BY <1>6, <2>1, AllTried
  <2>4. AccountedWith(p, 0)'
    BY <1>3, <2>2 DEF AccountedWith, Count, Named
  <2>3. \A q \in Participant : Finished(q)' => q = p \/ Finished(q)
    BY DEF Finished
  <2>. QED
    BY <1>2, <1>4, <1>5, <1>7, <2>1, <2>2, <2>3, <2>4 DEF BooksInv
<1>8. CASE untried' # << >>
  <2>1. 0 < Len(Candidates(p)) /\ 0 \in Nat
    BY <1>1, <1>8
  <2>2. Candidates(p) = [i \in 1 .. Len(Candidates(p)) - 0 |-> Candidates(p)[0 + i]]
    BY <1>1
  <2>3. UnderTrial(p)'
    BY <1>3, <1>4, <1>6, <2>1, <2>2 DEF UnderTrial, StillToTry
  <2>4. \A q \in Participant : Finished(q)' => Finished(q)
    BY <1>8 DEF Finished
  <2>. QED
    BY <1>2, <1>4, <1>5, <1>8, <2>3, <2>4 DEF BooksInv
<1>. QED
  BY <1>7, <1>8

(* An entry of the book grows by one. *)
LEMMA FileEntry ==
  ASSUME NEW b \in Seq(Participant), NEW p \in Participant, NEW q
  PROVE  /\ p = q => Count(Append(b, p), q) = Count(b, q) + 1
         /\ p # q => Count(Append(b, p), q) = Count(b, q)
<1>1. Count(Append(b, p), q) = Count(b, q) + IF p = q THEN 1 ELSE 0
  BY CountAppend
<1>2. Count(b, q) \in Nat
  BY CountType
<1>. QED
  BY <1>1, <1>2

(* The candidate tried next. *)
LEMMA HeadOfUntried ==
  ASSUME ReportAssumption, NEW p \in Participant, NEW k \in Nat,
         k < Len(Candidates(p)), untried # << >>, untried \in Seq(Method),
         untried = [i \in 1 .. Len(Candidates(p)) - k |-> Candidates(p)[k + i]]
  PROVE  /\ Head(untried) = Candidates(p)[k + 1]
         /\ NameOf[Head(untried)] \in Name
         /\ Tail(untried) = [i \in 1 .. Len(Candidates(p)) - (k + 1)
                               |-> Candidates(p)[(k + 1) + i]]
<1>. DEFINE c == Candidates(p)
<1>1. c \in Seq(Method)
  BY CandidatesType
<1>2. Len(untried) = Len(c) - k
  BY <1>1
<1>. HIDE DEF c
<1>3. Head(untried) = c[k + 1]
  BY <1>1, <1>2 DEF c
<1>4. NameOf[Head(untried)] \in Name
  BY DEF ReportAssumption
<1>5. Tail(untried) = [i \in 1 .. Len(c) - (k + 1) |-> c[(k + 1) + i]]
  <2>1. Tail(untried) = [i \in 1 .. Len(untried) - 1 |-> untried[i + 1]]
    OBVIOUS
  <2>2. Len(untried) - 1 = Len(c) - (k + 1)
    BY <1>1, <1>2
  <2>3. \A i \in 1 .. Len(c) - (k + 1) : untried[i + 1] = c[(k + 1) + i]
    <3>1. TAKE i \in 1 .. Len(c) - (k + 1)
    <3>2. i + 1 \in 1 .. Len(c) - k /\ k + (i + 1) = (k + 1) + i
      BY <1>1
    <3>. QED
      BY <3>2 DEF c
  <2>. QED
    BY <2>1, <2>2, <2>3
<1>. QED
  BY <1>3, <1>4, <1>5 DEF c

(* Filing p's answer leaves the counts of the others alone. *)
LEMMA OthersKept ==
  ASSUME BooksInv, NEW p \in Participant, NEW m \in Name, cur = {p},
         UNCHANGED <<todo, cur>>,
         \/ succeeded' = File(succeeded, m, p) /\ failed' = failed
         \/ failed' = File(failed, m, p) /\ succeeded' = succeeded
  PROVE  /\ \A q \in todo : Tried(q, 0)'
         /\ \A q \in Participant \ {p} : Finished(q)' => AccountedFor(q)'
         /\ \A q \in Participant \ {p} : \A k : AccountedWith(q, k) => AccountedWith(q, k)'
<1>1. succeeded \in [Name -> Seq(Participant)] /\ failed \in [Name -> Seq(Participant)]
  BY DEF BooksInv, TypeOK
<1>2. ASSUME NEW q, q # p, NEW n \in Name
      PROVE  /\ Count(succeeded[n], q)' = Count(succeeded[n], q)
             /\ Count(failed[n], q)' = Count(failed[n], q)
  <2>1. /\ Count(succeeded[n], q)' = Count(succeeded'[n], q)
        /\ Count(failed[n], q)' = Count(failed'[n], q)
    BY DEF Count
  <2>2. CASE succeeded' = File(succeeded, m, p) /\ failed' = failed
    <3>1. succeeded'[n] = IF n = m THEN Append(succeeded[n], p) ELSE succeeded[n]
      BY <1>1, <2>2 DEF File
    <3>2. succeeded[n] \in Seq(Participant)
      BY <1>1
    <3>3. Count(succeeded'[n], q) = Count(succeeded[n], q)
      BY <1>2, <3>1, <3>2, FileEntry
    <3>. QED
      BY <2>1, <2>2, <3>3
  <2>3. CASE failed' = File(failed, m, p) /\ succeeded' = succeeded
    <3>1. failed'[n] = IF n = m THEN Append(failed[n], p) ELSE failed[n]
      BY <1>1, <2>3 DEF File
    <3>2. failed[n] \in Seq(Participant)
      BY <1>1
    <3>3. Count(failed'[n], q) = Count(failed[n], q)
      BY <1>2, <3>1, <3>2, FileEntry
    <3>. QED
      BY <2>1, <2>3, <3>3
  <2>. QED
    BY <2>2, <2>3
<1>3. \A q : Candidates(q)' = Candidates(q)
  BY DEF Candidates
<1>4. \A c, a, b, n : Named(c, a, b, n)' = Named(c, a, b, n)
  BY DEF Named
<1>5. ASSUME NEW q \in todo PROVE Tried(q, 0)'
  <2>1. q # p /\ Tried(q, 0)
    BY DEF BooksInv
  <2>. QED
    BY <1>2, <1>3, <2>1 DEF Tried, Named
<1>6. ASSUME NEW q \in Participant, q # p, Finished(q)' PROVE AccountedFor(q)'
  <2>1. Finished(q)
    BY <1>6 DEF Finished
  <2>2. AccountedFor(q)
    BY <2>1 DEF BooksInv
  <2>. QED
    BY <1>2, <1>3, <1>6, <2>2 DEF AccountedFor, Named
<1>7. ASSUME NEW q \in Participant, q # p, NEW k, AccountedWith(q, k)
      PROVE  AccountedWith(q, k)'
  BY <1>2, <1>3, <1>7 DEF AccountedWith, Named
<1>. QED
  BY <1>5, <1>6, <1>7

LEMMA BooksAccept ==
  ASSUME ReportAssumption, BooksInv, NEW p \in Participant, Accept(p)
  PROVE  /\ BooksInv'
         /\ \E k \in Nat : /\ StillToTry(p, k)
                          /\ Head(untried) = Candidates(p)[k + 1]
                          /\ AccountedWith(p, k)'
         /\ \A q \in Participant \ {p} : \A k : AccountedWith(q, k) => AccountedWith(q, k)'
<1>. USE DEF Accept
<1>. DEFINE c == Candidates(p)
            m == NameOf[Head(untried)]
<1>1. PICK k \in Nat :
        /\ StillToTry(p, k)
        /\ k < Len(c)
        /\ untried = [i \in 1 .. Len(c) - k |-> c[k + i]]
        /\ Tried(p, k)
  BY DEF BooksInv, UnderTrial, StillToTry
<1>2. succeeded \in [Name -> Seq(Participant)] /\ untried \in Seq(Method)
  BY DEF BooksInv, TypeOK
<1>3. Head(untried) = c[k + 1] /\ m \in Name
  BY <1>1, <1>2, HeadOfUntried
<1>4. ASSUME NEW n \in Name
      PROVE  /\ n = m => Count(succeeded'[n], p) = Count(succeeded[n], p) + 1
             /\ n # m => Count(succeeded'[n], p) = Count(succeeded[n], p)
  <2>1. succeeded'[n] = IF n = m THEN Append(succeeded[n], p) ELSE succeeded[n]
    BY <1>2 DEF File
  <2>2. succeeded[n] \in Seq(Participant)
    BY <1>2
  <2>3. Count(Append(succeeded[n], p), p) = Count(succeeded[n], p) + 1
    BY <2>2, FileEntry
  <2>. QED
    BY <2>1, <2>3
<1>5. TypeOK'
  <2>1. succeeded' \in [Name -> Seq(Participant)]
    BY <1>2, <1>3 DEF File
  <2>. QED
    BY <2>1 DEF BooksInv, TypeOK
<1>6. /\ \A q \in todo : Tried(q, 0)'
      /\ \A q \in Participant \ {p} : Finished(q)' => AccountedFor(q)'
      /\ \A q \in Participant \ {p} : \A j : AccountedWith(q, j) => AccountedWith(q, j)'
  BY <1>3, OthersKept
<1>7. AccountedFor(p)' /\ AccountedWith(p, k)'
  <2>1. ASSUME NEW n \in Name
        PROVE  Named(c, k + 1, k + 1, n) = IF n = m THEN 1 ELSE 0
    <3>1. Named(c, k + 1, k, n) = 0
      BY NamedNone
    <3>2. Named(c, k + 1, k + 1, n)
            = Named(c, k + 1, k, n) + IF NameOf[c[k + 1]] = n THEN 1 ELSE 0
      BY NamedNext
    <3>. QED
      BY <1>3, <3>1, <3>2
  <2>2. ASSUME NEW n \in Name
        PROVE  /\ Count(succeeded'[n], p) = Named(c, k + 1, k + 1, n)
               /\ Count(failed'[n], p) = Named(c, 1, k, n)
    <3>1. Count(succeeded[n], p) = 0 /\ Count(failed[n], p) = Named(c, 1, k, n)
      BY <1>1 DEF Tried
    <3>. HIDE DEF c, m
    <3>2. Count(succeeded'[n], p) = Named(c, k + 1, k + 1, n)
      BY <1>4, <2>1, <3>1
    <3>. QED
      BY <3>1, <3>2
  <2>3. Len(c) \in Nat /\ k \in 0 .. Len(c)
    BY <1>1, CandidatesType
  <2>4. c' = c
    BY DEF Candidates
  <2>. HIDE DEF c
  <2>. QED
    BY <1>1, <2>2, <2>3, <2>4 DEF AccountedFor, AccountedWith, Count, Named, c
<1>8. BooksInv'
  BY <1>5, <1>6, <1>7 DEF BooksInv
<1>. QED
  BY <1>1, <1>3, <1>6, <1>7, <1>8

LEMMA BooksReject ==
  ASSUME ReportAssumption, BooksInv, NEW p \in Participant, Reject(p)
  PROVE  /\ BooksInv'
         /\ \E k \in Nat :
              /\ StillToTry(p, k)
              /\ Head(untried) = Candidates(p)[k + 1]
              /\ IF k + 1 = Len(Candidates(p))
                   THEN untried' = << >> /\ AccountedWith(p, k + 1)'
                   ELSE untried' # << >> /\ StillToTry(p, k + 1)'
         /\ \A q \in Participant \ {p} : \A k : AccountedWith(q, k) => AccountedWith(q, k)'
<1>. USE DEF Reject
<1>. DEFINE c == Candidates(p)
            m == NameOf[Head(untried)]
<1>1. PICK k \in Nat :
        /\ StillToTry(p, k)
        /\ k < Len(c)
        /\ untried = [i \in 1 .. Len(c) - k |-> c[k + i]]
        /\ Tried(p, k)
  BY DEF BooksInv, UnderTrial, StillToTry
<1>2. failed \in [Name -> Seq(Participant)] /\ untried \in Seq(Method)
  BY DEF BooksInv, TypeOK
<1>3. /\ Head(untried) = c[k + 1]
      /\ m \in Name
      /\ Tail(untried) = [i \in 1 .. Len(c) - (k + 1) |-> c[(k + 1) + i]]
  BY <1>1, <1>2, HeadOfUntried
<1>4. ASSUME NEW n \in Name
      PROVE  /\ n = m => Count(failed'[n], p) = Count(failed[n], p) + 1
             /\ n # m => Count(failed'[n], p) = Count(failed[n], p)
  <2>1. failed'[n] = IF n = m THEN Append(failed[n], p) ELSE failed[n]
    BY <1>2 DEF File
  <2>2. failed[n] \in Seq(Participant)
    BY <1>2
  <2>3. Count(Append(failed[n], p), p) = Count(failed[n], p) + 1
    BY <2>2, FileEntry
  <2>. QED
    BY <2>1, <2>3
<1>5. TypeOK'
  <2>1. Tail(untried) \in Seq(Method)
    BY <1>2
  <2>2. failed' \in [Name -> Seq(Participant)]
    BY <1>2, <1>3 DEF File
  <2>. QED
    BY <2>1, <2>2 DEF BooksInv, TypeOK
<1>6. /\ \A q \in todo : Tried(q, 0)'
      /\ \A q \in Participant \ {p} : Finished(q)' => AccountedFor(q)'
      /\ \A q \in Participant \ {p} : \A j : AccountedWith(q, j) => AccountedWith(q, j)'
  BY <1>3, OthersKept
<1>7. c' = c /\ c \in Seq(Method) /\ Len(c) \in Nat
  <2>1. c' = c
    BY DEF Candidates
  <2>2. c \in Seq(Method)
    BY CandidatesType
  <2>. HIDE DEF c
  <2>. QED
    BY <2>1, <2>2
<1>8. Tried(p, k + 1)'
  <2>1. ASSUME NEW n \in Name
        PROVE  Named(c, 1, k + 1, n) = Named(c, 1, k, n) + IF n = m THEN 1 ELSE 0
    <3>1. Named(c, 1, k + 1, n)
            = Named(c, 1, k, n) + IF NameOf[c[k + 1]] = n THEN 1 ELSE 0
      BY NamedNext
    <3>. QED
      BY <1>3, <3>1
  <2>2. ASSUME NEW n \in Name
        PROVE  /\ Count(failed'[n], p) = Named(c, 1, k + 1, n)
               /\ Count(succeeded'[n], p) = 0
    <3>1. Count(succeeded[n], p) = 0 /\ Count(failed[n], p) = Named(c, 1, k, n)
      BY <1>1 DEF Tried
    <3>2. Named(c, 1, k, n) \in Nat
      BY NamedType
    <3>. HIDE DEF c, m
    <3>3. Count(failed'[n], p) = Named(c, 1, k + 1, n)
      BY <1>4, <2>1, <3>1, <3>2
    <3>. QED
      BY <3>1, <3>3
  <2>. HIDE DEF c
  <2>. QED
    BY <1>7, <2>2 DEF Tried, Count, Named, c
<1>9. CASE k + 1 = Len(c)
  <2>1. (ReportAssumption /\ p \in Participant /\ Tried(p, Len(Candidates(p)))
           => AccountedWith(p, Len(Candidates(p))) /\ AccountedFor(p))'
    BY AllTried, PTL
  <2>2. AccountedFor(p)' /\ AccountedWith(p, k + 1)'
    BY <1>7, <1>8, <1>9, <2>1 DEF ReportAssumption
  <2>3. untried' = << >>
    BY <1>3, <1>7, <1>9
  <2>4. BooksInv'
    BY <1>5, <1>6, <2>2, <2>3 DEF BooksInv
  <2>. QED
    BY <1>1, <1>3, <1>6, <1>9, <2>2, <2>3, <2>4
<1>10. CASE k + 1 # Len(c)
  <2>1. k + 1 \in Nat /\ k + 1 < Len(c)
    BY <1>1, <1>7, <1>10
  <2>2. UnderTrial(p)' /\ StillToTry(p, k + 1)'
    BY <1>3, <1>7, <1>8, <2>1 DEF UnderTrial, StillToTry
  <2>3. untried' # << >>
    <3>1. Len(c) - (k + 1) \in Nat \ {0}
      BY <1>7, <2>1
    <3>2. DOMAIN untried' = 1 .. Len(c) - (k + 1)
      BY <1>3
    <3>. HIDE DEF c
    <3>3. 1 \in DOMAIN untried'
      BY <3>1, <3>2
    <3>. QED
      BY <3>3
  <2>4. ~Finished(p)'
    BY <2>3 DEF Finished
  <2>5. BooksInv'
    BY <1>5, <1>6, <2>2, <2>4 DEF BooksInv
  <2>. QED
    BY <1>1, <1>3, <1>6, <1>10, <2>2, <2>3, <2>5
<1>. QED
  BY <1>9, <1>10

LEMMA BooksStep == ReportAssumption /\ BooksInv /\ [Next]_reportVars => BooksInv'
<1>. SUFFICES ASSUME ReportAssumption, BooksInv, [Next]_reportVars PROVE BooksInv'
  OBVIOUS
<1>. DEFINE Same == UNCHANGED <<todo, cur, untried, succeeded, failed>>
<1>1. ASSUME Same, outcome' \in {"running", "complete", "aborted"},
             outcome' = "complete" => todo = {} /\ untried = << >>
      PROVE  BooksInv'
  <2>1. TypeOK'
    BY <1>1 DEF BooksInv, TypeOK
  <2>2. \A q : Candidates(q)' = Candidates(q)
    BY DEF Candidates
  <2>3. \A q, k : Tried(q, k)' <=> Tried(q, k)
    BY <1>1, <2>2 DEF Tried, Count, Named
  <2>4. \A q : AccountedFor(q)' <=> AccountedFor(q)
    BY <1>1, <2>2 DEF AccountedFor, Count, Named
  <2>5. \A q : UnderTrial(q)' <=> UnderTrial(q)
    BY <1>1, <2>2, <2>3 DEF UnderTrial, StillToTry
  <2>6. \A q : Finished(q)' <=> Finished(q)
    BY <1>1 DEF Finished
  <2>. QED
    BY <1>1, <2>1, <2>3, <2>4, <2>5, <2>6 DEF BooksInv
<1>2. ASSUME NEW p \in Participant, Visit(p) PROVE BooksInv'
  BY <1>2, BooksVisit
<1>3. ASSUME NEW p \in Participant, Accept(p) PROVE BooksInv'
  BY <1>3, BooksAccept
<1>4. ASSUME NEW p \in Participant, Reject(p) PROVE BooksInv'
  BY <1>4, BooksReject
<1>5. CASE Abort
  BY <1>1, <1>5 DEF Abort
<1>6. CASE printValidations
  BY <1>1, <1>6 DEF printValidations
<1>7. CASE UNCHANGED reportVars
  <2>1. outcome' \in {"running", "complete", "aborted"}
    BY <1>7 DEF BooksInv, TypeOK, reportVars
  <2>2. outcome' = "complete" => todo = {} /\ untried = << >>
    BY <1>7 DEF BooksInv, reportVars
  <2>. QED
    BY <1>1, <1>7, <2>1, <2>2 DEF reportVars
<1>. QED
  BY <1>2, <1>3, <1>4, <1>5, <1>6, <1>7 DEF Next

LEMMA BooksInvariant == ReportAssumption /\ Spec => []BooksInv
<1>. DEFINE Inv == ReportAssumption /\ BooksInv
<1>1. ReportAssumption /\ Init => Inv
  BY BooksInit
<1>2. Inv /\ [Next]_reportVars => Inv'
  BY BooksStep DEF ReportAssumption
<1>. QED
  BY <1>1, <1>2, PTL DEF Spec

(* The books hold participants, filed under the names of methods. *)
LEMMA BooksTyped == ReportAssumption /\ Spec => []TypeOK
BY BooksInvariant, PTL DEF BooksInv

(***************************************************************************)
(* The books of CASTValidator::validateProjection account for every        *)
(* participant whose candidates have been tried, and the report for all,   *)
(* for every set of classes, every overload and every verdict.             *)
(***************************************************************************)
THEOREM BooksAreComplete == ReportAssumption /\ Spec => []ReportAccountsForAll
<1>1. BooksInv => ReportAccountsForAll
  BY DEF BooksInv, ReportAccountsForAll, Finished
<1>. QED
  BY <1>1, BooksInvariant, PTL
=============================================================================
