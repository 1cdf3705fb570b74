---------------------------- MODULE AnalyzerProofs ----------------------------
(***************************************************************************)
(* Proofs about the plugin as a whole, for any file, any C++ code and any  *)
(* width of its numbers: the syntax tree has no cycle, the mapping visitor *)
(* maps what it should, and a crash before the validation has its cause in *)
(* the file.                                                               *)
(***************************************************************************)
EXTENDS Analyzer, LeastElement, SequenceTheorems, TLAPS

----------------------------------------------------------------------------
(***************************************************************************)
(* The syntax tree, whatever file is parsed and however long it is: every  *)
(* declaration refers to earlier ones, of the right kind.                  *)
(***************************************************************************)

(***************************************************************************)
(* The strengthening: the keys are names of the table, so that a name new  *)
(* to the table has not been listed yet; and the default index, which the  *)
(* literals stand for, stays an index.                                     *)
(***************************************************************************)
KeysInTable == \A i \in DOMAIN keys : keys[i] \in DOMAIN table

TreeInv ==
  /\ file \in Seq(Choreography!Declaration)
  /\ pos \in Nat \ {0}
  /\ keys \in Seq(Name)
  /\ KeysInTable
  /\ Choreography!resolve(UnaryIndex, "Index")
  /\ Choreography!RefersBackwards

(***************************************************************************)
(* SymbolTable::addDeclaration (lines 45-49) keeps the tree acyclic if the *)
(* node refers to what is in the table.                                    *)
(***************************************************************************)
LEMMA DeclarationKeeps ==
  ASSUME TreeInv, UNCHANGED file, pos' = pos + 1,
         NEW n \in Name, NEW node, Choreography!addDeclaration(n, node),
         \A r \in Choreography!References(node) : Choreography!resolve(r[1], r[2])
  PROVE  TreeInv'
<1> USE DEF TreeInv
<1>1. /\ keys' \in Seq(Name)
      /\ Len(keys') = Len(keys) + 1
      /\ DOMAIN keys = 1 .. Len(keys)
      /\ DOMAIN keys' = 1 .. Len(keys) + 1
      /\ Len(keys) \in Nat
      /\ keys'[Len(keys) + 1] = n
      /\ \A i \in 1 .. Len(keys) : keys'[i] = keys[i]
  BY DEF Choreography!addDeclaration
<1>2. /\ DOMAIN table' = DOMAIN table \cup {n}
      /\ \A m \in DOMAIN table : table'[m] = table[m]
      /\ n \notin DOMAIN table => table'[n] = node
  BY DEF Choreography!addDeclaration, Choreography!Insert
<1>3. \A m, k : k \in Nat /\ k <= Len(keys) /\ Choreography!Listed(m, k) => Choreography!Listed(m, k)'
  BY <1>1 DEF Choreography!Listed
<1>4. \A m, tag : Choreography!resolve(m, tag) => Choreography!resolve(m, tag)' /\ Choreography!Listed(m, Len(keys))
  BY <1>2 DEF Choreography!resolve, Choreography!RefersBackwards
<1>5. KeysInTable'
  BY <1>1, <1>2 DEF KeysInTable
<1>6. ASSUME NEW m \in DOMAIN table'
      PROVE  /\ Choreography!Listed(m, Len(keys))'
             /\ \A r \in Choreography!References(table'[m]) :
                  /\ Choreography!resolve(r[1], r[2])'
                  /\ \A i \in DOMAIN keys' : keys'[i] = m => Choreography!Listed(r[1], i - 1)'
  <2>1. Choreography!Listed(m, Len(keys))'
    <3>1. CASE m \in DOMAIN table
      BY <3>1, <1>1 DEF Choreography!RefersBackwards, Choreography!Listed
    <3>2. CASE m = n
      BY <3>2, <1>1 DEF Choreography!Listed
    <3>3. QED  BY <3>1, <3>2, <1>2
  <2>2. ASSUME NEW r \in Choreography!References(table'[m])
        PROVE  /\ Choreography!resolve(r[1], r[2])'
               /\ \A i \in DOMAIN keys' : keys'[i] = m => Choreography!Listed(r[1], i - 1)'
    <3>1. Choreography!resolve(r[1], r[2])
      BY <2>2, <1>2 DEF Choreography!RefersBackwards
    <3>2. Choreography!resolve(r[1], r[2])' /\ Choreography!Listed(r[1], Len(keys))
      BY <3>1, <1>4
    <3>3. ASSUME NEW i \in DOMAIN keys', keys'[i] = m
          PROVE  Choreography!Listed(r[1], i - 1)'
      <4>1. CASE i = Len(keys) + 1
        <5>1. Choreography!Listed(r[1], i - 1)
          BY <4>1, <3>2, <1>1
        <5>2. QED  BY <5>1, <4>1, <1>1, <1>3
      <4>2. CASE i \in DOMAIN keys
        <5>1. keys[i] = m /\ m \in DOMAIN table
          BY <4>2, <3>3, <1>1 DEF KeysInTable
        <5>2. Choreography!Listed(r[1], i - 1)
          BY <5>1, <4>2, <2>2, <1>2 DEF Choreography!RefersBackwards
        <5>3. QED  BY <5>2, <4>2, <1>1, <1>3
      <4>3. QED  BY <4>1, <4>2, <1>1
    <3>4. QED  BY <3>2, <3>3
  <2>3. QED  BY <2>1, <2>2
<1>7. Choreography!RefersBackwards'
  BY <1>6 DEF Choreography!RefersBackwards
<1>8. Choreography!resolve(UnaryIndex, "Index")'
  BY <1>4
<1>9. QED  BY <1>1, <1>5, <1>7, <1>8

(***************************************************************************)
(* What parseGlobalTypeDecl accepts refers to what is in the table.        *)
(***************************************************************************)
LEMMA BodyResolves ==
  ASSUME NEW body \in Choreography!Body, Choreography!Bad(body) = {}
  PROVE  \A r \in Choreography!References([tag |-> "Global", body |-> Choreography!parseExpressionList(body)]) :
           Choreography!resolve(r[1], r[2])
<1> DEFINE node == [tag |-> "Global", body |-> Choreography!parseExpressionList(body)]
<1>1. /\ node.tag = "Global"
      /\ node.body = Choreography!parseExpressionList(body)
      /\ DOMAIN node.body = DOMAIN body
      /\ \A i \in DOMAIN body : node.body[i] = Choreography!Linked(body[i])
  BY DEF Choreography!parseExpressionList
<1>2. ASSUME NEW i \in DOMAIN body, NEW r \in Choreography!RefersTo(Choreography!Linked(body[i]))
      PROVE  Choreography!resolve(r[1], r[2])
  <2> DEFINE it == body[i]
  <2>1. it \in Choreography!Com \cup Choreography!Open \cup Choreography!Close \cup Choreography!Ref
    BY DEF Choreography!Body
  <2>2. ~Choreography!Refused(it)
    BY DEF Choreography!Bad
  <2>3. CASE it \in Choreography!Com
    <3>1. it.tag = "com"
      BY <2>3 DEF Choreography!Com
    <3>2. Choreography!resolve(it.from.name, "Participant") /\ Choreography!resolve(it.on.name, "Channel")
      BY <2>2, <3>1 DEF Choreography!Refused, Choreography!Sends
    <3>3. Choreography!Linked(it).tag = "com" /\ Choreography!Linked(it).from = it.from /\ Choreography!Linked(it).on = it.on
      BY <2>3, <3>1 DEF Choreography!Linked, Choreography!Com
    <3>4. r = <<it.from.name, "Participant">> \/ r = <<it.on.name, "Channel">>
      BY <3>3, <1>2 DEF Choreography!RefersTo
    <3>5. QED  BY <3>2, <3>4
  <2>4. CASE it \in Choreography!Open
    <3>1. it.tag = "open" /\ Choreography!Linked(it) = it
      BY <2>4 DEF Choreography!Open, Choreography!Linked
    <3>2. Choreography!resolve(it.over, "Index")
      BY <2>2, <3>1 DEF Choreography!Refused
    <3>3. r = <<it.over, "Index">>
      BY <3>1, <1>2 DEF Choreography!RefersTo
    <3>4. QED  BY <3>2, <3>3
  <2>5. CASE it \in Choreography!Close
    <3>1. it.tag = "close" /\ Choreography!Linked(it) = it
      BY <2>5 DEF Choreography!Close, Choreography!Linked
    <3>2. QED  BY <3>1, <1>2 DEF Choreography!RefersTo
  <2>6. CASE it \in Choreography!Ref
    <3>1. it.tag = "ref" /\ Choreography!Linked(it) = it
      BY <2>6 DEF Choreography!Ref, Choreography!Linked
    <3>2. Choreography!resolve(it.name, "Global")
      BY <2>2, <3>1 DEF Choreography!Refused
    <3>3. r = <<it.name, "Global">>
      BY <3>1, <1>2 DEF Choreography!RefersTo
    <3>4. QED  BY <3>2, <3>3
  <2>7. QED  BY <2>1, <2>3, <2>4, <2>5, <2>6
<1>3. Choreography!References(node) = UNION {Choreography!RefersTo(node.body[i]) : i \in DOMAIN node.body}
  BY <1>1 DEF Choreography!References
<1> HIDE DEF node
<1>4. ASSUME NEW r \in Choreography!References(node)
      PROVE  Choreography!resolve(r[1], r[2])
  <2>1. PICK i \in DOMAIN body : r \in Choreography!RefersTo(Choreography!Linked(body[i]))
    BY <1>1, <1>3
  <2>2. QED  BY <2>1, <1>2
<1>5. QED  BY <1>4 DEF node

(***************************************************************************)
(* So does every step that leaves the tree and the file alone.             *)
(***************************************************************************)
LEMMA UnchangedKeeps ==
  ASSUME TreeInv, UNCHANGED <<file, pos, keys, table>>
  PROVE  TreeInv'
<1>1. file' = file /\ pos' = pos /\ keys' = keys /\ table' = table
  OBVIOUS
<1>2. Choreography!RefersBackwards'
  BY <1>1 DEF TreeInv, Choreography!RefersBackwards, Choreography!Listed, Choreography!resolve
<1>3. QED  BY <1>1, <1>2 DEF TreeInv, KeysInTable, Choreography!resolve

(***************************************************************************)
(* A declaration that is read, or refused, keeps the tree acyclic.         *)
(***************************************************************************)
LEMMA ParseKeeps ==
  ASSUME TreeInv, Choreography!Next
  PROVE  TreeInv'
<1>1. ASSUME NEW tag, Choreography!At(tag)
      PROVE  Choreography!Here \in Choreography!Declaration /\ Choreography!Here.tag = tag
  <2>1. pos \in DOMAIN file
    BY <1>1 DEF Choreography!At, Choreography!AtEnd, TreeInv
  <2>2. QED  BY <1>1, <2>1 DEF Choreography!At, TreeInv, Choreography!Here
<1>2. CASE Choreography!parseIndexDecl
  <2>1. Choreography!Here.name \in Name
    BY <1>1, <1>2 DEF Choreography!parseIndexDecl, Choreography!Declaration
  <2>2. Choreography!References([tag |-> "Index"]) = {}
    BY DEF Choreography!References
  <2>3. QED  BY <1>2, <2>1, <2>2, DeclarationKeeps DEF Choreography!parseIndexDecl
<1>3. ASSUME NEW tag \in {"Participant", "Channel"}, Choreography!parseIndexed(tag)
      PROVE  TreeInv'
  <2>1. /\ Choreography!Here.name \in Name
        /\ Choreography!Here.index \in Choreography!IndexArg
    BY <1>1, <1>3 DEF Choreography!parseIndexed, Choreography!Declaration
  <2> DEFINE node == [tag |-> tag, index |-> Choreography!IndexOf(Choreography!Here.index)]
  <2>2. Choreography!References(node) = {<<Choreography!IndexOf(Choreography!Here.index), "Index">>}
    BY DEF Choreography!References
  <2>3. Choreography!resolve(Choreography!IndexOf(Choreography!Here.index), "Index")
    BY <1>3, <2>1 DEF Choreography!parseIndexed, Choreography!IndexGiven, Choreography!IndexOf, Choreography!IndexArg, TreeInv
  <2>4. \A r \in Choreography!References(node) : Choreography!resolve(r[1], r[2])
    BY <2>2, <2>3
  <2>5. QED  BY <1>3, <2>1, <2>4, DeclarationKeeps DEF Choreography!parseIndexed
<1>4. CASE Choreography!parseGlobalTypeDecl
  <2>1. Choreography!Here.name \in Name /\ Choreography!Here.body \in Choreography!Body
    BY <1>1, <1>4 DEF Choreography!parseGlobalTypeDecl, Choreography!Declaration
  <2>2. QED  BY <1>4, <2>1, BodyResolves, DeclarationKeeps DEF Choreography!parseGlobalTypeDecl
<1>5. ASSUME NEW how, Choreography!Stop(how)
      PROVE  TreeInv'
  BY <1>5, UnchangedKeeps DEF Choreography!Stop
<1>6. QED
  BY <1>2, <1>3, <1>4, <1>5
  DEF Choreography!Next, Choreography!parseParticipantDecl, Choreography!parseChannelDecl,
      Choreography!CutShort, Choreography!ThrowDeclaration, Choreography!ThrowBody,
      Choreography!DereferenceNull, Choreography!Finish

(***************************************************************************)
(* No file makes the parser build a cyclic tree (PchorParser.cpp, 79-119), *)
(* and nothing that runs after it touches the tree.                        *)
(***************************************************************************)
LEMMA TreeInvariant == Spec => []TreeInv
<1>1. Init => TreeInv
  <2> SUFFICES ASSUME Init PROVE TreeInv
    OBVIOUS
  <2> USE AnalyzerAssumption DEF Init, Choreography!Init, Choreography!ParserAssumption
  <2>1. file \in Seq(Choreography!Declaration) /\ pos \in Nat \ {0}
    OBVIOUS
  <2>2. /\ keys = <<UnaryIndex>> /\ keys \in Seq(Name)
        /\ DOMAIN keys = {1} /\ keys[1] = UnaryIndex /\ Len(keys) = 1
    OBVIOUS
  <2>3. DOMAIN table = {UnaryIndex} /\ table[UnaryIndex].tag = "Index"
    OBVIOUS
  <2>4. KeysInTable
    BY <2>2, <2>3 DEF KeysInTable
  <2>5. \A n \in DOMAIN table :
          Choreography!Listed(n, Len(keys)) /\ Choreography!References(table[n]) = {}
    BY <2>2, <2>3 DEF Choreography!Listed, Choreography!References
  <2>6. Choreography!RefersBackwards
    BY <2>5 DEF Choreography!RefersBackwards
  <2>7. QED
    BY <2>1, <2>2, <2>3, <2>4, <2>6 DEF TreeInv, Choreography!resolve
<1>2. TreeInv /\ [Next \/ Done]_vars => TreeInv'
  <2> SUFFICES ASSUME TreeInv, [Next \/ Done]_vars PROVE TreeInv'
    OBVIOUS
  <2>1. CASE Parse
    BY <2>1, ParseKeeps DEF Parse
  <2>2. CASE Map
    <3>1. UNCHANGED <<keys, table>>
      BY <2>2
      DEF Map, Mapping!Next, Mapping!VisitParticipant, Mapping!NoClass, Mapping!VisitNothing,
          Mapping!VisitGlobalType, Mapping!VisitCom, Mapping!NoDeclaration,
          Mapping!DereferenceNull, Mapping!VisitRef, Mapping!VisitForEach,
          Mapping!LeaveList, Mapping!Finish, Mapping!Stop
    <3>2. QED  BY <2>2, <3>1, UnchangedKeeps DEF Map
  <2>3. CASE ParseArgs \/ HandleTranslationUnit \/ AfterMapping \/ Project \/ Validate
    BY <2>3, UnchangedKeeps
    DEF ParseArgs, HandleTranslationUnit, AfterMapping, Project, Validate, parserVars
  <2>4. CASE Done \/ UNCHANGED vars
    BY <2>4, UnchangedKeeps DEF Done, vars
  <2>5. QED  BY <2>1, <2>2, <2>3, <2>4 DEF Next
<1>3. QED  BY <1>1, <1>2, PTL DEF Spec

(***************************************************************************)
(* A node refers only to nodes of the right kind listed before it.         *)
(***************************************************************************)
THEOREM TreeIsAcyclic == Spec => []RefersBackwards
<1>1. TreeInv => RefersBackwards
  BY DEF TreeInv, RefersBackwards
<1>2. QED  BY <1>1, TreeInvariant, PTL

----------------------------------------------------------------------------
(***************************************************************************)
(* The mapping visitor, on whatever tree the parser builds and for         *)
(* whatever classes: what it leaves is complete, and its channels are the  *)
(* right fields.                                                           *)
(***************************************************************************)

(***************************************************************************)
(* What the visitor relies on besides the tree having no cycle: bodies     *)
(* hold items, and a receiver is a participant or a null pointer.          *)
(***************************************************************************)
Receiver(u) == u.name = NoName \/ Choreography!resolve(u.name, "Participant")

BodyFits(body) ==
  /\ body \in Choreography!Body
  /\ \A i \in DOMAIN body : body[i].tag = "com" => Receiver(body[i].to)

BodiesFit == \A n \in DOMAIN table : table[n].tag = "Global" => BodyFits(table[n].body)

(* A name that stands for something goes on to stand for it. *)
LEMMA AddKeepsBodies ==
  ASSUME BodiesFit, NEW n, NEW node, Choreography!addDeclaration(n, node),
         node.tag = "Global" => BodyFits(node.body)
  PROVE  BodiesFit'
<1>1. /\ DOMAIN table' = DOMAIN table \cup {n}
      /\ \A m \in DOMAIN table : table'[m] = table[m]
      /\ n \notin DOMAIN table => table'[n] = node
  BY DEF Choreography!addDeclaration, Choreography!Insert
<1>2. \A m, tag : Choreography!resolve(m, tag) => Choreography!resolve(m, tag)'
  BY <1>1 DEF Choreography!resolve
<1>3. ASSUME NEW m \in DOMAIN table', (table[m].tag = "Global")'
      PROVE  BodyFits(table[m].body)'
  <2>1. BodyFits(table'[m].body)
    BY <1>1, <1>3 DEF BodiesFit
  <2>. QED
    BY <1>2, <2>1 DEF BodyFits, Receiver
<1>. QED
  BY <1>3 DEF BodiesFit

(* The pointers that parseExpressionList puts into a body. *)
LEMMA LinkedFits ==
  ASSUME NEW body \in Choreography!Body
  PROVE  BodyFits(Choreography!parseExpressionList(body))
<1>. DEFINE Item == Choreography!Com \cup Choreography!Open \cup Choreography!Close
                      \cup Choreography!Ref
            linked == Choreography!parseExpressionList(body)
<1>1. DOMAIN body = 1 .. Len(body) /\ Len(body) \in Nat /\ \A i \in DOMAIN body : body[i] \in Item
  BY DEF Choreography!Body
<1>2. ASSUME NEW it \in Item
      PROVE  /\ Choreography!Linked(it) \in Item
             /\ Choreography!Linked(it).tag = "com" => Receiver(Choreography!Linked(it).to)
  <2>1. CASE it \in Choreography!Com
    <3>1. it.to \in Choreography!Use /\ it.tag = "com"
      BY <2>1 DEF Choreography!Com
    <3>2. CASE Choreography!resolve(it.to.name, "Participant")
      BY <2>1, <3>2 DEF Choreography!Linked, Receiver
    <3>3. CASE ~Choreography!resolve(it.to.name, "Participant")
      <4>1. Choreography!Linked(it) = [it EXCEPT !.to.name = NoName]
        BY <3>1, <3>3 DEF Choreography!Linked
      <4>2. Choreography!Linked(it) \in Choreography!Com
        BY <2>1, <4>1 DEF Choreography!Com, Choreography!Use
      <4>3. Choreography!Linked(it).to.name = NoName
        BY <2>1, <4>1 DEF Choreography!Com, Choreography!Use
      <4>. QED
        BY <4>2, <4>3 DEF Receiver
    <3>. QED
      BY <3>2, <3>3
  <2>2. CASE it.tag # "com"
    BY <2>2 DEF Choreography!Linked
  <2>. QED
    BY <2>1, <2>2 DEF Choreography!Open, Choreography!Close, Choreography!Ref
<1>3. linked = [i \in 1 .. Len(body) |-> Choreography!Linked(body[i])]
  BY <1>1 DEF Choreography!parseExpressionList
<1>. HIDE DEF Item, linked
<1>4. linked \in Seq(Item) /\ DOMAIN linked = 1 .. Len(body)
  BY <1>1, <1>2, <1>3
<1>5. \A i \in DOMAIN linked : linked[i].tag = "com" => Receiver(linked[i].to)
  BY <1>1, <1>2, <1>3
<1>. QED
  BY <1>4, <1>5 DEF BodyFits, Choreography!Body, Item, linked

LEMMA ParseKeepsBodies ==
  ASSUME TreeInv, BodiesFit, Choreography!Next
  PROVE  BodiesFit'
<1>1. CASE Choreography!parseIndexDecl
  BY <1>1, AddKeepsBodies, "Index" # "Global" DEF Choreography!parseIndexDecl
<1>2. ASSUME NEW tag \in {"Participant", "Channel"}, Choreography!parseIndexed(tag)
      PROVE  BodiesFit'
  <2>. DEFINE node == [tag |-> tag, index |-> Choreography!IndexOf(Choreography!Here.index)]
  <2>1. node.tag # "Global"
    OBVIOUS
  <2>2. Choreography!addDeclaration(Choreography!Here.name, node)
    BY <1>2 DEF Choreography!parseIndexed
  <2>. HIDE DEF node
  <2>. QED
    BY <2>1, <2>2, AddKeepsBodies
<1>3. CASE Choreography!parseGlobalTypeDecl
  <2>1. pos \in DOMAIN file /\ Choreography!Here.tag = "Global"
    BY <1>3 DEF Choreography!parseGlobalTypeDecl, Choreography!At, Choreography!AtEnd, TreeInv
  <2>2. Choreography!Here \in Choreography!Declaration
    BY <2>1 DEF Choreography!Here, TreeInv
  <2>3. Choreography!Here.body \in Choreography!Body
    BY <2>1, <2>2 DEF Choreography!Declaration
  <2>. QED
    BY <1>3, <2>3, LinkedFits, AddKeepsBodies DEF Choreography!parseGlobalTypeDecl
<1>4. ASSUME NEW how, Choreography!Stop(how)
      PROVE  BodiesFit'
  BY <1>4 DEF Choreography!Stop, BodiesFit, BodyFits, Receiver, Choreography!resolve
<1>. QED
  BY <1>1, <1>2, <1>3, <1>4
  DEF Choreography!Next, Choreography!parseParticipantDecl, Choreography!parseChannelDecl,
      Choreography!CutShort, Choreography!ThrowDeclaration, Choreography!ThrowBody,
      Choreography!DereferenceNull, Choreography!Finish

(***************************************************************************)
(* The inductive invariant.  Through says which global types the visit is  *)
(* through with: there is a set of them, closed under the types they name, *)
(* whose communications are all mapped; and of the types under visit, what *)
(* comes before the item the visit stands at is mapped, or names a type of *)
(* that set, or the type visited now.                                      *)
(***************************************************************************)
Maps(c) ==
  /\ {c.from.name, c.to.name, c.on.name, c.type} \subseteq DOMAIN map
  /\ map[c.from.name].kind = "record"
  /\ map[c.to.name].kind = "record"

Covered(fin) ==
  /\ fin \subseteq Mapping!Globals
  /\ \A g \in fin : Mapping!Refs(g) \subseteq fin /\ \A c \in Mapping!Coms(g) : Maps(c)

Passed(it, j, fin) ==
  /\ it.tag = "com" => Maps(it)
  /\ it.tag = "ref" => it.name \in fin \/ (j < Len(walk) /\ it.name = walk[j + 1][1])

Through(fin) ==
  /\ Covered(fin)
  /\ \A j \in DOMAIN walk : \A k \in DOMAIN table[walk[j][1]].body :
       k < walk[j][2] => Passed(table[walk[j][1]].body[k], j, fin)
  /\ walk = << >> /\ itr > Len(keys) => Last(keys) \in fin

WalkInv ==
  /\ itr \in Nat \ {0}
  /\ walk \in Seq(Mapping!Globals \X (Nat \ {0}))
  /\ walk # << >> => itr > Len(keys) /\ walk[1][1] = Last(keys)
  /\ mapped = "done" => walk = << >> /\ itr > Len(keys)
  /\ \E fin : Through(fin)

(* A name is mapped to the class of that name, or it is a channel's. *)
NamesInv ==
  /\ fields \in Code
  /\ DOMAIN map \subseteq Name
  /\ \A n \in DOMAIN map :
       /\ map[n] # Mapping!Record(n) => map[n].kind = "field" /\ Choreography!resolve(n, "Channel")
       /\ map[n] = Mapping!Record(n) => n \in DOMAIN fields
       /\ map[n].kind = "field" => map[n].name \in DOMAIN fields
  /\ ChannelFitsCom

Untouched == itr = 1 /\ walk = << >> /\ DOMAIN map = {} /\ mapped = "running" /\ fields \in Code

PhaseInv ==
  /\ phase \in {"parse", "handle"} => Untouched
  /\ phase = "map" => table[Last(keys)].tag = "Global"
  /\ phase = "project" => onlyproj \/ mapped = "done"
  /\ phase = "validate" => mapped = "done"

MapInv == BodiesFit /\ PhaseInv /\ WalkInv /\ NamesInv

LEMMA KeysFacts ==
  ASSUME TreeInv
  PROVE  /\ Len(keys) \in Nat \ {0}
         /\ DOMAIN keys = 1 .. Len(keys)
         /\ DOMAIN table \subseteq Name
         /\ Last(keys) = keys[Len(keys)]
         /\ Last(keys) \in DOMAIN table
<1>1. keys \in Seq(Name) /\ Len(keys) \in Nat /\ DOMAIN keys = 1 .. Len(keys)
  BY DEF TreeInv
<1>2. \A n \in DOMAIN table : \E i \in 1 .. Len(keys) : keys[i] = n
  BY DEF TreeInv, Choreography!RefersBackwards, Choreography!Listed
<1>3. UnaryIndex \in DOMAIN table
  BY DEF TreeInv, Choreography!resolve
<1>4. Len(keys) # 0
  BY <1>1, <1>2, <1>3
<1>5. \A n \in DOMAIN table : n \in Name
  BY <1>1, <1>2
<1>6. keys[Len(keys)] \in DOMAIN table
  BY <1>1, <1>4 DEF TreeInv, KeysInTable
<1>. QED
  BY <1>1, <1>4, <1>5, <1>6 DEF Last

(* The type visited, and the item the visit stands at. *)
LEMMA Standing ==
  ASSUME BodiesFit, WalkInv, Mapping!Walking
  PROVE  LET g == walk[Len(walk)][1]
             k == walk[Len(walk)][2]
         IN  /\ Len(walk) \in Nat \ {0}
             /\ DOMAIN walk = 1 .. Len(walk)
             /\ g \in Mapping!Globals /\ k \in Nat \ {0}
             /\ walk[Len(walk)] = <<g, k>>
             /\ Mapping!Body = table[g].body /\ BodyFits(table[g].body)
             /\ DOMAIN table[g].body = 1 .. Len(table[g].body)
             /\ Len(table[g].body) \in Nat
             /\ Mapping!AtEnd <=> k > Len(table[g].body)
             /\ Mapping!Here = table[g].body[k]
<1>. DEFINE l == walk[Len(walk)]
<1>1. /\ walk \in Seq(Mapping!Globals \X (Nat \ {0})) /\ walk # << >>
      /\ Len(walk) \in Nat \ {0} /\ DOMAIN walk = 1 .. Len(walk)
  BY DEF WalkInv, Mapping!Walking
<1>2. l \in Mapping!Globals \X (Nat \ {0})
  BY <1>1
<1>3. l[1] \in Mapping!Globals /\ l[2] \in Nat \ {0} /\ l = <<l[1], l[2]>>
  BY <1>2
<1>4. Mapping!Last(walk) = l
  BY DEF Mapping!Last
<1>5. BodyFits(table[l[1]].body)
  BY <1>3 DEF BodiesFit, Mapping!Globals
<1>6. DOMAIN table[l[1]].body = 1 .. Len(table[l[1]].body) /\ Len(table[l[1]].body) \in Nat
  BY <1>5 DEF BodyFits, Choreography!Body
<1>. QED
  BY <1>1, <1>3, <1>4, <1>5, <1>6 DEF Mapping!Body, Mapping!AtEnd, Mapping!Here

(* More names mapped: what was mapped is. *)
LEMMA MapsGrow ==
  ASSUME DOMAIN map \subseteq DOMAIN map', \A n \in DOMAIN map : map'[n] = map[n],
         table' = table
  PROVE  /\ \A c : Maps(c) => Maps(c)'
         /\ \A fin : Covered(fin) => Covered(fin)'
<1>1. \A c : Maps(c) => Maps(c)'
  BY DEF Maps
<1>2. \A g : Mapping!Coms(g)' = Mapping!Coms(g) /\ Mapping!Refs(g)' = Mapping!Refs(g)
  BY DEF Mapping!Coms, Mapping!Refs
<1>. QED
  BY <1>1, <1>2 DEF Covered, Mapping!Globals

(* The visit goes on to the next item. *)
LEMMA AdvancedIs ==
  ASSUME BodiesFit, WalkInv, Mapping!Walking
  PROVE  /\ Mapping!Advanced \in Seq(Mapping!Globals \X (Nat \ {0}))
         /\ Len(Mapping!Advanced) = Len(walk)
         /\ Mapping!Advanced[Len(walk)] = <<walk[Len(walk)][1], walk[Len(walk)][2] + 1>>
         /\ \A j \in 1 .. Len(walk) - 1 : Mapping!Advanced[j] = walk[j]
         /\ \A j \in 1 .. Len(walk) : Mapping!Advanced[j][1] = walk[j][1]
<1>. DEFINE L == Len(walk)
            g == walk[L][1]
            k == walk[L][2]
            S == Mapping!Globals \X (Nat \ {0})
<1>1. L \in Nat \ {0} /\ g \in Mapping!Globals /\ k \in Nat \ {0} /\ walk[L] = <<g, k>>
  BY Standing
<1>2. walk \in Seq(S)
  BY DEF WalkInv
<1>3. [walk[L] EXCEPT ![2] = walk[L][2] + 1] = <<g, k + 1>>
  BY <1>1
<1>4. Mapping!Advanced = [walk EXCEPT ![L] = <<g, k + 1>>]
  BY <1>3 DEF Mapping!Advanced
<1>5. <<g, k + 1>> \in S
  BY <1>1
<1>. HIDE DEF S, g, k
<1>6. Mapping!Advanced \in Seq(S) /\ Len(Mapping!Advanced) = L
  <2>1. L \in 1 .. Len(walk)
    BY <1>1
  <2>. QED
    BY <1>2, <1>4, <1>5, <2>1, ExceptSeq
<1>7. Mapping!Advanced[L] = <<g, k + 1>> /\ \A j \in 1 .. L - 1 : Mapping!Advanced[j] = walk[j]
  BY <1>1, <1>2, <1>4
<1>8. \A j \in 1 .. L : Mapping!Advanced[j][1] = walk[j][1]
  <2>1. TAKE j \in 1 .. L
  <2>2. CASE j = L
    BY <1>1, <1>7, <2>2
  <2>3. CASE j # L
    BY <1>7, <2>3, <1>1
  <2>. QED
    BY <2>2, <2>3
<1>. QED
  BY <1>6, <1>7, <1>8 DEF S, g, k

(* The names in an item stand for what they are used for. *)
LEMMA ItemRefers ==
  ASSUME TreeInv, NEW g \in Mapping!Globals, NEW k \in DOMAIN table[g].body
  PROVE  LET it == table[g].body[k]
         IN  /\ it.tag = "com" => /\ Choreography!resolve(it.from.name, "Participant")
                                  /\ Choreography!resolve(it.on.name, "Channel")
             /\ it.tag = "ref" => it.name \in Mapping!Globals
<1>. DEFINE it == table[g].body[k]
<1>1. g \in DOMAIN table /\ table[g].tag = "Global"
  BY DEF Mapping!Globals
<1>2. \A r \in Choreography!RefersTo(it) : Choreography!resolve(r[1], r[2])
  BY <1>1 DEF TreeInv, Choreography!RefersBackwards, Choreography!References
<1>3. CASE it.tag = "com"
  <2>1. /\ <<it.from.name, "Participant">> \in Choreography!RefersTo(it)
        /\ <<it.on.name, "Channel">> \in Choreography!RefersTo(it)
    BY <1>3 DEF Choreography!RefersTo
  <2>. QED
    BY <1>2, <1>3, <2>1
<1>4. CASE it.tag = "ref"
  <2>1. <<it.name, "Global">> \in Choreography!RefersTo(it)
    BY <1>4 DEF Choreography!RefersTo
  <2>2. Choreography!resolve(it.name, "Global")
    BY <1>2, <2>1
  <2>. QED
    BY <1>4, <2>2 DEF Choreography!resolve, Mapping!Globals
<1>. QED
  BY <1>3, <1>4

(* What a step must show of the types under visit. *)
LEMMA ThroughNext ==
  ASSUME NEW fin, UNCHANGED <<keys, table>>, Covered(fin)',
         \A j \in DOMAIN walk' : \A k \in DOMAIN table[walk'[j][1]].body :
           k < walk'[j][2] =>
             \A it : it = table[walk'[j][1]].body[k] => Passed(it, j, fin)',
         walk' = << >> /\ itr' > Len(keys) => Last(keys) \in fin
  PROVE  Through(fin)'
<1>1. ASSUME NEW j \in DOMAIN walk', NEW k \in DOMAIN table'[walk'[j][1]].body, k < walk'[j][2]
      PROVE  Passed(table[walk[j][1]].body[k], j, fin)'
  <2>. DEFINE item == table[walk[j][1]].body[k]
  <2>1. \A it : it = item' => Passed(it, j, fin)'
    BY <1>1
  <2>. QED
    BY <2>1 DEF Passed, Maps
<1>. QED
  BY <1>1 DEF Through, Last

(* Past a communication whose names are mapped, or a brace. *)
LEMMA StepPast ==
  ASSUME BodiesFit, WalkInv, Mapping!Walking, ~Mapping!AtEnd,
         UNCHANGED <<keys, table, itr, mapped>>,
         DOMAIN map \subseteq DOMAIN map', \A n \in DOMAIN map : map'[n] = map[n],
         Mapping!Here.tag # "ref",
         \A c : c = Mapping!Here /\ c.tag = "com" => Maps(c)',
         walk' = Mapping!Advanced
  PROVE  WalkInv'
<1>. DEFINE L == Len(walk)
            g == walk[L][1]
            k == walk[L][2]
<1>1. /\ L \in Nat \ {0} /\ g \in Mapping!Globals /\ k \in Nat \ {0} /\ DOMAIN walk = 1 .. L
      /\ walk[L] = <<g, k>>
      /\ DOMAIN table[g].body = 1 .. Len(table[g].body) /\ Len(table[g].body) \in Nat
      /\ k \in DOMAIN table[g].body /\ Mapping!Here = table[g].body[k]
  BY Standing
<1>2. /\ walk' \in Seq(Mapping!Globals \X (Nat \ {0})) /\ Len(walk') = L
      /\ walk'[L] = <<g, k + 1>>
      /\ \A j \in 1 .. L - 1 : walk'[j] = walk[j]
      /\ \A j \in 1 .. L : walk'[j][1] = walk[j][1]
  BY AdvancedIs
<1>3. DOMAIN walk' = 1 .. L /\ walk' # << >>
  BY <1>1, <1>2
<1>4. PICK fin : Through(fin)
  BY DEF WalkInv
<1>5. Covered(fin)' /\ \A c : Maps(c) => Maps(c)'
  BY <1>4, MapsGrow DEF Through
<1>6. \A it, j : j \in 1 .. L /\ Passed(it, j, fin) => Passed(it, j, fin)'
  <2>. SUFFICES ASSUME NEW it, NEW j \in 1 .. L, Passed(it, j, fin)
                PROVE  Passed(it, j, fin)'
    OBVIOUS
  <2>1. j < L => j + 1 \in 1 .. L
    BY <1>1
  <2>. HIDE DEF L
  <2>. QED
    BY <1>2, <1>5, <2>1 DEF Passed, L
<1>7. ASSUME NEW j \in 1 .. L, NEW i \in DOMAIN table[walk[j][1]].body, i < walk'[j][2],
             NEW it, it = table[walk[j][1]].body[i]
      PROVE  Passed(it, j, fin)'
  <2>1. CASE i < walk[j][2]
    <3>1. Passed(it, j, fin)
      BY <1>1, <1>4, <1>7, <2>1 DEF Through
    <3>. QED
      BY <1>6, <3>1
  <2>2. CASE ~(i < walk[j][2])
    <3>1. j = L
      <4>1. SUFFICES ASSUME j # L PROVE FALSE
        OBVIOUS
      <4>. HIDE DEF L
      <4>2. j \in 1 .. L - 1
        BY <1>1, <4>1
      <4>. QED
        BY <1>2, <1>7, <2>2, <4>2
    <3>2. walk'[j][2] = k + 1 /\ walk[j][2] = k /\ walk[j][1] = g
      BY <1>1, <1>2, <3>1
    <3>3. i = k
      BY <1>1, <1>7, <2>2, <3>2
    <3>4. it = Mapping!Here
      BY <1>1, <1>7, <3>2, <3>3
    <3>. QED
      BY <3>4 DEF Passed
  <2>. QED
    BY <2>1, <2>2
<1>8. Through(fin)'
  <2>1. ASSUME NEW j \in DOMAIN walk', NEW i \in DOMAIN table[walk'[j][1]].body,
               i < walk'[j][2], NEW it, it = table[walk'[j][1]].body[i]
        PROVE  Passed(it, j, fin)'
    <3>1. j \in 1 .. L /\ walk'[j][1] = walk[j][1]
      BY <1>2, <1>3
    <3>. QED
      BY <1>7, <2>1, <3>1
  <2>. QED
    BY <1>3, <1>5, <2>1, ThroughNext
<1>9. /\ Mapping!Globals' = Mapping!Globals
      /\ walk'[1][1] = walk[1][1]
      /\ walk # << >> /\ Last(keys)' = Last(keys)
      /\ mapped = "running"
  BY <1>1, <1>2 DEF Mapping!Globals, Mapping!Walking, Last
<1>. QED
  BY <1>2, <1>3, <1>8, <1>9 DEF WalkInv

(* Into a type named in the list. *)
LEMMA StepInto ==
  ASSUME TreeInv, BodiesFit, WalkInv, Mapping!VisitRef
  PROVE  WalkInv'
<1>. DEFINE L == Len(walk)
            g == walk[L][1]
            k == walk[L][2]
            it0 == Mapping!Here
<1>0. /\ Mapping!Walking /\ ~Mapping!AtEnd /\ it0.tag = "ref"
      /\ walk' = Append(Mapping!Advanced, <<it0.name, 1>>)
      /\ UNCHANGED <<keys, table, itr, map, mapped>>
  BY DEF Mapping!VisitRef, Mapping!At
<1>1. /\ L \in Nat \ {0} /\ g \in Mapping!Globals /\ k \in Nat \ {0} /\ DOMAIN walk = 1 .. L
      /\ walk[L] = <<g, k>>
      /\ k \in DOMAIN table[g].body /\ it0 = table[g].body[k]
  BY <1>0, Standing
<1>2. it0.name \in Mapping!Globals
  BY <1>0, <1>1, ItemRefers
<1>. HIDE DEF it0
<1>3. /\ Mapping!Advanced \in Seq(Mapping!Globals \X (Nat \ {0}))
      /\ Len(Mapping!Advanced) = L
      /\ Mapping!Advanced[L] = <<g, k + 1>>
      /\ \A j \in 1 .. L - 1 : Mapping!Advanced[j] = walk[j]
      /\ \A j \in 1 .. L : Mapping!Advanced[j][1] = walk[j][1]
  BY <1>0, AdvancedIs
<1>4. /\ walk' \in Seq(Mapping!Globals \X (Nat \ {0})) /\ Len(walk') = L + 1
      /\ \A j \in 1 .. L : walk'[j] = Mapping!Advanced[j]
      /\ walk'[L + 1] = <<it0.name, 1>>
  <2>1. <<it0.name, 1>> \in Mapping!Globals \X (Nat \ {0})
    BY <1>2
  <2>. QED
    BY <1>0, <1>3, <2>1, AppendProperties
<1>. HIDE DEF L
<1>5. DOMAIN walk' = 1 .. L + 1 /\ walk' # << >>
  BY <1>1, <1>4 DEF L
<1>6. PICK fin : Through(fin)
  BY DEF WalkInv
<1>7. Covered(fin)' /\ \A c : Maps(c) => Maps(c)'
  BY <1>0, <1>6, MapsGrow DEF Through
<1>8. ASSUME NEW j \in 1 .. L, NEW i \in DOMAIN table[walk[j][1]].body,
             NEW it, it = table[walk[j][1]].body[i], i < walk'[j][2]
      PROVE  Passed(it, j, fin)'
  <2>1. CASE i < walk[j][2]
    <3>1. Passed(it, j, fin)
      BY <1>1, <1>6, <1>8, <2>1 DEF Through
    <3>2. j < L => j + 1 \in 1 .. L
      BY <1>1
    <3>3. j < L => walk'[j + 1][1] = walk[j + 1][1]
      BY <1>3, <1>4, <3>2
    <3>4. j < Len(walk) => j < Len(walk')
      BY <1>1, <1>4 DEF L
    <3>. QED
      BY <1>7, <3>1, <3>3, <3>4 DEF Passed, L
  <2>2. CASE ~(i < walk[j][2])
    <3>1. j = L
      <4>1. SUFFICES ASSUME j # L PROVE FALSE
        OBVIOUS
      <4>2. j \in 1 .. L - 1
        BY <1>1, <4>1
      <4>. QED
        BY <1>3, <1>4, <1>8, <2>2, <4>2
    <3>2. walk'[j][2] = k + 1 /\ walk[j][2] = k /\ walk[j][1] = g
      BY <1>1, <1>3, <1>4, <3>1
    <3>3. DOMAIN table[g].body = 1 .. Len(table[g].body) /\ Len(table[g].body) \in Nat
      BY <1>0, Standing DEF L
    <3>4. i = k
      BY <1>1, <1>8, <2>2, <3>2, <3>3
    <3>5. it = it0
      BY <1>1, <1>8, <3>2, <3>4
    <3>6. j < Len(walk') /\ it.name = walk'[j + 1][1]
      BY <1>1, <1>4, <3>1, <3>5
    <3>. QED
      BY <1>0, <3>5, <3>6 DEF Passed
  <2>. QED
    BY <2>1, <2>2
<1>9. ASSUME NEW i \in DOMAIN table[it0.name].body PROVE ~(i < 1)
  <2>1. BodyFits(table[it0.name].body)
    BY <1>2 DEF BodiesFit, Mapping!Globals
  <2>2. DOMAIN table[it0.name].body = 1 .. Len(table[it0.name].body)
    BY <2>1 DEF BodyFits, Choreography!Body
  <2>. QED
    BY <2>2
<1>10. Through(fin)'
  <2>1. ASSUME NEW j \in DOMAIN walk', NEW i \in DOMAIN table[walk'[j][1]].body,
               i < walk'[j][2], NEW it, it = table[walk'[j][1]].body[i]
        PROVE  Passed(it, j, fin)'
    <3>1. CASE j \in 1 .. L
      BY <1>3, <1>4, <1>8, <2>1, <3>1
    <3>2. CASE j = L + 1
      BY <1>4, <1>9, <2>1, <3>2
    <3>. QED
      BY <1>1, <1>5, <3>1, <3>2
  <2>. QED
    BY <1>0, <1>5, <1>7, <2>1, ThroughNext
<1>11. /\ Mapping!Globals' = Mapping!Globals
       /\ walk'[1][1] = walk[1][1]
       /\ walk # << >> /\ Last(keys)' = Last(keys)
       /\ mapped = "running"
  <2>1. 1 \in 1 .. L
    BY <1>1
  <2>2. walk'[1][1] = walk[1][1]
    BY <1>3, <1>4, <2>1
  <2>. QED
    BY <1>0, <2>2 DEF Mapping!Globals, Mapping!Walking, Last
<1>. QED
  BY <1>0, <1>4, <1>5, <1>10, <1>11 DEF WalkInv

(* A type the visit is through with joins the set. *)
LEMMA StepOut ==
  ASSUME TreeInv, BodiesFit, WalkInv, Mapping!LeaveList
  PROVE  WalkInv'
<1>. DEFINE L == Len(walk)
            g == walk[L][1]
            k == walk[L][2]
<1>0. /\ Mapping!Walking /\ Mapping!AtEnd
      /\ walk' = SubSeq(walk, 1, L - 1)
      /\ UNCHANGED <<keys, table, itr, map, mapped>>
  BY DEF Mapping!LeaveList, Mapping!Front
<1>1. /\ L \in Nat \ {0} /\ g \in Mapping!Globals /\ k \in Nat \ {0} /\ DOMAIN walk = 1 .. L
      /\ DOMAIN table[g].body = 1 .. Len(table[g].body) /\ Len(table[g].body) \in Nat
      /\ k > Len(table[g].body)
  BY <1>0, Standing
<1>2. /\ walk' \in Seq(Mapping!Globals \X (Nat \ {0})) /\ Len(walk') = L - 1
      /\ DOMAIN walk' = 1 .. L - 1
      /\ \A j \in 1 .. L - 1 : walk'[j] = walk[j]
  <2>1. walk \in Seq(Mapping!Globals \X (Nat \ {0}))
    BY DEF WalkInv
  <2>2. L \in Nat \ {0} /\ Len(walk) = L
    BY <1>1
  <2>. HIDE DEF L
  <2>. QED
    BY <1>0, <2>1, <2>2
<1>3. PICK fin : Through(fin)
  BY DEF WalkInv
<1>. HIDE DEF L
<1>4. PICK more : more = fin \cup {g}
  OBVIOUS
<1>5. \A i \in DOMAIN table[g].body : Passed(table[g].body[i], L, fin)
  <2>1. ASSUME NEW i \in DOMAIN table[g].body PROVE i < k
    BY <1>1
  <2>2. L \in DOMAIN walk
    BY <1>1
  <2>. QED
    BY <1>3, <2>1, <2>2 DEF Through
<1>6. Mapping!Refs(g) \subseteq fin /\ \A c \in Mapping!Coms(g) : Maps(c)
  <2>1. ~(L < Len(walk))
    BY <1>1 DEF L
  <2>2. \A it \in Mapping!ToSet(table[g].body) : Passed(it, L, fin)
    BY <1>5 DEF Mapping!ToSet
  <2>3. ASSUME NEW n \in Mapping!Refs(g) PROVE n \in fin
    <3>1. PICK it \in Mapping!ToSet(table[g].body) : it.tag = "ref" /\ it.name = n
      BY DEF Mapping!Refs
    <3>. QED
      BY <2>1, <2>2, <3>1 DEF Passed
  <2>4. ASSUME NEW c \in Mapping!Coms(g) PROVE Maps(c)
    BY <2>2 DEF Mapping!Coms, Passed
  <2>. QED
    BY <2>3, <2>4
<1>7. Covered(more)
  BY <1>1, <1>3, <1>6, <1>4 DEF Through, Covered
<1>8. Covered(more)' /\ \A c : Maps(c) => Maps(c)'
  BY <1>0, <1>7, MapsGrow
<1>9. ASSUME NEW j \in DOMAIN walk', NEW i \in DOMAIN table[walk'[j][1]].body,
             i < walk'[j][2], NEW it, it = table[walk'[j][1]].body[i]
      PROVE  Passed(it, j, more)'
  <2>1. j \in 1 .. L - 1 /\ j \in DOMAIN walk /\ j + 1 \in 1 .. L /\ walk'[j] = walk[j]
    BY <1>1, <1>2
  <2>2. Passed(it, j, fin)
    BY <1>3, <1>9, <2>1 DEF Through
  <2>3. CASE it.tag = "ref" /\ it.name \notin fin
    <3>1. it.name = walk[j + 1][1]
      BY <2>2, <2>3 DEF Passed
    <3>2. CASE j = L - 1
      <4>1. it.name = g
        BY <1>1, <3>1, <3>2
      <4>. QED
        BY <1>4, <2>3, <4>1 DEF Passed
    <3>3. CASE j # L - 1
      <4>1. j + 1 \in 1 .. L - 1
        BY <1>1, <2>1, <3>3
      <4>2. walk'[j + 1] = walk[j + 1] /\ j < Len(walk')
        BY <1>1, <1>2, <4>1
      <4>. QED
        BY <2>3, <3>1, <4>2 DEF Passed
    <3>. QED
      BY <3>2, <3>3
  <2>. QED
    BY <1>8, <1>4, <2>2, <2>3 DEF Passed
<1>10. /\ Mapping!Globals' = Mapping!Globals
      /\ walk # << >> /\ Last(keys)' = Last(keys)
      /\ mapped = "running"
      /\ itr > Len(keys) /\ walk[1][1] = Last(keys)
  BY <1>0 DEF Mapping!Globals, Mapping!Walking, Last, WalkInv
<1>11. CASE walk' = << >>
  <2>1. L = 1
    BY <1>1, <1>2, <1>11
  <2>2. Last(keys) \in more
    BY <1>10, <1>4, <2>1
  <2>3. Through(more)'
    BY <1>0, <1>8, <1>9, <2>2, ThroughNext
  <2>. QED
    BY <1>0, <1>2, <1>10, <1>11, <2>3 DEF WalkInv
<1>12. CASE walk' # << >>
  <2>1. walk'[1] = walk[1]
    <3>1. Len(walk') # 0
      BY <1>2, <1>12
    <3>2. 1 \in 1 .. L - 1
      BY <1>1, <1>2, <3>1
    <3>. QED
      BY <1>2, <3>2
  <2>2. Through(more)'
    BY <1>0, <1>8, <1>9, <1>12, ThroughNext
  <2>. QED
    BY <1>0, <1>2, <1>10, <1>12, <2>1, <2>2 DEF WalkInv
<1>. QED
  BY <1>11, <1>12

(* A declaration that is not the last global type. *)
LEMMA StepDeclaration ==
  ASSUME TreeInv, WalkInv, table[Last(keys)].tag = "Global",
         Mapping!VisitParticipant \/ Mapping!VisitNothing,
         DOMAIN map \subseteq DOMAIN map', \A n \in DOMAIN map : map'[n] = map[n]
  PROVE  WalkInv'
<1>1. /\ walk = << >> /\ walk' = << >> /\ itr <= Len(keys) /\ itr' = itr + 1
      /\ mapped = "running" /\ mapped' = "running"
      /\ UNCHANGED <<keys, table>>
      /\ Mapping!Node.tag = "Global" => itr # Len(keys)
  BY DEF Mapping!VisitParticipant, Mapping!VisitNothing, Mapping!Declaring, Mapping!IsLast
<1>2. itr # Len(keys)
  <2>. SUFFICES ASSUME itr = Len(keys) PROVE FALSE
    OBVIOUS
  <2>1. Mapping!Node = table[Last(keys)]
    BY KeysFacts DEF Mapping!Node
  <2>. QED
    BY <1>1, <2>1
<1>3. itr' \in Nat \ {0} /\ ~(itr' > Len(keys))
  <2>1. itr \in Nat \ {0} /\ Len(keys) \in Nat
    BY KeysFacts DEF WalkInv
  <2>. QED
    BY <1>1, <1>2, <2>1
<1>4. PICK fin : Through(fin)
  BY DEF WalkInv
<1>5. Covered(fin)'
  BY <1>1, <1>4, MapsGrow DEF Through
<1>6. Through(fin)'
  <2>1. \A j : j \notin DOMAIN walk'
    BY <1>1
  <2>. QED
    BY <1>1, <1>3, <1>5, <2>1 DEF Through
<1>7. walk' \in Seq(Mapping!Globals \X (Nat \ {0}))'
  BY <1>1
<1>. QED
  BY <1>1, <1>3, <1>6, <1>7 DEF WalkInv

(* The last global type. *)
LEMMA StepGlobal ==
  ASSUME TreeInv, BodiesFit, WalkInv, Mapping!VisitGlobalType
  PROVE  WalkInv'
<1>1. /\ walk = << >> /\ itr = Len(keys) /\ itr' = itr + 1
      /\ walk' = <<<<Last(keys), 1>>>>
      /\ mapped = "running" /\ UNCHANGED <<keys, table, map, mapped>>
      /\ table[Last(keys)].tag = "Global"
  BY KeysFacts
  DEF Mapping!VisitGlobalType, Mapping!Declaring, Mapping!IsLast, Mapping!Node
<1>2. Last(keys) \in Mapping!Globals
  BY <1>1, KeysFacts DEF Mapping!Globals
<1>3. /\ walk' \in Seq(Mapping!Globals \X (Nat \ {0}))
      /\ DOMAIN walk' = {1} /\ walk' # << >>
      /\ walk'[1] = <<Last(keys), 1>>
  BY <1>1, <1>2
<1>4. PICK fin : Through(fin)
  BY DEF WalkInv
<1>5. Covered(fin)'
  BY <1>1, <1>4, MapsGrow DEF Through
<1>6. ASSUME NEW i \in DOMAIN table[Last(keys)].body PROVE ~(i < 1)
  <2>1. BodyFits(table[Last(keys)].body)
    BY <1>1, <1>2 DEF BodiesFit, Mapping!Globals
  <2>2. DOMAIN table[Last(keys)].body = 1 .. Len(table[Last(keys)].body)
    BY <2>1 DEF BodyFits, Choreography!Body
  <2>. QED
    BY <2>2
<1>7. Through(fin)'
  BY <1>1, <1>3, <1>5, <1>6, ThroughNext
<1>8. itr' > Len(keys) /\ itr' \in Nat \ {0}
  BY <1>1, KeysFacts
<1>. QED
  BY <1>1, <1>3, <1>7, <1>8 DEF WalkInv, Mapping!Globals, Last

(* An exception, a crash, or the end of the visit. *)
LEMMA StepStop ==
  ASSUME WalkInv, NEW how, Mapping!Stop(how),
         how = "done" => walk = << >> /\ itr > Len(keys)
  PROVE  WalkInv'
<1>1. /\ UNCHANGED <<keys, table, fields, itr, walk, map>>
      /\ mapped' = "done" => walk = << >> /\ itr > Len(keys)
  BY DEF Mapping!Stop
<1>2. ASSUME NEW fin, Through(fin) PROVE Through(fin)'
  <2>1. Covered(fin)'
    BY <1>1, <1>2, MapsGrow DEF Through
  <2>2. \A it, j : Passed(it, j, fin) => Passed(it, j, fin)'
    BY <1>1 DEF Passed, Maps
  <2>3. \A j \in DOMAIN walk' : \A k \in DOMAIN table[walk'[j][1]].body :
          k < walk'[j][2] =>
            \A it : it = table[walk'[j][1]].body[k] => Passed(it, j, fin)'
    BY <1>1, <1>2, <2>2 DEF Through
  <2>4. walk' = << >> /\ itr' > Len(keys) => Last(keys) \in fin
    BY <1>1, <1>2 DEF Through
  <2>. QED
    BY <1>1, <2>1, <2>3, <2>4, ThroughNext
<1>. QED
  BY <1>1, <1>2 DEF WalkInv, Mapping!Globals, Last

(***************************************************************************)
(* The names.                                                              *)
(***************************************************************************)
(* A step after which every name is mapped as before, or fits. *)
Fits(n, d) ==
  /\ n \in Name
  /\ d # Mapping!Record(n) => d.kind = "field" /\ Choreography!resolve(n, "Channel")
  /\ d = Mapping!Record(n) => n \in DOMAIN fields
  /\ d.kind = "field" => d.name \in DOMAIN fields
  /\ d.kind = "field" =>
       \E c \in Mapping!AllComs : c.on.name = n /\ Mapping!FitsCom(d, c)
  /\ d.kind = "record" /\ n \in DOMAIN table /\ table[n].tag = "Channel" =>
       \E c \in Mapping!AllComs : c.type = n

LEMMA NamesFit == NamesInv <=> fields \in Code /\ \A n \in DOMAIN map : Fits(n, map[n])
BY DEF NamesInv, Fits, ChannelFitsCom, Mapping!ChannelFitsCom

LEMMA NamesNext ==
  ASSUME NamesInv, UNCHANGED <<keys, table, fields>>,
         \A n \in DOMAIN map' : (n \in DOMAIN map /\ map'[n] = map[n]) \/ Fits(n, map'[n])
  PROVE  NamesInv'
<1>1. \A n \in DOMAIN map' : Fits(n, map'[n])
  BY NamesFit
<1>2. Mapping!AllComs' = Mapping!AllComs
  BY DEF Mapping!AllComs, Mapping!Coms, Mapping!Globals
<1>3. ASSUME NEW d, NEW c PROVE Mapping!FitsCom(d, c)' <=> Mapping!FitsCom(d, c)
  BY DEF Mapping!FitsCom, Mapping!Matches
<1>4. ASSUME NEW n, NEW d, Fits(n, d) PROVE Fits(n, d)'
  BY <1>2, <1>3, <1>4 DEF Fits, Choreography!resolve
<1>5. ASSUME NEW n \in DOMAIN map' PROVE Fits(n, map[n])'
  <2>. DEFINE d == map[n]
  <2>1. \A e : e = d' => Fits(n, e)'
    BY <1>1, <1>4
  <2>. QED
    BY <2>1 DEF Fits, Mapping!FitsCom
<1>6. (NamesInv <=> fields \in Code /\ \A n \in DOMAIN map : Fits(n, map[n]))'
  BY NamesFit, PTL
<1>. QED
  BY <1>5, <1>6 DEF NamesInv

LEMMA NamesParticipant ==
  ASSUME TreeInv, WalkInv, NamesInv, Mapping!VisitParticipant
  PROVE  NamesInv'
<1>1. /\ UNCHANGED <<keys, table, fields>>
      /\ map' = Mapping!addMapping(map, keys[itr], Mapping!Record(keys[itr]))
      /\ table[keys[itr]].tag = "Participant"
      /\ itr <= Len(keys)
      /\ keys[itr] \in DOMAIN fields
  BY DEF Mapping!VisitParticipant, Mapping!Declaring, Mapping!Node, Mapping!findDecl
<1>. DEFINE n == keys[itr]
            d == Mapping!Record(n)
<1>2. n \in Name
  BY <1>1 DEF TreeInv, WalkInv
<1>3. d.kind = "record"
  BY DEF Mapping!Record
<1>4. Fits(n, d)
  BY <1>1, <1>2, <1>3 DEF Fits
<1>5. /\ DOMAIN map' = DOMAIN map \cup {n}
      /\ \A x \in DOMAIN map : map'[x] = map[x]
      /\ n \notin DOMAIN map => map'[n] = d
  BY <1>1 DEF Mapping!addMapping
<1>. HIDE DEF n, d
<1>6. \A x \in DOMAIN map' : (x \in DOMAIN map /\ map'[x] = map[x]) \/ Fits(x, map'[x])
  BY <1>4, <1>5
<1>. QED
  BY <1>1, <1>6, NamesNext

(* A communication. *)
LEMMA ComStep ==
  ASSUME TreeInv, BodiesFit, WalkInv, NamesInv, Mapping!VisitCom
  PROVE  /\ NamesInv'
         /\ DOMAIN map \subseteq DOMAIN map' /\ \A n \in DOMAIN map : map'[n] = map[n]
         /\ \A c : c = Mapping!Here => Maps(c)'
<1>. DEFINE it == Mapping!Here
            T == Mapping!Typed(it)
            o == Mapping!Owner(it)
            f == Mapping!findMatchingMember(T[o].name, it.type)
<1>0. /\ Mapping!Walking /\ ~Mapping!AtEnd /\ it.tag = "com"
      /\ it.type \in DOMAIN fields
      /\ {it.from.name, it.to.name} \subseteq DOMAIN T
      /\ Mapping!HasMember(T[o], it.type)
      /\ map' = Mapping!addMapping(T, it.on.name, f)
      /\ UNCHANGED <<keys, table, fields>>
  BY DEF Mapping!VisitCom, Mapping!At, Mapping!Mapped, Mapping!findDecl
<1>1. PICK g \in Mapping!Globals : \E k \in DOMAIN table[g].body :
        it = table[g].body[k] /\ BodyFits(table[g].body)
  BY <1>0, Standing
<1>2. /\ it \in Mapping!AllComs
      /\ Choreography!resolve(it.from.name, "Participant")
      /\ Choreography!resolve(it.on.name, "Channel")
      /\ Receiver(it.to)
  <2>1. it \in Mapping!AllComs
    BY <1>0, <1>1 DEF Mapping!AllComs, Mapping!Coms, Mapping!ToSet
  <2>2. Receiver(it.to)
    BY <1>0, <1>1 DEF BodyFits
  <2>. QED
    BY <1>0, <1>1, <2>1, <2>2, ItemRefers
<1>. HIDE DEF it
<1>3. it.type \in Name /\ it.on.name \in Name
  <2>1. DOMAIN fields \subseteq Name
    BY AnalyzerAssumption DEF NamesInv, Mapping!CodeAssumption
  <2>. QED
    BY <1>0, <1>2, <2>1, KeysFacts DEF Choreography!resolve
<1>4. /\ DOMAIN T = DOMAIN map \cup {it.type}
      /\ \A x \in DOMAIN map : T[x] = map[x]
      /\ it.type \notin DOMAIN map => T[it.type] = Mapping!Record(it.type)
  BY DEF Mapping!Typed, Mapping!addMapping
<1>5. /\ DOMAIN map' = DOMAIN T \cup {it.on.name}
      /\ \A x \in DOMAIN T : map'[x] = T[x]
      /\ it.on.name \notin DOMAIN T => map'[it.on.name] = f
  BY <1>0 DEF Mapping!addMapping
<1>6. \A n \in DOMAIN T : T[n] # Mapping!Record(n) =>
         T[n].kind = "field" /\ Choreography!resolve(n, "Channel")
  BY <1>4 DEF NamesInv
<1>7. it.to.name # NoName /\ Choreography!resolve(it.to.name, "Participant")
  <2>1. DOMAIN T \subseteq Name
    BY <1>3, <1>4 DEF NamesInv
  <2>2. NoName \notin Name
    BY AnalyzerAssumption DEF Choreography!ParserAssumption
  <2>. QED
    BY <1>0, <1>2, <2>1, <2>2 DEF Receiver
<1>8. T[it.from.name] = Mapping!Record(it.from.name) /\ T[it.to.name] = Mapping!Record(it.to.name)
  BY <1>0, <1>2, <1>6, <1>7 DEF Choreography!resolve
<1>9. /\ o \in {it.from.name, it.to.name} /\ o \in DOMAIN fields
      /\ T[o] = Mapping!Record(o) /\ T[o].name = o
      /\ Mapping!Matches(o, it.type) # {}
      /\ o = IF Mapping!Matches(it.to.name, it.type) # {} THEN it.to.name ELSE it.from.name
  <2>1. \A n : Mapping!Record(n).kind = "record" /\ Mapping!Record(n).name = n
    BY DEF Mapping!Record
  <2>2. Mapping!HasMember(T[it.to.name], it.type) <=> Mapping!Matches(it.to.name, it.type) # {}
    BY <1>8, <2>1 DEF Mapping!HasMember
  <2>3. o = IF Mapping!Matches(it.to.name, it.type) # {} THEN it.to.name ELSE it.from.name
    BY <2>2 DEF Mapping!Owner
  <2>4. T[o] = Mapping!Record(o) /\ o \in DOMAIN T
    BY <1>0, <1>8, <2>3
  <2>5. o \in DOMAIN fields
    BY <1>0, <1>4, <2>4 DEF NamesInv
  <2>. QED
    BY <1>0, <2>1, <2>3, <2>4, <2>5 DEF Mapping!HasMember
<1>10. /\ f.kind = "field" /\ f.name \in DOMAIN fields
       /\ f # Mapping!Record(it.on.name) /\ Mapping!FitsCom(f, it)
  <2>. DEFINE M == Mapping!Matches(o, it.type)
  <2>1. fields[o] \in Seq(Name)
    BY <1>9, AnalyzerAssumption DEF NamesInv, Mapping!CodeAssumption
  <2>2. M \subseteq Nat
    BY <2>1 DEF Mapping!Matches
  <2>3. \E i \in M : \A j \in M : i <= j
    BY <1>9, <2>2, Least
  <2>4. f = Mapping!Field(o, CHOOSE i \in M : \A j \in M : i <= j)
    BY <1>9 DEF Mapping!findMatchingMember
  <2>5. f.kind = "field" /\ f.name = o /\ f.nth \in M /\ \A j \in M : f.nth <= j
    BY <2>3, <2>4 DEF Mapping!Field
  <2>6. f # Mapping!Record(it.on.name)
    BY <2>5 DEF Mapping!Record
  <2>. HIDE DEF f
  <2>. QED
    BY <1>7, <1>9, <2>5, <2>6 DEF Mapping!FitsCom
<1>. HIDE DEF f
<1>11. ASSUME NEW n \in DOMAIN map', n \notin DOMAIN map PROVE Fits(n, map'[n])
  <2>1. CASE n \in DOMAIN T
    <3>1. n = it.type /\ map'[n] = Mapping!Record(n)
      BY <1>4, <1>5, <1>11, <2>1
    <3>2. Mapping!Record(n).kind = "record"
      BY DEF Mapping!Record
    <3>. QED
      BY <1>0, <1>2, <1>3, <3>1, <3>2 DEF Fits
  <2>2. CASE n \notin DOMAIN T
    <3>1. n = it.on.name /\ map'[n] = f
      BY <1>5, <2>2
    <3>. QED
      BY <1>2, <1>3, <1>10, <3>1 DEF Fits
  <2>. QED
    BY <2>1, <2>2
<1>12. DOMAIN map \subseteq DOMAIN map' /\ \A n \in DOMAIN map : map'[n] = map[n]
  BY <1>4, <1>5
<1>13. NamesInv'
  BY <1>0, <1>11, <1>12, NamesNext
<1>14. ASSUME NEW c, c = it PROVE Maps(c)'
  <2>1. {c.from.name, c.to.name, c.on.name, c.type} \subseteq DOMAIN map'
    BY <1>0, <1>4, <1>5, <1>14
  <2>2. map'[c.from.name] = Mapping!Record(c.from.name) /\ map'[c.to.name] = Mapping!Record(c.to.name)
    BY <1>0, <1>5, <1>8, <1>14
  <2>. QED
    BY <2>1, <2>2 DEF Maps, Mapping!Record
<1>. QED
  BY <1>12, <1>13, <1>14 DEF it

(* A step of the visit keeps the invariant. *)
LEMMA MapStep ==
  ASSUME TreeInv, BodiesFit, WalkInv, NamesInv, table[Last(keys)].tag = "Global", Mapping!Next
  PROVE  WalkInv' /\ NamesInv' /\ UNCHANGED <<keys, table>>
<1>1. ASSUME map' = map, UNCHANGED <<keys, table, fields>>
      PROVE  NamesInv' /\ DOMAIN map \subseteq DOMAIN map' /\ \A n \in DOMAIN map : map'[n] = map[n]
  BY <1>1, NamesNext
<1>2. CASE Mapping!VisitParticipant
  <2>1. DOMAIN map \subseteq DOMAIN map' /\ \A n \in DOMAIN map : map'[n] = map[n]
    BY <1>2 DEF Mapping!VisitParticipant, Mapping!addMapping
  <2>. QED
    BY <1>2, <2>1, NamesParticipant, StepDeclaration DEF Mapping!VisitParticipant
<1>3. CASE Mapping!VisitNothing
  BY <1>1, <1>3, StepDeclaration DEF Mapping!VisitNothing
<1>4. CASE Mapping!VisitGlobalType
  BY <1>1, <1>4, StepGlobal DEF Mapping!VisitGlobalType
<1>5. CASE Mapping!VisitCom
  <2>1. /\ NamesInv'
        /\ DOMAIN map \subseteq DOMAIN map' /\ \A n \in DOMAIN map : map'[n] = map[n]
        /\ \A c : c = Mapping!Here => Maps(c)'
    BY <1>5, ComStep
  <2>. QED
    BY <1>5, <2>1, StepPast DEF Mapping!VisitCom, Mapping!At
<1>6. CASE Mapping!VisitRef
  BY <1>1, <1>6, StepInto DEF Mapping!VisitRef
<1>7. CASE Mapping!VisitForEach
  BY <1>1, <1>7, StepPast DEF Mapping!VisitForEach, Mapping!At
<1>8. CASE Mapping!LeaveList
  BY <1>1, <1>8, StepOut DEF Mapping!LeaveList
<1>9. CASE Mapping!NoClass \/ Mapping!NoDeclaration \/ Mapping!DereferenceNull
  <2>1. PICK how \in {"failed", "crashed"} : Mapping!Stop(how)
    BY <1>9 DEF Mapping!NoClass, Mapping!NoDeclaration, Mapping!DereferenceNull
  <2>. QED
    BY <1>1, <2>1, StepStop DEF Mapping!Stop
<1>10. CASE Mapping!Finish
  BY <1>1, <1>10, StepStop DEF Mapping!Finish, Mapping!Stop
<1>. QED
  BY <1>2, <1>3, <1>4, <1>5, <1>6, <1>7, <1>8, <1>9, <1>10 DEF Mapping!Next

(***************************************************************************)
(* Before the visit begins there is nothing to show, and after it nothing  *)
(* is changed any more.                                                    *)
(***************************************************************************)
LEMMA UntouchedFits ==
  ASSUME TreeInv, Untouched
  PROVE  WalkInv /\ NamesInv
<1>1. Through({})
  <2>1. ~(itr > Len(keys)) /\ DOMAIN walk = {}
    BY KeysFacts DEF Untouched
  <2>. QED
    BY <2>1 DEF Through, Covered
<1>2. NamesInv
  BY NamesFit DEF Untouched
<1>. QED
  BY <1>1, <1>2 DEF Untouched, WalkInv

LEMMA UnchangedFits ==
  ASSUME WalkInv, NamesInv, UNCHANGED <<keys, table, castVars>>
  PROVE  WalkInv' /\ NamesInv'
<1>1. UNCHANGED <<keys, table, fields, itr, walk, map, mapped>>
  BY DEF castVars
<1>2. Mapping!Stop(mapped)
  BY <1>1 DEF Mapping!Stop
<1>3. mapped = "done" => walk = << >> /\ itr > Len(keys)
  BY DEF WalkInv
<1>. QED
  BY <1>1, <1>2, <1>3, StepStop, NamesNext

(* The parser and the visitor end in one of three ways. *)
Ends == {"running", "done", "parsed", "failed", "crashed"}
EndInv ==
  /\ outcome \in Ends \ {"done"}
  /\ mapped \in Ends \ {"parsed"}

LEMMA EndInvariant == Spec => []EndInv
<1>. USE DEF EndInv, Ends
<1>1. Init => EndInv
  BY DEF Init, Choreography!Init, Mapping!Init
<1>2. ASSUME EndInv, [Next \/ Done]_vars PROVE EndInv'
  <2>1. CASE Parse
    <3>1. Choreography!Next /\ mapped' = mapped
      BY <2>1 DEF Parse, castVars
    <3>2. outcome' \in {"parsed", "failed", "crashed", outcome}
      BY <3>1
      DEF Choreography!Next, Choreography!Stop, Choreography!parseIndexDecl,
          Choreography!parseParticipantDecl, Choreography!parseChannelDecl,
          Choreography!parseIndexed, Choreography!parseGlobalTypeDecl,
          Choreography!addDeclaration, Choreography!CutShort,
          Choreography!ThrowDeclaration, Choreography!ThrowBody,
          Choreography!DereferenceNull, Choreography!Finish
    <3>. QED
      BY <1>2, <3>1, <3>2
  <2>2. CASE Map
    <3>1. Mapping!Next /\ outcome' = outcome
      BY <2>2 DEF Map
    <3>2. mapped' \in {"done", "failed", "crashed", mapped}
      BY <3>1
      DEF Mapping!Next, Mapping!Stop, Mapping!VisitParticipant, Mapping!NoClass,
          Mapping!VisitNothing, Mapping!VisitGlobalType, Mapping!VisitCom,
          Mapping!NoDeclaration, Mapping!DereferenceNull, Mapping!VisitRef,
          Mapping!VisitForEach, Mapping!LeaveList, Mapping!Finish
    <3>. QED
      BY <1>2, <3>1, <3>2
  <2>3. CASE UNCHANGED <<outcome, mapped>>
    BY <1>2, <2>3
  <2>. QED
    BY <1>2, <2>1, <2>2, <2>3
    DEF Next, Done, vars, ParseArgs, HandleTranslationUnit, AfterMapping, Project,
        Validate, parserVars, castVars
<1>. QED
  BY <1>1, <1>2, PTL DEF Spec

LEMMA MapInvStep ==
  ASSUME EndInv, TreeInv, TreeInv', MapInv, [Next \/ Done]_vars
  PROVE  MapInv'
<1>. USE DEF MapInv
<1>1. CASE Parse
  <2>1. BodiesFit'
    BY <1>1, ParseKeepsBodies DEF Parse
  <2>2. Untouched' /\ phase' = "parse"
    BY <1>1 DEF Parse, PhaseInv, Untouched, castVars
  <2>3. WalkInv' /\ NamesInv'
    <3>1. (TreeInv /\ Untouched => WalkInv /\ NamesInv)'
      BY UntouchedFits, PTL
    <3>. QED
      BY <2>2, <3>1
  <2>. QED
    BY <2>1, <2>2, <2>3 DEF PhaseInv
<1>2. CASE Map
  <2>1. table[Last(keys)].tag = "Global" /\ phase = "map" /\ Mapping!Next /\ phase' = phase
    BY <1>2 DEF Map, PhaseInv
  <2>2. WalkInv' /\ NamesInv' /\ UNCHANGED <<keys, table>>
    BY <2>1, MapStep
  <2>. QED
    BY <2>1, <2>2 DEF PhaseInv, BodiesFit, BodyFits, Receiver, Choreography!resolve, Last
<1>3. ASSUME UNCHANGED <<keys, table, castVars>>, PhaseInv' PROVE MapInv'
  <2>1. BodiesFit'
    BY <1>3 DEF BodiesFit, BodyFits, Receiver, Choreography!resolve
  <2>. QED
    BY <1>3, <2>1, UnchangedFits
<1>4. CASE ParseArgs
  <2>1. UNCHANGED <<keys, table, castVars>> /\ phase = "parse" /\ phase' \in {"crash", "handle", "off"}
    BY <1>4 DEF ParseArgs, parserVars, EndInv, Ends
  <2>2. PhaseInv'
    BY <2>1 DEF PhaseInv, Untouched, castVars
  <2>. QED
    BY <1>3, <2>1, <2>2
<1>5. CASE HandleTranslationUnit
  <2>1. UNCHANGED <<keys, table, castVars, onlyproj>> /\ phase = "handle"
    BY <1>5 DEF HandleTranslationUnit, parserVars
  <2>2. PhaseInv'
    BY <1>5, <2>1 DEF HandleTranslationUnit, PhaseInv, Last
  <2>. QED
    BY <1>3, <2>1, <2>2
<1>6. CASE AfterMapping
  <2>1. UNCHANGED <<keys, table, castVars, onlyproj>> /\ mapped' = mapped
    BY <1>6 DEF AfterMapping, parserVars, castVars
  <2>2. PhaseInv'
    BY <1>6, <2>1 DEF AfterMapping, PhaseInv, EndInv, Ends
  <2>. QED
    BY <1>3, <2>1, <2>2
<1>7. CASE Project \/ Validate
  <2>1. UNCHANGED <<keys, table, castVars, onlyproj>> /\ mapped' = mapped
    BY <1>7 DEF Project, Validate, parserVars, castVars
  <2>2. PhaseInv'
    BY <1>7, <2>1 DEF Project, Validate, PhaseInv
  <2>. QED
    BY <1>3, <2>1, <2>2
<1>8. CASE Done \/ UNCHANGED vars
  <2>1. UNCHANGED <<keys, table, castVars, onlyproj, phase>>
    BY <1>8 DEF Done, vars, castVars
  <2>2. PhaseInv'
    BY <2>1 DEF PhaseInv, Untouched, castVars, Last
  <2>. QED
    BY <1>3, <2>1, <2>2
<1>. QED
  BY <1>1, <1>2, <1>4, <1>5, <1>6, <1>7, <1>8 DEF Next

LEMMA MapInvariant == Spec => [](TreeInv /\ MapInv)
<1>1. Init => BodiesFit /\ PhaseInv /\ Untouched
  BY AnalyzerAssumption
  DEF Init, Mapping!Init, Choreography!Init, BodiesFit, PhaseInv, Untouched
<1>2. TreeInv /\ Init => MapInv
  BY <1>1, UntouchedFits DEF MapInv
<1>3. EndInv /\ TreeInv /\ TreeInv' /\ MapInv /\ [Next \/ Done]_vars => MapInv'
  BY MapInvStep
<1>. QED
  BY <1>2, <1>3, TreeInvariant, EndInvariant, PTL DEF Spec

(***************************************************************************)
(* Whatever the validator looks up is there: every participant, channel    *)
(* and data type of the global type that is projected, and of those it     *)
(* names, is mapped when the projection is validated.                      *)
(***************************************************************************)
THEOREM NamesAreMapped == Spec => []NamesMapped
<1>1. TreeInv /\ MapInv => NamesMapped
  <2>. SUFFICES ASSUME TreeInv, MapInv PROVE NamesMapped
    OBVIOUS
  <2>1. phase = "validate" => mapped = "done"
    BY DEF MapInv, PhaseInv
  <2>2. ASSUME mapped = "done"
        PROVE  \E S \in SUBSET Mapping!Globals :
                 /\ Last(keys) \in S
                 /\ \A g \in S : Mapping!Refs(g) \subseteq S
                 /\ \A g \in S : \A c \in Mapping!Coms(g) : Maps(c)
    <3>1. PICK fin : Through(fin)
      BY DEF MapInv, WalkInv
    <3>2. Covered(fin) /\ Last(keys) \in fin
      BY <2>2, <3>1 DEF MapInv, WalkInv, Through
    <3>. QED
      BY <3>2 DEF Covered
  <2>3. Mapping!Last(keys) = Last(keys)
    BY DEF Mapping!Last, Last
  <2>. QED
    BY <2>1, <2>2, <2>3 DEF NamesMapped, Mapping!NamesMapped, Maps
<1>. QED
  BY <1>1, MapInvariant, PTL

(***************************************************************************)
(* A channel is the first field of the receiver's class that holds the     *)
(* data type of a communication on it, or else of the sender's class; and  *)
(* if it is no field, a data type of its name has come first.              *)
(***************************************************************************)
THEOREM ChannelsFit == Spec => []ChannelFitsCom
<1>1. MapInv => ChannelFitsCom
  BY DEF MapInv, NamesInv
<1>. QED
  BY <1>1, MapInvariant, PTL

(***************************************************************************)
(* Types.  Besides the bodies, the indexes that nodes refer to are names.  *)
(***************************************************************************)
NodesTyped == table \in [DOMAIN table -> Choreography!Node]

LEMMA AddKeepsNodes ==
  ASSUME NodesTyped, NEW n, NEW node \in Choreography!Node, Choreography!addDeclaration(n, node)
  PROVE  NodesTyped'
<1>1. /\ DOMAIN table' = DOMAIN table \cup {n}
      /\ table' = [m \in DOMAIN table \cup {n} |-> IF m \in DOMAIN table THEN table[m] ELSE node]
  BY DEF Choreography!addDeclaration, Choreography!Insert
<1>. QED
  BY <1>1 DEF NodesTyped

LEMMA ParseKeepsNodes ==
  ASSUME TreeInv, NodesTyped, Choreography!Next
  PROVE  NodesTyped'
<1>1. ASSUME NEW tag, Choreography!At(tag)
      PROVE  Choreography!Here \in Choreography!Declaration /\ Choreography!Here.tag = tag
  <2>1. pos \in DOMAIN file
    BY <1>1 DEF Choreography!At, Choreography!AtEnd, TreeInv
  <2>. QED
    BY <1>1, <2>1 DEF Choreography!At, TreeInv, Choreography!Here
<1>2. CASE Choreography!parseIndexDecl
  <2>1. [tag |-> "Index"] \in Choreography!Node
    BY DEF Choreography!Node
  <2>. QED
    BY <1>2, <2>1, AddKeepsNodes DEF Choreography!parseIndexDecl
<1>3. ASSUME NEW tag \in {"Participant", "Channel"}, Choreography!parseIndexed(tag)
      PROVE  NodesTyped'
  <2>1. Choreography!Here.index \in Choreography!IndexArg
    BY <1>1, <1>3 DEF Choreography!parseIndexed, Choreography!Declaration
  <2>2. Choreography!IndexOf(Choreography!Here.index) \in Name
    BY <2>1, AnalyzerAssumption
    DEF Choreography!IndexOf, Choreography!IndexArg, Choreography!ParserAssumption
  <2>3. [tag |-> tag, index |-> Choreography!IndexOf(Choreography!Here.index)] \in Choreography!Node
    BY <2>2 DEF Choreography!Node
  <2>. QED
    BY <1>3, <2>3, AddKeepsNodes DEF Choreography!parseIndexed
<1>4. CASE Choreography!parseGlobalTypeDecl
  <2>1. Choreography!Here.body \in Choreography!Body
    BY <1>1, <1>4 DEF Choreography!parseGlobalTypeDecl, Choreography!Declaration
  <2>2. Choreography!parseExpressionList(Choreography!Here.body) \in Choreography!Body
    BY <2>1, LinkedFits DEF BodyFits
  <2>3. [tag |-> "Global", body |-> Choreography!parseExpressionList(Choreography!Here.body)]
          \in Choreography!Node
    BY <2>2 DEF Choreography!Node
  <2>. QED
    BY <1>4, <2>3, AddKeepsNodes DEF Choreography!parseGlobalTypeDecl
<1>5. ASSUME NEW how, Choreography!Stop(how)
      PROVE  NodesTyped'
  BY <1>5 DEF Choreography!Stop, NodesTyped
<1>. QED
  BY <1>2, <1>3, <1>4, <1>5
  DEF Choreography!Next, Choreography!parseParticipantDecl, Choreography!parseChannelDecl,
      Choreography!CutShort, Choreography!ThrowDeclaration, Choreography!ThrowBody,
      Choreography!DereferenceNull, Choreography!Finish

LEMMA NodesInvariant == Spec => []NodesTyped
<1>1. Init => NodesTyped
  <2>1. [tag |-> "Index"] \in Choreography!Node
    BY DEF Choreography!Node
  <2>. QED
    BY <2>1 DEF Init, Choreography!Init, NodesTyped
<1>2. TreeInv /\ NodesTyped /\ [Next \/ Done]_vars => NodesTyped'
  <2>. SUFFICES ASSUME TreeInv, NodesTyped, [Next \/ Done]_vars PROVE NodesTyped'
    OBVIOUS
  <2>1. CASE Parse
    BY <2>1, ParseKeepsNodes DEF Parse
  <2>2. CASE Map
    <3>1. table' = table
      BY <2>2
      DEF Map, Mapping!Next, Mapping!VisitParticipant, Mapping!NoClass, Mapping!VisitNothing,
          Mapping!VisitGlobalType, Mapping!VisitCom, Mapping!NoDeclaration,
          Mapping!DereferenceNull, Mapping!VisitRef, Mapping!VisitForEach,
          Mapping!LeaveList, Mapping!Finish, Mapping!Stop
    <3>. QED
      BY <3>1 DEF NodesTyped
  <2>3. CASE UNCHANGED table
    BY <2>3 DEF NodesTyped
  <2>. QED
    BY <2>1, <2>2, <2>3
    DEF Next, Done, vars, ParseArgs, HandleTranslationUnit, AfterMapping, Project, Validate,
        parserVars
<1>. QED
  BY <1>1, <1>2, TreeInvariant, PTL DEF Spec

(* The driver is in one of its phases. *)
PhaseTyped == onlyproj \in BOOLEAN /\ phase \in Phase

LEMMA PhaseInvariant == Spec => []PhaseTyped
<1>1. Init => PhaseTyped
  BY DEF Init, PhaseTyped, Phase
<1>2. EndInv /\ PhaseTyped /\ [Next \/ Done]_vars => PhaseTyped'
  <2>. SUFFICES ASSUME EndInv, PhaseTyped, [Next \/ Done]_vars PROVE PhaseTyped'
    OBVIOUS
  <2>. USE DEF PhaseTyped, Phase
  <2>1. CASE ParseArgs
    <3>1. phase' \in {"crash", "handle", "off"} /\ onlyproj' = onlyproj
      BY <2>1 DEF ParseArgs, EndInv, Ends
    <3>. QED
      BY <3>1
  <2>2. CASE AfterMapping
    <3>1. phase' \in {"project", "error", "crash"} /\ onlyproj' = onlyproj
      BY <2>2 DEF AfterMapping, EndInv, Ends
    <3>. QED
      BY <3>1
  <2>3. CASE HandleTranslationUnit \/ Project \/ Validate
    BY <2>3 DEF HandleTranslationUnit, Project, Validate
  <2>4. CASE UNCHANGED <<onlyproj, phase>>
    BY <2>4
  <2>. QED
    BY <2>1, <2>2, <2>3, <2>4 DEF Next, Done, vars, Parse, Map
<1>. QED
  BY <1>1, <1>2, EndInvariant, PTL DEF Spec

(***************************************************************************)
(* The symbol table holds nodes, the map declarations of the C++ code, and *)
(* all else what it is meant to hold, in every state of the plugin.        *)
(***************************************************************************)
THEOREM TypeCorrect == Spec => []TypeOK
<1>1. TreeInv /\ MapInv /\ EndInv /\ NodesTyped /\ PhaseTyped => TypeOK
  <2>. SUFFICES ASSUME TreeInv, MapInv, EndInv, NodesTyped, PhaseTyped PROVE TypeOK
    OBVIOUS
  <2>1. Choreography!TypeOK
    <3>1. keys \in Seq(Name) \ {<< >>} /\ DOMAIN table \subseteq Name
      BY KeysFacts DEF TreeInv
    <3>. QED
      BY <3>1 DEF TreeInv, NodesTyped, EndInv, Ends, Choreography!TypeOK
  <2>2. ASSUME NEW n \in DOMAIN map, map[n].kind = "field"
        PROVE  map[n].name \in DOMAIN fields /\ map[n].nth \in DOMAIN fields[map[n].name]
    <3>1. map[n].name \in DOMAIN fields
      BY <2>2 DEF MapInv, NamesInv
    <3>2. PICK c : Mapping!FitsCom(map[n], c)
      BY <2>2 DEF MapInv, NamesInv, ChannelFitsCom, Mapping!ChannelFitsCom
    <3>3. map[n].nth \in Mapping!Matches(map[n].name, c.type)
      BY <3>2 DEF Mapping!FitsCom
    <3>. QED
      BY <3>1, <3>3 DEF Mapping!Matches
  <2>3. \A n \in DOMAIN map : map[n] = Mapping!Record(n) => map[n].kind = "record"
    BY DEF Mapping!Record
  <2>4. walk \in Seq(Name \X (Nat \ {0}))
    <3>1. Mapping!Globals \subseteq Name
      BY KeysFacts DEF Mapping!Globals
    <3>2. walk \in Seq(Mapping!Globals \X (Nat \ {0}))
      BY DEF MapInv, WalkInv
    <3>3. Mapping!Globals \X (Nat \ {0}) \subseteq Name \X (Nat \ {0})
      BY <3>1
    <3>. QED
      BY <3>2, <3>3
  <2>5. mapped \in {"running", "done", "failed", "crashed"} /\ itr \in Nat \ {0}
    BY DEF MapInv, WalkInv, EndInv, Ends
  <2>6. ASSUME NEW n \in DOMAIN map
        PROVE  \/ map[n].kind = "record" /\ map[n] = Mapping!Record(n) /\ n \in DOMAIN fields
               \/ /\ map[n].kind = "field" /\ map[n].name \in DOMAIN fields
                  /\ map[n].nth \in DOMAIN fields[map[n].name]
    <3>1. CASE map[n] = Mapping!Record(n)
      BY <2>3, <3>1 DEF MapInv, NamesInv
    <3>2. CASE map[n] # Mapping!Record(n)
      BY <2>2, <3>2 DEF MapInv, NamesInv
    <3>. QED
      BY <3>1, <3>2
  <2>7. Mapping!TypeOK
    BY <2>4, <2>5, <2>6 DEF MapInv, NamesInv, Mapping!TypeOK
  <2>. QED
    BY <2>1, <2>7 DEF TypeOK, PhaseTyped
<1>. QED
  BY <1>1, MapInvariant, EndInvariant, NodesInvariant, PhaseInvariant, PTL

(***************************************************************************)
(* Crashes.  The inductive invariant says of the table where in the file   *)
(* it comes from: a name in it was declared, a name that its first         *)
(* declaration makes a participant is one, and a null receiver comes from  *)
(* a global type of the file whose receiver is none.                       *)
(***************************************************************************)
CausedBefore(p) == \E i \in 1 .. p : i \in DOMAIN file /\ UndeclaredReceiver(i)

DeclaredInv ==
  /\ \A n \in DOMAIN table : n = UnaryIndex \/ \E m \in 1 .. pos - 1 : file[m].name = n
  /\ \A n : MadeParticipant(n, pos) => Choreography!resolve(n, "Participant")
  /\ \A n \in Choreography!Globals : Choreography!NoReceiver(n) => CausedBefore(pos - 1)

ParserCrashInv ==
  outcome = "crashed" => CausedBefore(pos) \/ Choreography!CutAfterName

(* Every participant is mapped by the time the last type is visited. *)
ParticipantsMapped ==
  \A j \in DOMAIN keys :
    j < itr /\ table[keys[j]].tag = "Participant" => keys[j] \in DOMAIN map

LaterCrashInv ==
  /\ mapped = "crashed" => CausedBefore(pos)
  /\ phase = "crash" /\ mapped # "done" =>
       CausedBefore(pos) \/ (outcome = "crashed" /\ Choreography!CutAfterName)

CrashInv == DeclaredInv /\ ParserCrashInv /\ LaterCrashInv

LEMMA CausedLonger ==
  ASSUME TreeInv, NEW p \in Nat, NEW q \in Nat, p <= q, CausedBefore(p)
  PROVE  CausedBefore(q)
BY DEF CausedBefore

(* A null pointer is met only if there is one. *)
LEMMA NullHasCause ==
  ASSUME TreeInv, DeclaredInv, NEW n, Choreography!ReachesNull(n)
  PROVE  CausedBefore(pos)
<1>1. \A g \in Choreography!Globals : Choreography!Refs(g) \subseteq Choreography!Globals
  <2>. SUFFICES ASSUME NEW g \in Choreography!Globals, NEW x \in Choreography!Refs(g)
                PROVE  x \in Choreography!Globals
    OBVIOUS
  <2>1. PICK k \in DOMAIN table[g].body :
          table[g].body[k].tag = "ref" /\ table[g].body[k].name = x
    BY DEF Choreography!Refs, Choreography!ToSet
  <2>2. Mapping!Globals = Choreography!Globals
    BY DEF Mapping!Globals, Choreography!Globals
  <2>. QED
    BY <2>1, <2>2, ItemRefers
<1>2. n \in Choreography!Globals
  BY DEF Choreography!ReachesNull
<1>3. \E g \in Choreography!Globals : Choreography!NoReceiver(g)
  BY <1>1, <1>2 DEF Choreography!ReachesNull
<1>4. CausedBefore(pos - 1)
  BY <1>3 DEF DeclaredInv
<1>. QED
  BY <1>4, CausedLonger DEF TreeInv, CausedBefore

(* What an accepted declaration adds. *)
LEMMA DeclaredKeeps ==
  ASSUME TreeInv, DeclaredInv, NEW node, pos \in DOMAIN file,
         Choreography!addDeclaration(file[pos].name, node),
         pos' = pos + 1, file' = file,
         file[pos].tag = "Participant" => node.tag = "Participant",
         node.tag = "Global" =>
           \A i \in DOMAIN node.body :
             node.body[i].tag = "com" /\ node.body[i].to.name = NoName => UndeclaredReceiver(pos)
  PROVE  DeclaredInv'
<1>. DEFINE d == file[pos].name
<1>1. pos \in Nat \ {0} /\ DOMAIN file = 1 .. Len(file) /\ Len(file) \in Nat
  BY DEF TreeInv
<1>2. /\ DOMAIN table' = DOMAIN table \cup {d}
      /\ \A m \in DOMAIN table : table'[m] = table[m]
      /\ d \notin DOMAIN table => table'[d] = node
  BY DEF Choreography!addDeclaration, Choreography!Insert
<1>3. \A n \in DOMAIN table' : n = UnaryIndex \/ \E m \in 1 .. pos' - 1 : file'[m].name = n
  <2>. SUFFICES ASSUME NEW n \in DOMAIN table', n # UnaryIndex
                PROVE  \E m \in 1 .. pos : file[m].name = n
    BY <1>1
  <2>1. CASE n = d
    BY <1>1, <2>1
  <2>2. CASE n \in DOMAIN table
    <3>1. PICK m \in 1 .. pos - 1 : file[m].name = n
      BY <2>2 DEF DeclaredInv
    <3>. QED
      BY <1>1, <3>1
  <2>. QED
    BY <1>2, <2>1, <2>2
<1>4. ASSUME NEW n, MadeParticipant(n, pos)' PROVE Choreography!resolve(n, "Participant")'
  <2>1. PICK k \in 1 .. pos : /\ n # UnaryIndex
                              /\ file[k].tag = "Participant" /\ file[k].name = n
                              /\ \A m \in 1 .. k - 1 : file[m].name # n
    BY <1>1, <1>4 DEF MadeParticipant
  <2>2. CASE k = pos
    <3>1. n = d /\ n \notin DOMAIN table
      BY <2>1, <2>2 DEF DeclaredInv
    <3>. QED
      BY <1>2, <2>1, <2>2, <3>1 DEF Choreography!resolve
  <2>3. CASE k # pos
    <3>1. MadeParticipant(n, pos)
      BY <1>1, <2>1, <2>3 DEF MadeParticipant
    <3>2. Choreography!resolve(n, "Participant")
      BY <3>1 DEF DeclaredInv
    <3>. QED
      BY <1>2, <3>2 DEF Choreography!resolve
  <2>. QED
    BY <2>2, <2>3
<1>5. \A p : CausedBefore(p) => CausedBefore(p)'
  BY DEF CausedBefore, UndeclaredReceiver, MadeParticipant
<1>6. ASSUME NEW n \in Choreography!Globals', Choreography!NoReceiver(n)'
      PROVE  CausedBefore(pos)
  <2>1. n \in DOMAIN table' /\ table'[n].tag = "Global"
    BY DEF Choreography!Globals
  <2>2. PICK k \in DOMAIN table'[n].body :
          table'[n].body[k].tag = "com" /\ table'[n].body[k].to.name = NoName
    BY <1>6 DEF Choreography!NoReceiver, Choreography!Coms, Choreography!ToSet
  <2>3. CASE n \in DOMAIN table
    <3>1. n \in Choreography!Globals /\ table'[n] = table[n]
      BY <1>2, <2>1, <2>3 DEF Choreography!Globals
    <3>2. Choreography!NoReceiver(n)
      BY <2>2, <3>1 DEF Choreography!NoReceiver, Choreography!Coms, Choreography!ToSet
    <3>3. CausedBefore(pos - 1)
      BY <3>1, <3>2 DEF DeclaredInv
    <3>. QED
      BY <1>1, <3>3, CausedLonger
  <2>4. CASE n \notin DOMAIN table
    <3>1. table'[n] = node
      BY <1>2, <2>1, <2>4
    <3>2. UndeclaredReceiver(pos)
      BY <2>1, <2>2, <3>1
    <3>. QED
      BY <1>1, <3>2 DEF CausedBefore
  <2>. QED
    BY <2>3, <2>4
<1>7. pos' - 1 = pos
  BY <1>1
<1>8. \A n \in Choreography!Globals' : Choreography!NoReceiver(n)' => CausedBefore(pos - 1)'
  <2>1. \A q : q = pos' - 1 /\ CausedBefore(q) => CausedBefore(pos - 1)'
    BY <1>5 DEF CausedBefore, UndeclaredReceiver, MadeParticipant
  <2>. QED
    BY <1>6, <1>7, <2>1
<1>. QED
  BY <1>3, <1>4, <1>8 DEF DeclaredInv

(* A receiver that the table does not make a participant is none. *)
LEMMA NotResolved ==
  ASSUME DeclaredInv, pos \in DOMAIN file, file[pos].tag = "Global",
         NEW i \in DOMAIN file[pos].body, file[pos].body[i].tag = "com",
         ~Choreography!resolve(file[pos].body[i].to.name, "Participant")
  PROVE  UndeclaredReceiver(pos)
<1>1. ~MadeParticipant(file[pos].body[i].to.name, pos)
  BY DEF DeclaredInv
<1>. QED
  BY <1>1 DEF UndeclaredReceiver

LEMMA BodyDeclared ==
  ASSUME TreeInv, DeclaredInv, pos \in DOMAIN file, file[pos].tag = "Global",
         NEW i \in DOMAIN file[pos].body,
         Choreography!Linked(file[pos].body[i]).tag = "com",
         Choreography!Linked(file[pos].body[i]).to.name = NoName
  PROVE  UndeclaredReceiver(pos)
<1>. DEFINE it == file[pos].body[i]
<1>1. it.tag = "com"
  BY DEF Choreography!Linked
<1>2. ~Choreography!resolve(it.to.name, "Participant")
  <2>1. CASE Choreography!resolve(it.to.name, "Participant")
    <3>1. it.to.name = NoName
      BY <2>1 DEF Choreography!Linked
    <3>2. NoName \in DOMAIN table
      BY <2>1, <3>1 DEF Choreography!resolve
    <3>3. NoName \notin Name
      BY AnalyzerAssumption DEF Choreography!ParserAssumption
    <3>. QED
      BY <3>2, <3>3, KeysFacts
  <2>. QED
    BY <2>1
<1>. QED
  BY <1>1, <1>2, NotResolved

(* The first item that is refused, when one is. *)
LEMMA FirstBadIs ==
  ASSUME NEW body \in Choreography!Body, Choreography!Bad(body) # {}
  PROVE  \E i \in DOMAIN body : Choreography!FirstBad(body) = body[i]
<1>1. Choreography!Bad(body) \subseteq DOMAIN body /\ DOMAIN body \subseteq Nat
  BY DEF Choreography!Bad, Choreography!Body
<1>2. \E i \in Choreography!Bad(body) : \A j \in Choreography!Bad(body) : i <= j
  BY <1>1, Least
<1>. DEFINE first == CHOOSE i \in Choreography!Bad(body) : \A j \in Choreography!Bad(body) : i <= j
<1>3. first \in Choreography!Bad(body)
  BY <1>2
<1>4. Choreography!FirstBad(body) = body[first]
  BY DEF Choreography!FirstBad
<1>. QED
  BY <1>1, <1>3, <1>4

(* The parser's steps. *)
LEMMA ParseCrash ==
  ASSUME TreeInv, DeclaredInv, ParserCrashInv, Choreography!Next
  PROVE  DeclaredInv' /\ ParserCrashInv' /\ outcome = "running"
<1>1. ASSUME NEW tag, Choreography!At(tag)
      PROVE  /\ pos \in DOMAIN file /\ Choreography!Here = file[pos]
             /\ Choreography!Here \in Choreography!Declaration
             /\ Choreography!Here.tag = tag /\ outcome = "running"
  <2>1. pos \in DOMAIN file
    BY <1>1 DEF Choreography!At, Choreography!AtEnd, TreeInv
  <2>. QED
    BY <1>1, <2>1 DEF Choreography!At, TreeInv, Choreography!Here
<1>2. CASE Choreography!parseIndexDecl
  <2>1. /\ Choreography!At("Index")
        /\ Choreography!addDeclaration(file[pos].name, [tag |-> "Index"])
        /\ pos' = pos + 1 /\ file' = file /\ outcome' = outcome
    BY <1>2 DEF Choreography!parseIndexDecl, Choreography!Here
  <2>2. file[pos].tag = "Index" /\ pos \in DOMAIN file /\ outcome = "running"
    BY <1>1, <2>1
  <2>3. DeclaredInv'
    BY <2>1, <2>2, DeclaredKeeps
  <2>. QED
    BY <2>1, <2>2, <2>3 DEF ParserCrashInv
<1>3. ASSUME NEW tag \in {"Participant", "Channel"}, Choreography!parseIndexed(tag)
      PROVE  DeclaredInv' /\ ParserCrashInv' /\ outcome = "running"
  <2>. DEFINE node == [tag |-> tag, index |-> Choreography!IndexOf(Choreography!Here.index)]
  <2>1. /\ Choreography!At(tag)
        /\ Choreography!addDeclaration(file[pos].name, node)
        /\ pos' = pos + 1 /\ file' = file /\ outcome' = outcome
    BY <1>3 DEF Choreography!parseIndexed, Choreography!Here
  <2>2. file[pos].tag = tag /\ pos \in DOMAIN file /\ outcome = "running"
    BY <1>1, <2>1
  <2>3. node.tag = tag
    OBVIOUS
  <2>. HIDE DEF node
  <2>4. DeclaredInv'
    BY <2>1, <2>2, <2>3, DeclaredKeeps
  <2>. QED
    BY <2>1, <2>2, <2>4 DEF ParserCrashInv
<1>4. CASE Choreography!parseGlobalTypeDecl
  <2>. DEFINE body == file[pos].body
              node == [tag |-> "Global", body |-> Choreography!parseExpressionList(body)]
  <2>1. /\ Choreography!At("Global")
        /\ Choreography!addDeclaration(file[pos].name, node)
        /\ pos' = pos + 1 /\ file' = file /\ outcome' = outcome
    BY <1>4 DEF Choreography!parseGlobalTypeDecl, Choreography!Here
  <2>2. file[pos].tag = "Global" /\ pos \in DOMAIN file /\ outcome = "running"
    BY <1>1, <2>1
  <2>3. /\ node.tag = "Global" /\ DOMAIN node.body = DOMAIN body
        /\ \A i \in DOMAIN body : node.body[i] = Choreography!Linked(body[i])
    BY DEF Choreography!parseExpressionList
  <2>. HIDE DEF node
  <2>4. \A i \in DOMAIN node.body :
          node.body[i].tag = "com" /\ node.body[i].to.name = NoName => UndeclaredReceiver(pos)
    BY <2>2, <2>3, BodyDeclared
  <2>5. DeclaredInv'
    BY <2>1, <2>2, <2>4, DeclaredKeeps
  <2>. QED
    BY <2>1, <2>2, <2>5 DEF ParserCrashInv
<1>5. ASSUME NEW how, Choreography!Stop(how),
             how = "crashed" => CausedBefore(pos) \/ Choreography!CutAfterName
      PROVE  DeclaredInv' /\ ParserCrashInv'
  <2>1. UNCHANGED <<file, pos, keys, table>> /\ outcome' = how
    BY <1>5 DEF Choreography!Stop
  <2>2. DeclaredInv'
    BY <2>1
    DEF DeclaredInv, MadeParticipant, Choreography!resolve, Choreography!Globals, CausedBefore,
        UndeclaredReceiver, Choreography!NoReceiver, Choreography!Coms
  <2>3. CausedBefore(pos) => CausedBefore(pos)'
    BY <2>1 DEF CausedBefore, UndeclaredReceiver, MadeParticipant
  <2>4. Choreography!CutAfterName => Choreography!CutAfterName'
    BY <2>1 DEF Choreography!CutAfterName, Choreography!Here, Choreography!TokensTo
  <2>. QED
    BY <1>5, <2>1, <2>2, <2>3, <2>4 DEF ParserCrashInv
<1>6. CASE Choreography!CutShort
  BY <1>5, <1>6 DEF Choreography!CutShort
<1>7. CASE Choreography!ThrowDeclaration \/ Choreography!ThrowBody
  BY <1>1, <1>5, <1>7 DEF Choreography!ThrowDeclaration, Choreography!ThrowBody
<1>8. CASE Choreography!Finish
  BY <1>5, <1>8 DEF Choreography!Finish
<1>9. CASE Choreography!DereferenceNull
  <2>. DEFINE body == file[pos].body
              it == Choreography!FirstBad(body)
  <2>1. /\ Choreography!At("Global") /\ Choreography!Stop("crashed")
        /\ Choreography!Bad(body) # {} /\ Choreography!Dereferences(it)
    BY <1>9 DEF Choreography!DereferenceNull, Choreography!Here
  <2>2. /\ file[pos].tag = "Global" /\ pos \in DOMAIN file /\ outcome = "running"
        /\ file[pos] \in Choreography!Declaration
    BY <1>1, <2>1
  <2>3. body \in Choreography!Body
    BY <2>2 DEF Choreography!Declaration
  <2>4. PICK i \in DOMAIN body : it = body[i]
    BY <2>1, <2>3, FirstBadIs
  <2>5. CausedBefore(pos)
    <3>1. CASE it.tag = "com"
      <4>1. ~Choreography!resolve(it.to.name, "Participant")
        BY <2>1, <3>1 DEF Choreography!Dereferences
      <4>2. UndeclaredReceiver(pos)
        BY <2>2, <2>4, <3>1, <4>1, NotResolved
      <4>. QED
        BY <2>2, <4>2 DEF CausedBefore, TreeInv
    <3>2. CASE it.tag # "com"
      BY <2>1, <3>2, NullHasCause DEF Choreography!Dereferences
    <3>. QED
      BY <3>1, <3>2
  <2>. QED
    BY <1>5, <2>1, <2>2, <2>5
<1>. QED
  BY <1>2, <1>3, <1>4, <1>6, <1>7, <1>8, <1>9
  DEF Choreography!Next, Choreography!parseParticipantDecl, Choreography!parseChannelDecl,
      Choreography!CutShort, Choreography!ThrowDeclaration, Choreography!ThrowBody,
      Choreography!Finish, Choreography!At

(* A participant the visit has passed is mapped. *)
LEMMA MapKeepsMapped ==
  ASSUME TreeInv, WalkInv, ParticipantsMapped, Mapping!Next
  PROVE  ParticipantsMapped'
<1>1. DOMAIN keys = 1 .. Len(keys) /\ Len(keys) \in Nat /\ itr \in Nat
  BY KeysFacts DEF WalkInv
<1>2. keys' = keys /\ table' = table
  BY DEF Mapping!Next, Mapping!VisitParticipant, Mapping!NoClass, Mapping!VisitNothing,
         Mapping!VisitGlobalType, Mapping!VisitCom, Mapping!NoDeclaration,
         Mapping!DereferenceNull, Mapping!VisitRef, Mapping!VisitForEach,
         Mapping!LeaveList, Mapping!Finish, Mapping!Stop
<1>3. DOMAIN map \subseteq DOMAIN map'
  BY DEF Mapping!Next, Mapping!VisitParticipant, Mapping!NoClass, Mapping!VisitNothing,
         Mapping!VisitGlobalType, Mapping!VisitCom, Mapping!NoDeclaration,
         Mapping!DereferenceNull, Mapping!VisitRef, Mapping!VisitForEach,
         Mapping!LeaveList, Mapping!Finish, Mapping!Stop, Mapping!addMapping, Mapping!Typed
<1>4. CASE itr' = itr
  BY <1>1, <1>2, <1>3, <1>4 DEF ParticipantsMapped
<1>5. CASE Mapping!VisitParticipant
  <2>1. itr' = itr + 1 /\ keys[itr] \in DOMAIN map'
    BY <1>5 DEF Mapping!VisitParticipant, Mapping!addMapping
  <2>2. \A j \in DOMAIN keys : j < itr' => j < itr \/ j = itr
    BY <1>1, <2>1
  <2>. QED
    BY <1>2, <1>3, <2>1, <2>2 DEF ParticipantsMapped
<1>6. CASE Mapping!VisitNothing \/ Mapping!VisitGlobalType
  <2>1. itr' = itr + 1 /\ table[keys[itr]].tag # "Participant"
    BY <1>6 DEF Mapping!VisitNothing, Mapping!VisitGlobalType, Mapping!Node
  <2>2. \A j \in DOMAIN keys : j < itr' => j < itr \/ j = itr
    BY <1>1, <2>1
  <2>. QED
    BY <1>2, <1>3, <2>1, <2>2 DEF ParticipantsMapped
<1>. QED
  BY <1>4, <1>5, <1>6
  DEF Mapping!Next, Mapping!NoClass, Mapping!VisitCom, Mapping!NoDeclaration,
      Mapping!DereferenceNull, Mapping!VisitRef, Mapping!VisitForEach,
      Mapping!LeaveList, Mapping!Finish, Mapping!Stop

LEMMA ParticipantsInvariant == Spec => []ParticipantsMapped
<1>1. TreeInv /\ MapInv /\ Init => ParticipantsMapped
  <2>. SUFFICES ASSUME TreeInv, Init PROVE ParticipantsMapped
    OBVIOUS
  <2>1. itr = 1 /\ DOMAIN keys = 1 .. Len(keys)
    BY KeysFacts DEF Init, Mapping!Init
  <2>. QED
    BY <2>1, KeysFacts DEF ParticipantsMapped
<1>2. TreeInv /\ TreeInv' /\ MapInv /\ ParticipantsMapped /\ [Next \/ Done]_vars
        => ParticipantsMapped'
  <2>. SUFFICES ASSUME TreeInv, TreeInv', MapInv, ParticipantsMapped, [Next \/ Done]_vars
                PROVE  ParticipantsMapped'
    OBVIOUS
  <2>1. CASE Parse
    <3>1. itr' = 1
      BY <2>1 DEF Parse, MapInv, PhaseInv, Untouched, castVars
    <3>2. DOMAIN keys' = 1 .. Len(keys')
      <4>1. (TreeInv => DOMAIN keys = 1 .. Len(keys))'
        BY KeysFacts, PTL
      <4>. QED
        BY <4>1
    <3>. QED
      BY <3>1, <3>2 DEF ParticipantsMapped, TreeInv
  <2>2. CASE Map
    BY <2>2, MapKeepsMapped DEF Map, MapInv
  <2>3. CASE UNCHANGED <<keys, table, itr, map>>
    BY <2>3 DEF ParticipantsMapped
  <2>. QED
    BY <2>1, <2>2, <2>3
    DEF Next, Done, vars, ParseArgs, HandleTranslationUnit, AfterMapping, Project, Validate,
        parserVars, castVars
<1>. QED
  BY <1>1, <1>2, MapInvariant, PTL DEF Spec

(* The visitor crashes only at a null receiver: every sender is mapped. *)
LEMMA MapCrash ==
  ASSUME TreeInv, BodiesFit, WalkInv, DeclaredInv, ParticipantsMapped, Mapping!DereferenceNull
  PROVE  CausedBefore(pos)
<1>. DEFINE it == Mapping!Here
<1>1. Mapping!Walking /\ ~Mapping!AtEnd /\ it.tag = "com" /\ ~Mapping!Mapped(it)
  BY DEF Mapping!DereferenceNull, Mapping!At
<1>2. PICK g \in Mapping!Globals : \E k \in DOMAIN table[g].body :
        it = table[g].body[k] /\ BodyFits(table[g].body)
  BY <1>1, Standing
<1>3. Choreography!resolve(it.from.name, "Participant") /\ Receiver(it.to)
  BY <1>1, <1>2, ItemRefers DEF BodyFits
<1>4. ASSUME NEW n, Choreography!resolve(n, "Participant")
      PROVE  n \in DOMAIN Mapping!Typed(it)
  <2>1. PICK j \in 1 .. Len(keys) : keys[j] = n
    BY <1>4 DEF TreeInv, Choreography!RefersBackwards, Choreography!Listed, Choreography!resolve
  <2>2. j \in DOMAIN keys /\ j < itr
    BY <1>1, <2>1, KeysFacts DEF WalkInv, Mapping!Walking
  <2>3. n \in DOMAIN map
    BY <1>4, <2>1, <2>2 DEF ParticipantsMapped, Choreography!resolve
  <2>. QED
    BY <2>3 DEF Mapping!Typed, Mapping!addMapping
<1>5. it.to.name = NoName
  BY <1>1, <1>3, <1>4 DEF Mapping!Mapped, Receiver
<1>6. g \in Choreography!Globals /\ Choreography!NoReceiver(g)
  <2>1. it \in Choreography!Coms(g)
    BY <1>1, <1>2 DEF Choreography!Coms, Choreography!ToSet
  <2>. QED
    BY <1>2, <1>5, <2>1 DEF Choreography!NoReceiver, Choreography!Globals, Mapping!Globals
<1>7. CausedBefore(pos - 1)
  BY <1>6 DEF DeclaredInv
<1>. QED
  BY <1>7, CausedLonger DEF TreeInv, CausedBefore

(* What the file says stays as it is once the parser is through. *)
LEMMA CauseStays ==
  ASSUME DeclaredInv, ParserCrashInv, UNCHANGED parserVars
  PROVE  /\ DeclaredInv' /\ ParserCrashInv'
         /\ CausedBefore(pos) => CausedBefore(pos)'
         /\ Choreography!CutAfterName => Choreography!CutAfterName'
<1>1. UNCHANGED <<file, pos, keys, table, outcome>>
  BY DEF parserVars
<1>2. DeclaredInv'
  BY <1>1
  DEF DeclaredInv, MadeParticipant, Choreography!resolve, Choreography!Globals, CausedBefore,
      UndeclaredReceiver, Choreography!NoReceiver, Choreography!Coms
<1>3. CausedBefore(pos) => CausedBefore(pos)'
  BY <1>1 DEF CausedBefore, UndeclaredReceiver, MadeParticipant
<1>4. Choreography!CutAfterName => Choreography!CutAfterName'
  BY <1>1 DEF Choreography!CutAfterName, Choreography!Here, Choreography!TokensTo
<1>. QED
  BY <1>1, <1>2, <1>3, <1>4 DEF ParserCrashInv

LEMMA CrashStep ==
  ASSUME EndInv, TreeInv, MapInv, ParticipantsMapped, CrashInv, [Next \/ Done]_vars
  PROVE  CrashInv'
<1>. USE DEF CrashInv
<1>1. CASE Parse
  <2>1. DeclaredInv' /\ ParserCrashInv'
    BY <1>1, ParseCrash DEF Parse
  <2>2. mapped' = "running" /\ phase' = "parse"
    BY <1>1 DEF Parse, MapInv, PhaseInv, Untouched, castVars
  <2>. QED
    BY <2>1, <2>2 DEF LaterCrashInv
<1>2. ASSUME UNCHANGED parserVars,
             mapped' = "crashed" => CausedBefore(pos),
             phase' = "crash" /\ mapped' # "done" =>
               CausedBefore(pos) \/ (outcome = "crashed" /\ Choreography!CutAfterName)
      PROVE  CrashInv'
  <2>1. /\ DeclaredInv' /\ ParserCrashInv'
        /\ CausedBefore(pos) => CausedBefore(pos)'
        /\ Choreography!CutAfterName => Choreography!CutAfterName'
        /\ outcome' = outcome
    BY <1>2, CauseStays DEF parserVars
  <2>. QED
    BY <1>2, <2>1 DEF LaterCrashInv
<1>3. CASE Map
  <2>1. UNCHANGED parserVars /\ Mapping!Next /\ phase = "map" /\ phase' = phase
    <3>1. UNCHANGED <<keys, table>>
      BY <1>3, MapStep DEF Map, MapInv, PhaseInv
    <3>. QED
      BY <1>3, <3>1 DEF Map, parserVars
  <2>2. CASE Mapping!DereferenceNull
    BY <1>2, <2>1, <2>2, MapCrash DEF MapInv
  <2>3. CASE ~Mapping!DereferenceNull
    <3>1. mapped' # "crashed" \/ mapped' = mapped
      BY <2>1, <2>3
      DEF Mapping!Next, Mapping!Stop, Mapping!VisitParticipant, Mapping!NoClass,
          Mapping!VisitNothing, Mapping!VisitGlobalType, Mapping!VisitCom,
          Mapping!NoDeclaration, Mapping!VisitRef, Mapping!VisitForEach, Mapping!LeaveList,
          Mapping!Finish
    <3>. QED
      BY <1>2, <2>1, <3>1 DEF LaterCrashInv
  <2>. QED
    BY <2>2, <2>3
<1>4. CASE ParseArgs
  <2>1. /\ UNCHANGED parserVars /\ mapped' = mapped
        /\ phase' = "crash" => outcome = "crashed" \/ NullReceivers
    BY <1>4 DEF ParseArgs, castVars, EndInv, Ends
  <2>2. NullReceivers => CausedBefore(pos)
    <3>1. NullReceivers => CausedBefore(pos - 1)
      BY DEF NullReceivers, DeclaredInv
    <3>. QED
      BY <3>1, CausedLonger DEF TreeInv, CausedBefore
  <2>. QED
    BY <1>2, <2>1, <2>2 DEF ParserCrashInv, LaterCrashInv
<1>5. CASE AfterMapping
  <2>1. /\ UNCHANGED parserVars /\ mapped' = mapped
        /\ phase' = "crash" => mapped = "crashed"
    BY <1>5 DEF AfterMapping, castVars, EndInv, Ends
  <2>. QED
    BY <1>2, <2>1 DEF LaterCrashInv
<1>6. CASE Project
  <2>1. /\ UNCHANGED parserVars /\ mapped' = mapped
        /\ phase' = "crash" => Choreography!ReachesNull(Last(keys))
    BY <1>6 DEF Project, castVars
  <2>. QED
    BY <1>2, <2>1, NullHasCause DEF LaterCrashInv
<1>7. CASE Validate
  <2>1. UNCHANGED parserVars /\ mapped' = mapped /\ mapped = "done"
    BY <1>7 DEF Validate, castVars, MapInv, PhaseInv
  <2>. QED
    BY <1>2, <2>1 DEF LaterCrashInv
<1>8. CASE HandleTranslationUnit
  <2>1. UNCHANGED parserVars /\ mapped' = mapped /\ phase' # "crash"
    BY <1>8 DEF HandleTranslationUnit, castVars
  <2>. QED
    BY <1>2, <2>1 DEF LaterCrashInv
<1>9. CASE UNCHANGED vars
  <2>1. UNCHANGED parserVars /\ mapped' = mapped /\ phase' = phase
    BY <1>9 DEF vars, parserVars
  <2>. QED
    BY <1>2, <2>1 DEF LaterCrashInv
<1>. QED
  BY <1>1, <1>3, <1>4, <1>5, <1>6, <1>7, <1>8, <1>9 DEF Next, Done

(***************************************************************************)
(* Before the validation every crash has its cause in the file, whichever  *)
(* of its visitors meets the null pointer: a global type whose receiver no *)
(* declaration before it makes a participant, or a file cut after the name *)
(* of a global type.  A choreography in which every receiver is declared   *)
(* does not crash the plugin.                                              *)
(***************************************************************************)
THEOREM CrashesHaveCause == Spec => []CrashOnlyForCause
<1>1. Init => CrashInv
  <2>. SUFFICES ASSUME Init PROVE CrashInv
    OBVIOUS
  <2>1. /\ pos = 1 /\ DOMAIN table = {UnaryIndex} /\ table[UnaryIndex].tag = "Index"
        /\ outcome = "running" /\ mapped = "running" /\ phase = "parse"
    BY DEF Init, Choreography!Init, Mapping!Init
  <2>2. Choreography!Globals = {} /\ \A n : ~MadeParticipant(n, pos)
    BY <2>1 DEF Choreography!Globals, MadeParticipant
  <2>. QED
    BY <2>1, <2>2 DEF CrashInv, DeclaredInv, ParserCrashInv, LaterCrashInv
<1>2. EndInv /\ TreeInv /\ MapInv /\ ParticipantsMapped /\ CrashInv /\ [Next \/ Done]_vars
        => CrashInv'
  BY CrashStep
<1>3. CrashInv => CrashOnlyForCause
  BY DEF CrashInv, ParserCrashInv, LaterCrashInv, CrashOnlyForCause, CausedBefore
<1>. QED
  BY <1>1, <1>2, <1>3, MapInvariant, EndInvariant, ParticipantsInvariant, PTL DEF Spec
=============================================================================
