---------------------------- MODULE CASTMapping ----------------------------
(***************************************************************************)
(* The mapping from the names of a choreography to declarations of the C++ *)
(* code: CAST_PchorASTVisitor (src/src/analyzer/visitors/AstVisitor.cpp,   *)
(* 7-110) and CASTMapping (src/src/analyzer/utils/ContextManager.hpp).     *)
(*                                                                         *)
(* The visitor takes the declarations in order, then the body of the last  *)
(* global type; the lists named in it are visited where they are named.    *)
(***************************************************************************)
EXTENDS Naturals, Sequences, SequencesExt

CONSTANTS
  Name,      \* see Parser
  NoName,    \* a null pointer to a participant
  Code       \* the C++ classes: functions from class names to their fields

VARIABLES
  keys, table,  \* the symbol table; never changes here
  fields,       \* for every class with a constructor, its fields' data types
  itr,          \* the declaration to visit
  walk,         \* the lists being visited and where, the innermost one last
  map,          \* the CASTMapping
  mapped        \* "running", "done", "failed" (an exception), "crashed"

castVars == <<fields, itr, walk, map, mapped>>

(***************************************************************************)
(* A field is known by the data type it holds: itself, pointed to, or as   *)
(* the first argument of a template.                                       *)
(***************************************************************************)
CodeAssumption == \A c \in Code : DOMAIN c \subseteq Name /\ c \in [DOMAIN c -> Seq(Name)]

Record(n) == [kind |-> "record", name |-> n]
Field(n, i) == [kind |-> "field", name |-> n, nth |-> i]

(* AnalyzerUtils::findDecl and findMatchingMember, from clang's matchers. *)
findDecl(n) == n \in DOMAIN fields

Matches(c, type) == {i \in DOMAIN fields[c] : fields[c][i] = type}
findMatchingMember(c, type) ==
  Field(c, CHOOSE i \in Matches(c, type) : \A j \in Matches(c, type) : i <= j)

(***************************************************************************)
(* addMapping: emplace, so that the first mapping of a name stays.         *)
(***************************************************************************)
addMapping(m, n, d) == [x \in DOMAIN m \cup {n} |-> IF x \in DOMAIN m THEN m[x] ELSE d]

Init ==
  /\ fields \in Code
  /\ itr = 1
  /\ walk = << >>
  /\ map = [n \in {} |-> Record(n)]
  /\ mapped = "running"

----------------------------------------------------------------------------
Node == table[keys[itr]]
IsLast == itr = Len(keys)

(* The list being visited, and the item the visit stands at. *)
Body == table[Last(walk)[1]].body
AtEnd == Last(walk)[2] > Len(Body)
Here == Body[Last(walk)[2]]

Declaring == mapped = "running" /\ walk = << >> /\ itr <= Len(keys)
Walking == mapped = "running" /\ walk # << >>
At(tag) == Walking /\ ~AtEnd /\ Here.tag = tag

Advanced == [walk EXCEPT ![Len(walk)][2] = @ + 1]

Stop(how) ==
  /\ mapped' = how
  /\ UNCHANGED <<keys, table, fields, itr, walk, map>>

(***************************************************************************)
(* Declarations, in the order of the keys, repeated names included.        *)
(***************************************************************************)
VisitUnmapped ==   \* slip: the class looked for, but not kept
  /\ Declaring
  /\ Node.tag = "Participant"
  /\ findDecl(keys[itr])
  /\ itr' = itr + 1
  /\ UNCHANGED <<keys, table, fields, walk, map, mapped>>

VisitParticipant ==
  /\ Declaring
  /\ Node.tag = "Participant"
  /\ findDecl(keys[itr])
  /\ map' = addMapping(map, keys[itr], Record(keys[itr]))
  /\ itr' = itr + 1
  /\ UNCHANGED <<keys, table, fields, walk, mapped>>

NoClass ==
  /\ Declaring
  /\ Node.tag = "Participant"
  /\ ~findDecl(keys[itr])
  /\ Stop("failed")

(* Indices and channels need nothing; only the last global type is visited. *)
VisitNothing ==
  /\ Declaring
  /\ Node.tag \in {"Index", "Channel"} \/ (Node.tag = "Global" /\ ~IsLast)
  /\ itr' = itr + 1
  /\ UNCHANGED <<keys, table, fields, walk, map, mapped>>

VisitGlobalType ==
  /\ Declaring
  /\ Node.tag = "Global"
  /\ IsLast
  /\ walk' = <<<<keys[itr], 1>>>>
  /\ itr' = itr + 1
  /\ UNCHANGED <<keys, table, fields, map, mapped>>

(***************************************************************************)
(* visit(CommunicationExpr) and visit(ChannelExpr).  The data type comes   *)
(* first.  The channel is the first field of the receiver's class that     *)
(* holds it, or else of the sender's.                                      *)
(***************************************************************************)
Typed(it) == addMapping(map, it.type, Record(it.type))

Mapped(it) == {it.from.name, it.to.name} \subseteq DOMAIN Typed(it)

HasMember(d, type) == d.kind = "record" /\ Matches(d.name, type) # {}

SenderFirst(it) ==   \* slip: the sender's class searched before the receiver's
  IF HasMember(Typed(it)[it.from.name], it.type) THEN it.from.name ELSE it.to.name

Owner(it) ==
  IF HasMember(Typed(it)[it.to.name], it.type) THEN it.to.name ELSE it.from.name

VisitCom ==
  /\ At("com")
  /\ findDecl(Here.type)
  /\ Mapped(Here)
  /\ HasMember(Typed(Here)[Owner(Here)], Here.type)
  /\ map' = addMapping(Typed(Here), Here.on.name,
                       findMatchingMember(Typed(Here)[Owner(Here)].name, Here.type))
  /\ walk' = Advanced
  /\ UNCHANGED <<keys, table, fields, itr, mapped>>

NoDeclaration ==
  /\ At("com")
  /\ \/ ~findDecl(Here.type)
     \/ Mapped(Here) /\ ~HasMember(Typed(Here)[Owner(Here)], Here.type)
  /\ Stop("failed")

(* The receiver is a null pointer, or one of the two is not mapped. *)
DereferenceNull ==
  /\ At("com")
  /\ findDecl(Here.type)
  /\ ~Mapped(Here)
  /\ Stop("crashed")

(***************************************************************************)
(* visit(ExprList), for a global type named in the list.  An iteration is  *)
(* its body, visited once.                                                 *)
(***************************************************************************)
RefSkipped ==   \* slip: the lists named in a list are passed over
  /\ At("ref")
  /\ walk' = Advanced
  /\ UNCHANGED <<keys, table, fields, itr, map, mapped>>

VisitRef ==
  /\ At("ref")
  /\ walk' = Append(Advanced, <<Here.name, 1>>)
  /\ UNCHANGED <<keys, table, fields, itr, map, mapped>>

VisitForEach ==
  /\ At("open") \/ At("close")
  /\ walk' = Advanced
  /\ UNCHANGED <<keys, table, fields, itr, map, mapped>>

LeaveList ==
  /\ Walking
  /\ AtEnd
  /\ walk' = Front(walk)
  /\ UNCHANGED <<keys, table, fields, itr, map, mapped>>

Finish ==
  /\ mapped = "running"
  /\ walk = << >>
  /\ itr > Len(keys)
  /\ Stop("done")

Next ==
  \/ VisitParticipant
  \/ NoClass
  \/ VisitNothing
  \/ VisitGlobalType
  \/ VisitCom
  \/ NoDeclaration
  \/ DereferenceNull
  \/ VisitRef
  \/ VisitForEach
  \/ LeaveList
  \/ Finish

----------------------------------------------------------------------------
(* What the visitor keeps has its type. *)
TypeOK ==
  /\ fields \in Code
  /\ itr \in Nat \ {0}
  /\ walk \in Seq(Name \X (Nat \ {0}))
  /\ DOMAIN map \subseteq Name
  /\ \A n \in DOMAIN map :
       \/ map[n].kind = "record" /\ map[n] = Record(n) /\ n \in DOMAIN fields
       \/ /\ map[n].kind = "field" /\ map[n].name \in DOMAIN fields
          /\ map[n].nth \in DOMAIN fields[map[n].name]
  /\ mapped \in {"running", "done", "failed", "crashed"}

Coms(n) == {it \in ToSet(table[n].body) : it.tag = "com"}
Refs(n) == {it.name : it \in {r \in ToSet(table[n].body) : r.tag = "ref"}}
Globals == {n \in DOMAIN table : table[n].tag = "Global"}
AllComs == UNION {Coms(n) : n \in Globals}

(***************************************************************************)
(* When the visit is done, every name the projection can put into a local  *)
(* type, and every participant it can list, is mapped: the validator never *)
(* throws "Failed to Retrieve data from CASTmap"                           *)
(* (PchorProjection.cpp:27-30), and a participant is always a record       *)
(* (CASTValidator.cpp:62-68).  The projection may unroll a type many times *)
(* or skip parts of it; this visitor goes through each once.               *)
(***************************************************************************)
NamesMapped ==
  mapped = "done" =>
    \E S \in SUBSET Globals :
      /\ Last(keys) \in S
      /\ \A g \in S : Refs(g) \subseteq S
      /\ \A g \in S : \A c \in Coms(g) :
           /\ {c.from.name, c.to.name, c.on.name, c.type} \subseteq DOMAIN map
           /\ map[c.from.name].kind = "record" /\ map[c.to.name].kind = "record"

(***************************************************************************)
(* A field stands for a channel only because of a communication on that    *)
(* channel whose data type it holds: the first such field of the           *)
(* receiver's class, and of the sender's only if the receiver's has none   *)
(* (AstVisitor.cpp:71-79).  And a channel without a field is one that a    *)
(* data type of the same name has taken the place of.                      *)
(***************************************************************************)
FitsCom(f, c) ==
  /\ c.to.name # NoName
  /\ LET owner == IF Matches(c.to.name, c.type) # {} THEN c.to.name ELSE c.from.name
     IN  /\ f.name = owner
         /\ f.nth \in Matches(owner, c.type)
         /\ \A i \in Matches(owner, c.type) : f.nth <= i

ChannelFitsCom ==
  \A n \in DOMAIN map :
    /\ map[n].kind = "field" => \E c \in AllComs : c.on.name = n /\ FitsCom(map[n], c)
    /\ map[n].kind = "record" /\ n \in DOMAIN table /\ table[n].tag = "Channel" => \E c \in AllComs : c.type = n
=============================================================================
