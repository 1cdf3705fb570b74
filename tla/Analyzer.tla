------------------------------ MODULE Analyzer ------------------------------
(***************************************************************************)
(* The plugin: ParseArgs parses the choreography, and when clang has the   *)
(* syntax tree of the C++ code, HandleTranslationUnit maps the names,      *)
(* projects the last global type and validates the classes                 *)
(* (src/src/analyzer/Plugin.cpp).                                          *)
(*                                                                         *)
(* Parser and CASTMapping are composed here; the projection and the        *)
(* validation, which have modules of their own (Projection,                *)
(* CASTValidator), are one step each, with the ends those modules show.    *)
(***************************************************************************)
EXTENDS Naturals, Sequences, SequencesExt

CONSTANTS
  Name, UnaryIndex, NoName, Files, MaxTokens,  \* see Parser
  Code                                         \* see CASTMapping

VARIABLES
  file, pos, keys, table, outcome,     \* the parser
  fields, itr, walk, map, mapped,      \* the mapping visitor
  onlyproj,                            \* the argument --projection
  phase                                \* how far the plugin is

parserVars == <<file, pos, keys, table, outcome>>
castVars == <<fields, itr, walk, map, mapped>>
vars == <<file, pos, keys, table, outcome, fields, itr, walk, map, mapped, onlyproj, phase>>

Choreography == INSTANCE Parser
Mapping == INSTANCE CASTMapping

ASSUME AnalyzerAssumption == Choreography!ParserAssumption /\ Mapping!CodeAssumption

Phase == {"parse", "handle", "map", "project", "validate",
          "off", "error", "crash", "printed", "reported"}

Ended == {"off", "error", "crash", "printed", "reported"}

Init ==
  /\ Choreography!Init
  /\ Mapping!Init
  /\ onlyproj \in BOOLEAN
  /\ phase = "parse"

----------------------------------------------------------------------------
(* One declaration of the file. *)
Parse ==
  /\ phase = "parse"
  /\ Choreography!Next
  /\ UNCHANGED <<castVars, onlyproj, phase>>

(***************************************************************************)
(* With a file it cannot parse the plugin takes no part in the             *)
(* compilation.  With --debug the tree is printed, null pointers included. *)
(***************************************************************************)
NullReceivers == \E n \in Choreography!Globals : Choreography!NoReceiver(n)

ParseArgs == \E debug \in BOOLEAN :
  /\ phase = "parse"
  /\ outcome # "running"
  /\ phase' = CASE outcome = "parsed"  -> IF debug /\ NullReceivers THEN "crash" ELSE "handle"
                [] outcome = "failed"  -> "off"
                [] outcome = "crashed" -> "crash"
  /\ UNCHANGED <<parserVars, castVars, onlyproj>>

(***************************************************************************)
(* The last key must be that of a global type.                             *)
(***************************************************************************)
HandleTranslationUnit ==
  /\ phase = "handle"
  /\ phase' = IF table[Last(keys)].tag # "Global" THEN "error"
              ELSE IF onlyproj THEN "project" ELSE "map"
  /\ UNCHANGED <<parserVars, castVars, onlyproj>>

(* One visit of the mapping visitor. *)
Map ==
  /\ phase = "map"
  /\ Mapping!Next
  /\ UNCHANGED <<file, pos, outcome, onlyproj, phase>>

AfterSuccess ==   \* slip: an exception of the mapping is lost
  /\ phase = "map"
  /\ mapped = "done"
  /\ phase' = "project"
  /\ UNCHANGED <<parserVars, castVars, onlyproj>>

AfterMapping ==
  /\ phase = "map"
  /\ mapped # "running"
  /\ phase' = CASE mapped = "done"    -> "project"
                [] mapped = "failed"  -> "error"
                [] mapped = "crashed" -> "crash"
  /\ UNCHANGED <<parserVars, castVars, onlyproj>>

(***************************************************************************)
(* The projection ends, or throws.  A receiver that is a null pointer      *)
(* ends the process, unless an exception, or an iteration passed over,     *)
(* keeps the visitor from it.                                              *)
(***************************************************************************)
Project ==
  /\ phase = "project"
  /\ \/ phase' = "error"
     \/ phase' = IF onlyproj THEN "printed" ELSE "validate"
     \/ Choreography!ReachesNull(Last(keys)) /\ phase' = "crash"
  /\ UNCHANGED <<parserVars, castVars, onlyproj>>

(* See CASTValidator: it ends with a report, an exception or not at all. *)
Validate ==
  /\ phase = "validate"
  /\ phase' \in {"reported", "error", "crash"}
  /\ UNCHANGED <<parserVars, castVars, onlyproj>>

Next ==
  \/ Parse
  \/ ParseArgs
  \/ HandleTranslationUnit
  \/ Map
  \/ AfterMapping
  \/ Project
  \/ Validate

(***************************************************************************)
(* Clang calls the plugin in one thread, which runs until it is through.   *)
(***************************************************************************)
Done == phase \in Ended /\ UNCHANGED vars

Spec == Init /\ [][Next \/ Done]_vars
FairSpec == Spec /\ WF_vars(Next)

----------------------------------------------------------------------------
(* The parts keep their types. *)
TypeOK ==
  /\ Choreography!TypeOK
  /\ Mapping!TypeOK
  /\ onlyproj \in BOOLEAN
  /\ phase \in Phase

(* The syntax tree the visitors are given has no cycle. *)
RefersBackwards == Choreography!RefersBackwards

(***************************************************************************)
(* What the validator is given is complete: HandleTranslationUnit projects *)
(* and validates only what the mapping visitor has been through.           *)
(***************************************************************************)
NamesMapped ==
  /\ phase = "validate" => mapped = "done"
  /\ Mapping!NamesMapped

ChannelFitsCom == Mapping!ChannelFitsCom

(***************************************************************************)
(* Before the validation the plugin crashes for one of two reasons only: a *)
(* communication whose receiver is no participant, which line 736 of the   *)
(* parser lets through, or a file that the lexer cuts right after the name *)
(* of a global type.  A name is a participant only if the first            *)
(* declaration of that name makes it one: a later one is not kept          *)
(* (line 48), and the default index is declared before all of them.        *)
(***************************************************************************)
MadeParticipant(n, i) ==
  /\ n # UnaryIndex
  /\ \E k \in 1 .. i - 1 : /\ file[k].tag = "Participant" /\ file[k].name = n
                          /\ \A m \in 1 .. k - 1 : file[m].name # n

UndeclaredReceiver(i) ==
  /\ file[i].tag = "Global"
  /\ \E j \in DOMAIN file[i].body :
       /\ file[i].body[j].tag = "com"
       /\ ~MadeParticipant(file[i].body[j].to.name, i)

CrashOnlyForCause ==
  outcome = "crashed" \/ mapped = "crashed" \/ (phase = "crash" /\ mapped # "done") =>
    \/ \E i \in 1 .. pos : i \in DOMAIN file /\ UndeclaredReceiver(i)
    \/ outcome = "crashed" /\ Choreography!CutAfterName

(* What the parser's message says of the receiver; refuted, see Parser. *)
ReceiversDeclared == Choreography!ReceiversDeclared

(***************************************************************************)
(* What is projected is the final global type of the file (AstVisitor.cpp, *)
(* lines 117 and 118); refuted, see Parser.                                *)
(***************************************************************************)
ProjectsFinalType == phase = "project" => Choreography!ProjectsFinalType

(* The plugin always comes to an end. *)
Terminates == <>(phase \in Ended)
=============================================================================
