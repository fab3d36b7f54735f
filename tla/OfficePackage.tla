--------------------------- MODULE OfficePackage ---------------------------
(***************************************************************************)
(* detectOOXML: whether a ZIP whose directory was read completely is an    *)
(* office document, and what is said of it. A few parts are read, each     *)
(* under a limit of its own, together under a budget, and each against the *)
(* deadline; whatever could not be read makes the answer incomplete.       *)
(*                                                                         *)
(* A package is the condition of each of its parts and what the parts that *)
(* are read declare. Workbooks stand for presentations, too: of both a     *)
(* main part is read and something counted in it.                          *)
(***************************************************************************)
EXTENDS Integers, Sequences, FiniteSets

CONSTANTS MaxPart,       \* MaxOOXMLMetadataBytes
          PartsBudget,   \* MaxOOXMLMetadataTotal
          MaxRelations   \* MaxOOXMLRelationships

(* A part of the size "large" is one that may be read.                      *)
ASSUME OfficeAssumption == MaxPart \in Nat \ {0, 1} /\ PartsBudget \in Nat /\ MaxRelations \in Nat

VARIABLES archive,   \* the file, with its package
          expired,   \* the deadline of the inspection has passed
          cutShort,  \* the deadline made a step of the inspection fail
          office     \* what is known of the package

(* Behind the main parts, the parts with relations of their own in the order *)
(* of their names. An alias is a name no part can have.                      *)
RelationParts == <<"first.rels", "second.rels">>
Parts == {"types", "rels", "document", "workbook", "macros", "embedding", "alias.rels"}
           \cup {RelationParts[i] : i \in DOMAIN RelationParts}

MainPart == [docx |-> "document", docm |-> "document", xlsx |-> "workbook", xlsm |-> "workbook"]
MacroKinds == {"docm", "xlsm"}
Counted == {"xlsx", "xlsm"}

(* A part may be there twice, be no XML, not be readable, or be long.       *)
Conditions == {"good", "twice", "garbled", "unreadable", "large", "huge"}
PartSize(condition) == CASE condition = "large" -> 2 [] condition = "huge" -> MaxPart + 1 [] OTHER -> 1

(* The conditions of the parts there are, the kinds whose content type is   *)
(* declared, the main parts that are related to, and the parts that relate  *)
(* to something outside.                                                    *)
NoPackage == [parts |-> <<>>, kinds |-> {}, targets |-> {}, outside |-> {}]
IsPackage(k) ==
  /\ DOMAIN k.parts \subseteq Parts /\ \A p \in DOMAIN k.parts : k.parts[p] \in Conditions
  /\ k.kinds \subseteq DOMAIN MainPart
  /\ k.outside \subseteq {"rels"} \cup {RelationParts[i] : i \in DOMAIN RelationParts}

OfficeInit ==
  office = [at |-> "idle", left |-> PartsBudget, kind |-> "none", complete |-> TRUE, macros |-> FALSE,
            embedded |-> 0, outside |-> 0, counted |-> FALSE, next |-> 1]

-----------------------------------------------------------------------------
package == archive.package

(* ooxmlPackageName: the entries are those whose name a part can have.      *)
Entries == DOMAIN package.parts \ {"alias.rels"}
Duplicate(p) == package.parts[p] = "twice"

(* readZIPMetadata: too long, beyond the budget, late or not readable. Only  *)
(* what was read counts against the budget.                                  *)
Late == expired
CanRead(p) ==
  /\ PartSize(package.parts[p]) <= MaxPart /\ PartSize(package.parts[p]) <= office.left
  /\ package.parts[p] # "unreadable" /\ ~Late
LeftAfter(p) == office.left - PartSize(package.parts[p])
Garbled(p) == package.parts[p] = "garbled"

(* A read that fails after the deadline may fail for that reason alone.     *)
Noted(failed) == cutShort' = (cutShort \/ (failed /\ expired))

NoOffice == office' = [office EXCEPT !.at = "none"]

OpenPackage ==
  /\ office.at = "idle"
  /\ IF {"types", "rels"} \subseteq Entries /\ ~Duplicate("types") /\ ~Duplicate("rels")
     THEN office' = [office EXCEPT !.at = "types"] ELSE NoOffice
  /\ UNCHANGED cutShort

ReadPart(p, then) ==
  /\ office.at = p
  /\ IF CanRead(p) THEN office' = [office EXCEPT !.left = LeftAfter(p), !.at = then] ELSE NoOffice
  /\ Noted(~CanRead(p))

(* The kinds whose main part is there once, declared and related to.        *)
Verified ==
  {k \in package.kinds : MainPart[k] \in Entries \cap package.targets /\ ~Duplicate(MainPart[k])}

External(p) == IF p \in package.outside THEN 1 ELSE 0

MatchKind ==
  /\ office.at = "match"
  /\ IF ~Garbled("types") /\ ~Garbled("rels") /\ Cardinality(Verified) = 1
     THEN LET k == CHOOSE x \in Verified : TRUE
          IN  office' = [office EXCEPT !.at = "main", !.kind = k,
                                       !.macros = package.kinds \cap MacroKinds # {} \/ "macros" \in Entries,
                                       !.embedded = IF "embedding" \in Entries THEN 1 ELSE 0]
     ELSE NoOffice
  /\ UNCHANGED cutShort

(* inspectOOXMLMainFacts, and then the relations of the package itself.     *)
ReadMain ==
  /\ office.at = "main"
  /\ LET main == MainPart[office.kind]
         wanted == office.kind \in Counted
         read == wanted /\ CanRead(main)
     IN  /\ office' = [office EXCEPT !.at = "relations",
                                     !.left = IF read THEN LeftAfter(main) ELSE office.left,
                                     !.counted = read /\ ~Garbled(main),
                                     !.complete = wanted => read /\ ~Garbled(main),
                                     !.outside = External("rels")]
         /\ Noted(wanted /\ ~read)

(* The parts with relations of their own, up to the limit. *)
There(p) == IF p \in Entries THEN <<p>> ELSE <<>>
Relations == There(RelationParts[1]) \o There(RelationParts[2])
More == office.at = "relations" /\ office.next <= Len(Relations) /\ office.next <= MaxRelations
Relation == Relations[office.next]

Skip == [office EXCEPT !.next = @ + 1, !.complete = FALSE]

(* A part that cannot be read ends the loop, one that is ambiguous or no XML *)
(* is passed over.                                                           *)
ReadRelations ==
  /\ More
  /\ office' = IF Duplicate(Relation) THEN Skip
               ELSE IF ~CanRead(Relation) THEN [office EXCEPT !.at = "done", !.complete = FALSE]
               ELSE IF Garbled(Relation) THEN [Skip EXCEPT !.left = LeftAfter(Relation)]
               ELSE [office EXCEPT !.left = LeftAfter(Relation), !.next = @ + 1,
                                   !.outside = @ + External(Relation)]
  /\ Noted(~Duplicate(Relation) /\ ~CanRead(Relation))

EndRelations ==
  /\ office.at = "relations" /\ ~More
  /\ office' = [office EXCEPT !.at = "done", !.complete = @ /\ Len(Relations) <= MaxRelations]
  /\ UNCHANGED cutShort

OfficeStep ==
  \/ OpenPackage
  \/ ReadPart("types", "rels") \/ ReadPart("rels", "match")
  \/ MatchKind \/ ReadMain \/ ReadRelations \/ EndRelations

-----------------------------------------------------------------------------
(* The whole package, as one reads it without limit or haste. *)
Condition(p) == IF p \in Entries THEN package.parts[p] ELSE "absent"
Readable(p) == Condition(p) \in {"good", "large", "huge"}
KindsOf(part) == {k \in package.kinds : MainPart[k] = part}
Proved == UNION {KindsOf(p) : p \in {q \in package.targets : Condition(q) \notin {"absent", "twice"}}}
AllOutside == Cardinality({p \in package.outside : Condition(p) # "absent"})

(* An office document is of the one kind its package proves. What is said of *)
(* one whose inspection was complete is said of the whole package: nothing   *)
(* relates to the outside that was not counted, no macro and no embedded     *)
(* object was overlooked, and the sheets were counted. A package that proves *)
(* one kind is only missed for its metadata or for haste.                    *)
OfficeIsHonest ==
  /\ office.left \in 0..PartsBudget
  /\ office.at = "done" =>
       /\ Proved = {office.kind}
       /\ office.macros <=> office.kind \in MacroKinds \/ Condition("macros") # "absent"
                              \/ package.kinds \cap MacroKinds # {}
       /\ office.outside <= AllOutside
       /\ office.complete =>
            /\ office.outside = AllOutside
            /\ office.counted <=> office.kind \in Counted
            /\ \A p \in {RelationParts[i] : i \in DOMAIN RelationParts} :
                 Condition(p) # "absent" => Readable(p)
  /\ office.at = "none" /\ Cardinality(Proved) = 1 =>
       \/ cutShort \/ ~Readable("types") \/ ~Readable("rels")
       \/ Condition("types") = "huge" \/ Condition("rels") = "huge"
       \/ PartsBudget < PartSize(Condition("types")) + PartSize(Condition("rels"))
=============================================================================
