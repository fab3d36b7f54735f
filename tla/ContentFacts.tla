---------------------------- MODULE ContentFacts ---------------------------
(***************************************************************************)
(* The facts the built-in parsers read off the bytes of one file: of a     *)
(* text, a Git LFS pointer or an image. Text facts are shown of what was   *)
(* identified as text.                                                     *)
(***************************************************************************)
EXTENDS TextFacts, ImageFacts

VARIABLES content, facts

contentVars == <<content, facts>>

NoFacts == [of |-> "nothing"]

ContentInit ==
  /\ content \in Texts \cup Pointers \cup Images
  /\ facts = NoFacts

Reading(kinds) == facts = NoFacts /\ content.kind \in kinds /\ UNCHANGED content

ReadText ==
  /\ Reading({"text"})
  /\ facts' = [of |-> "text", kind |-> Identified(content), info |-> TextInfo(content)]

ReadPointer ==
  /\ Reading({"pointer"})
  /\ facts' = [of |-> "pointer", found |-> IsPointer(content)]

ReadImage ==
  /\ Reading({"png", "gif", "webp", "svg"})
  /\ facts' = [of |-> "image", answer |-> InspectImage(content)]

ContentNext == ReadText \/ ReadPointer \/ ReadImage
ContentSpec == ContentInit /\ [][ContentNext]_contentVars

(* The facts are those of the file as its author wrote it, as far as the     *)
(* header and the window showed them: a text is taken for one, its lines     *)
(* are counted as they are or not at all, and what is said of an image holds *)
(* of the whole of it (text.go, image.go, indirection.go).                   *)
FactsAreHonest ==
  CASE facts.of = "text" ->
         IdentityIsHonest(content, facts.kind, facts.info) /\ ReadingIsHonest(content, facts.info)
    [] facts.of = "pointer" -> PointerIsHonest(content, facts.found)
    [] facts.of = "image" -> ImageIsHonest(content, facts.answer)
    [] OTHER -> TRUE

(* "BOM-backed Unicode is exact" (docs/REVIEW_CONTRACT.md), of proper text   *)
(* that the system, too, takes for text.                                    *)
BomMeansExact ==
  facts.of = "text" /\ Proper(content) /\ content.form.mark # <<>> /\ content.system =>
    facts.kind = "text" /\ facts.info.certainty = "exact"
=============================================================================
