---------------------------- MODULE InspectFile ----------------------------
(***************************************************************************)
(* The inspection of one open file, stage by stage: what it is, what the   *)
(* optional probes and the built-in parsers say of it, its digest, and the *)
(* status, diagnostics and errors these add up to. The deadline may pass   *)
(* between any two steps.                                                  *)
(*                                                                         *)
(* A file is what its signature, the system's "file" program and its name  *)
(* take it for, whether its bytes are sound, and whether text and images   *)
(* can be read when they are read once more behind the header.             *)
(***************************************************************************)
EXTENDS ArchiveScan

CONSTANT Files  \* bound: the files to inspect

VARIABLES file, options,  \* the file and what is asked about it
          point,     \* where the inspection stands
          format,    \* the canonical identity
          fileStatus, fileError,
          diags,     \* codes of the diagnostics
          parseable, \* integrity.parseable: "unknown", "yes" or "no"
          structure, \* structured.parseable, in the same words
          scripts,   \* SVG facts: "absent", "incomplete" or "complete"
          match,     \* identity.extension_match: "none", "yes" or "no"
          text,      \* text facts: "none", "known", or of an "unclear" encoding
          digest     \* "none", or whether it is the expected one

identityVars == <<format, parseable, structure, scripts, match, text>>
outcomeVars == <<fileStatus, fileError, diags>>
fileVars == <<file, options, point, identityVars, outcomeVars, digest, archiveVars>>

Unknown == "unknown"
Kind ==
  [unknown |-> Unknown, plain |-> "text", pointer |-> "text", json |-> "data", csv |-> "data", yaml |-> "data",
   sqlite |-> "data", svg |-> "image", png |-> "image", tiff |-> "image", heic |-> "image", movie |-> "media",
   tar |-> "archive", gzip |-> "archive", zip |-> "archive", bzip |-> "archive",
   ooxml |-> "document", pdf |-> "document", ttf |-> "font", woff |-> "font", ttc |-> "font",
   elf |-> "binary", wasm |-> "binary"]
KnownFormats == DOMAIN Kind
StructuredFormats == {"json", "csv", "svg", "yaml"}
TextEvidence == {"plain", "pointer", "json", "svg"}

(* Not among them: what only "file", a name or the entries of a ZIP prove.  *)
Signatures == KnownFormats \ {"tiff", "ttc", "csv", "yaml", "ooxml"}

(* The media type a name stands for. *)
Extensions == {"none", "plain", "png", "zip"} \cup StructuredFormats \cup DOMAIN MainPart

(* JSON is only recognized when it is valid, a pointer when it is short and  *)
(* UTF-8 from end to end. Only of a text does it matter whether its encoding *)
(* is clear, only of an SVG image whether it has scripts.                    *)
AllFiles ==
  {f \in [signature : Signatures, system : {Unknown, "plain", "tiff", "ttc"}, extension : Extensions,
          sound : BOOLEAN, readable : BOOLEAN, clear : BOOLEAN, active : BOOLEAN,
          size : {"window", "large", "huge"}] :
     /\ f.signature \in {"json", "pointer"} => f.sound /\ f.size = "window"
     /\ ~f.clear => f.signature \in {"plain", "json", "svg"} \/ f.system = "plain"
     /\ f.active => "svg" \in {f.signature, f.extension}}
ASSUME FilesAssumption == Files \subseteq AllFiles

SvgFiles == {f \in AllFiles : f.signature = "svg" /\ f.system = Unknown /\ f.extension \in {"none", "svg"}}

AllOptions ==
  [mode : {"quick", "standard", "deep", "other"}, hash : BOOLEAN,
   expected : {"none", "malformed", "match", "mismatch"}]

FileInit ==
  /\ file \in Files /\ options \in AllOptions
  /\ ScanInit
  /\ archive \in CASE file.signature \in {"tar", "gzip", "zip"} ->
                        {a \in Archives : a.format = file.signature}
                   [] OTHER -> {NoArchive}
  /\ point = "opened" /\ format = Unknown
  /\ fileStatus = "unsupported" /\ fileError = "none" /\ diags = {}
  /\ parseable = "unknown" /\ structure = "unknown" /\ scripts = "absent"
  /\ match = "none" /\ text = "none" /\ digest = "none"

-----------------------------------------------------------------------------
MakePartial(s) == IF s \in {"ok", "unsupported"} THEN "partial" ELSE s
MakeCorrupt(s) == IF s # "error" THEN "corrupt" ELSE s

Diagnose(code) == diags' = diags \cup {code}

(* A step that falls short of what it promises says so. *)
FallShort(code) ==
  /\ fileStatus' = MakePartial(fileStatus) /\ Diagnose(code)
  /\ UNCHANGED fileError

BlameFile(code) ==
  /\ fileStatus' = MakeCorrupt(fileStatus) /\ Diagnose(code)
  /\ UNCHANGED fileError

(* errorResult: a new result, of which nothing but the error is left.       *)
AnswerError(code) ==
  /\ point' = "done" /\ fileStatus' = "error" /\ fileError' = code
  /\ diags' = {} /\ format' = Unknown /\ digest' = "none"
  /\ parseable' = "unknown" /\ structure' = "unknown" /\ scripts' = "absent"
  /\ match' = "none" /\ text' = "none"
  /\ UNCHANGED <<file, options>>

Keep == UNCHANGED <<file, options>>

(* runProbe: an optional program is not there, fails or answers. Once the   *)
(* deadline has passed it may fail for that reason alone.                   *)
ProbeFails ==
  /\ cutShort' = (cutShort \/ expired)
  /\ UNCHANGED <<archive, expired, scanVars>>

-----------------------------------------------------------------------------
(* Inspect: options no carrier passes on are refused before the file is     *)
(* looked at.                                                               *)
RefuseOptions ==
  /\ point = "opened" /\ options.mode = "other"
  /\ AnswerError("E_INVALID_OPTIONS") /\ UNCHANGED archiveVars

Opened == point = "opened" /\ options.mode # "other"

Unreadable(code) ==
  /\ Opened
  /\ AnswerError(code) /\ UNCHANGED archiveVars

(* mediaCompatible: whether what was detected may have the name it has.     *)
TextTypes == {"plain", "pointer", "csv"}
Compatible(f) ==
  \/ f = file.extension
  \/ {f, file.extension} \subseteq TextTypes
  \/ f = "ooxml" /\ file.extension = office.kind

(* The verdict on the name, and the complaint when it is a bad one. Text and *)
(* ZIP files may still prove to be what their name says: no verdict yet.     *)
Verdict(f) == IF file.extension = "none" THEN "none" ELSE IF Compatible(f) THEN "yes" ELSE "no"
Complaint == IF match' = "no" THEN {"EXTENSION_MISMATCH"} ELSE {}
Undecided ==
  \/ file.signature = Unknown
  \/ file.signature = "zip" /\ file.extension \in DOMAIN MainPart
  \/ file.signature = "plain" /\ file.extension \in StructuredFormats

(* A known signature is supported; a pointer is text whatever its name.     *)
Identify ==
  /\ Opened
  /\ point' = IF options.mode = "quick" THEN "hashing" ELSE "probing"
  /\ format' = file.signature
  /\ match' = IF Undecided THEN "none" ELSE Verdict(file.signature)
  /\ fileStatus' = IF file.signature = Unknown THEN "unsupported" ELSE "ok"
  /\ diags' = Complaint
  /\ Keep /\ UNCHANGED <<parseable, structure, scripts, text, fileError, digest, archiveVars>>

SystemProbeAbsent ==
  /\ point = "probing" /\ point' = "parsing"
  /\ Keep /\ UNCHANGED <<identityVars, outcomeVars, digest, archiveVars>>

SystemProbeFails ==
  /\ point = "probing" /\ point' = "parsing"
  /\ Diagnose("IDENTITY_PROBE_FAILED") /\ ProbeFails
  /\ Keep /\ UNCHANGED <<identityVars, fileStatus, fileError, digest>>

(* addFileProbe: the system's opinion counts where no signature is known,   *)
(* and text is no contradiction to a format written in text.                *)
Agree ==
  \/ file.system \in {Unknown, format}
  \/ file.system = "plain" /\ format \in TextEvidence

SystemProbeAnswers ==
  /\ point = "probing" /\ point' = "parsing"
  /\ IF format = Unknown /\ file.system # Unknown
     THEN format' = file.system /\ fileStatus' = "ok" /\ UNCHANGED diags
     ELSE /\ IF Agree THEN UNCHANGED diags ELSE Diagnose("IDENTITY_CONFLICT")
          /\ UNCHANGED <<format, fileStatus>>
  /\ Keep /\ UNCHANGED <<parseable, structure, scripts, match, text, fileError, digest, archiveVars>>

-----------------------------------------------------------------------------
(* inspectFamily, first half: structured text. Its format comes from the    *)
(* identity or, for text, from the name.                                    *)
Structured ==
  IF format \in StructuredFormats THEN format
  ELSE IF Kind[format] = "text" /\ file.extension \in StructuredFormats THEN file.extension
  ELSE "none"

(* Of the documents, a pointer only passes for a table or YAML. So does     *)
(* nothing at all, which is what is left of a file that cannot be read: the *)
(* error is dropped. A table may be in any encoding, and so may the strings *)
(* of JSON.                                                                 *)
Loose == Structured \in {"csv", "yaml"}
Valid ==
  IF file.readable
  THEN /\ file.sound /\ (format = "pointer" => Loose)
       /\ file.clear \/ Structured \in {"json", "csv"}
  ELSE Loose

(* Text facts are taken of text and of what is parsed as text.              *)
NeedsText == Kind[format] = "text" \/ Structured # "none"
TakeText ==
  text' = IF ~NeedsText THEN "none" ELSE IF file.clear \/ ~file.readable THEN "known" ELSE "unclear"

(* The verdict on the name of a text is taken again once its parser has     *)
(* spoken.                                                                  *)
Reconcile ==
  IF Kind[format] = "text" THEN match' = Verdict(format') ELSE UNCHANGED match

NotStructured ==
  /\ point = "parsing" /\ Structured = "none" /\ point' = "family"
  /\ TakeText
  /\ Keep /\ UNCHANGED <<format, parseable, structure, scripts, match, outcomeVars, digest, archiveVars>>

BeyondWindow ==
  /\ point = "parsing" /\ Structured # "none" /\ file.size # "window"
  /\ point' = "family" /\ TakeText
  /\ FallShort("STRUCTURED_SIZE_LIMIT")
  /\ scripts' = IF format = "svg" THEN "incomplete" ELSE scripts
  /\ Keep /\ UNCHANGED <<format, parseable, structure, match, digest, archiveVars>>

InWindow ==
  /\ point = "parsing" /\ Structured # "none" /\ file.size = "window"
  /\ point' = "family" /\ TakeText

(* validateStructured stops at a budget of its own, which JSON has not:     *)
(* nothing is known.                                                        *)
ParseLimit ==
  /\ InWindow /\ file.readable /\ Structured # "json"
  /\ FallShort("STRUCTURED_PARSE_LIMIT")
  /\ Keep /\ UNCHANGED <<format, parseable, structure, scripts, match, digest, archiveVars>>

ParseInvalid ==
  /\ InWindow /\ ~Valid
  /\ structure' = "no" /\ parseable' = "no"
  /\ UNCHANGED format /\ Reconcile
  /\ fileStatus' = MakeCorrupt(fileStatus)
  /\ diags' = diags \cup {"STRUCTURED_PARSE_FAILED"} \cup Complaint
  /\ Keep /\ UNCHANGED <<scripts, fileError, digest, archiveVars>>

(* A parse that succeeds settles the identity. SVG facts are read for what  *)
(* was an SVG image before that.                                            *)
ParseValid(facts) ==
  /\ InWindow /\ Valid
  /\ structure' = "yes" /\ parseable' = "yes"
  /\ format' = Structured /\ Reconcile
  /\ IF format = "svg"
     THEN /\ facts \in {"complete", "incomplete"} /\ scripts' = facts
          /\ IF facts = "complete"
             THEN fileStatus' = fileStatus /\ UNCHANGED <<fileError, diags>>
             ELSE FallShort("SVG_STRUCTURE_LIMIT")
     ELSE /\ facts = "absent"
          /\ fileStatus' = IF fileStatus = "unsupported" THEN "ok" ELSE fileStatus
          /\ diags' = diags \cup Complaint
          /\ UNCHANGED <<scripts, fileError>>
  /\ Keep /\ UNCHANGED <<digest, archiveVars>>

-----------------------------------------------------------------------------
(* inspectFamily, second half: one parser or probe for each kind.           *)
AtFamily(kinds) == point = "family" /\ Kind[format] \in kinds

NoFamily ==
  /\ AtFamily({Unknown, "text", "data"})
  /\ point' = "hashing"
  /\ Keep /\ UNCHANGED <<identityVars, outcomeVars, digest, archiveVars>>

Parsed ==
  /\ point' = "hashing" /\ parseable' = "yes"
  /\ Keep /\ UNCHANGED <<format, structure, scripts, match, text, outcomeVars, digest, archiveVars>>

ShortOf(code) ==
  /\ point' = "hashing" /\ FallShort(code)
  /\ Keep /\ UNCHANGED <<identityVars, digest>>

Blamed(code) ==
  /\ point' = "hashing" /\ BlameFile(code)
  /\ Keep /\ UNCHANGED <<identityVars, digest, archiveVars>>

(* Images the parser knows. Of an SVG it only reads the first element, which *)
(* may have no absolute dimensions.                                         *)
Decodable == file.readable /\ (format = "svg" \/ (format = "png" /\ file.sound))
StillImage == AtFamily({"image"}) /\ format # "heic"

ImageParsed == StillImage /\ Decodable /\ Parsed

ImageUnmeasured ==
  /\ StillImage /\ file.size = "window" /\ format = "svg" /\ structure = "yes"
  /\ ShortOf("IMAGE_PROPERTIES_UNAVAILABLE") /\ UNCHANGED archiveVars

ImageBeyondWindow ==
  /\ StillImage /\ file.size # "window"
  /\ ShortOf("IMAGE_PARSE_WINDOW") /\ UNCHANGED archiveVars

ImageInvalid ==
  /\ StillImage /\ file.size = "window"
  /\ format = "svg" => structure # "yes"
  /\ format = "png" => ~(file.sound /\ file.readable)
  /\ Blamed("IMAGE_PARSE_FAILED")

(* ffprobe, for media and for the images only it can read; what it cannot   *)
(* read is not shown as parseable.                                          *)
Media == point = "family" /\ (Kind[format] = "media" \/ format = "heic")

MediaProbeAbsent == Media /\ ShortOf("MEDIA_PROBE_UNAVAILABLE") /\ UNCHANGED archiveVars
MediaProbeAnswers == Media /\ Parsed
MediaProbeFails ==
  /\ Media /\ point' = "hashing" /\ parseable' = "no"
  /\ FallShort("MEDIA_PROBE_FAILED") /\ ProbeFails
  /\ Keep /\ UNCHANGED <<format, structure, scripts, match, text, digest>>

(* The scan of an archive runs to its end before anything is said of it. A  *)
(* ZIP that was seen completely may prove to be an office document.         *)
ScanArchive ==
  /\ AtFamily({"archive"}) /\ (BeginScan \/ ScanStep)
  /\ UNCHANGED <<file, options, point, identityVars, outcomeVars, digest>>

ScanEnds == AtFamily({"archive"}) /\ Scanned

ArchiveUnknown ==
  /\ ScanEnds /\ scan = "unavailable"
  /\ ShortOf("ARCHIVE_PROBE_UNAVAILABLE") /\ UNCHANGED archiveVars

ArchiveInvalid ==
  /\ ScanEnds /\ scan = "failed" /\ point' = "hashing" /\ parseable' = "no"
  /\ BlameFile("ARCHIVE_PARSE_FAILED")
  /\ Keep /\ UNCHANGED <<format, structure, scripts, match, text, digest, archiveVars>>

ArchiveCut ==
  /\ ScanEnds /\ scan = "truncated" /\ point' = "hashing" /\ parseable' = "yes"
  /\ FallShort("ARCHIVE_SCAN_LIMIT")
  /\ Keep /\ UNCHANGED <<format, structure, scripts, match, text, digest, archiveVars>>

ArchiveListed ==
  /\ ScanEnds /\ scan = "complete" /\ point' = "hashing" /\ parseable' = "yes"
  /\ format' = IF office.at = "done" THEN "ooxml" ELSE format
  /\ match' = IF office.at = "done" \/ file.extension \in DOMAIN MainPart THEN Verdict(format') ELSE match
  /\ diags' = diags \cup Complaint
  /\ Keep /\ UNCHANGED <<structure, scripts, text, fileStatus, fileError, digest, archiveVars>>

(* pdfinfo, then pdftotext unless the document is encrypted or has no page. *)
Pdf == point = "family" /\ format = "pdf"

PdfAnswers == Pdf /\ Parsed
PdfProbeAbsent == Pdf /\ ShortOf("PDF_PROBE_UNAVAILABLE") /\ UNCHANGED archiveVars
PdfProbeFails == Pdf /\ ShortOf("PDF_PROBE_FAILED") /\ ProbeFails

PdfTextUnknown ==
  /\ Pdf /\ point' = "hashing" /\ parseable' = "yes"
  /\ \/ FallShort("PDF_TEXT_LAYER_PROBE_UNAVAILABLE") /\ UNCHANGED archiveVars
     \/ FallShort("PDF_TEXT_LAYER_PROBE_FAILED") /\ ProbeFails
  /\ Keep /\ UNCHANGED <<format, structure, scripts, match, text, digest>>

(* A font table that can be read needs no probe; fc-scan stands in for one  *)
(* that cannot, and is not believed to know every web font.                 *)
Font == AtFamily({"font"})
FontRead == format = "ttf" /\ file.sound

FontAnswers == Font /\ Parsed
FontProbeAbsent == Font /\ ~FontRead /\ ShortOf("FONT_PROBE_UNAVAILABLE") /\ UNCHANGED archiveVars
FontProbeFails ==
  /\ Font /\ ~FontRead /\ point' = "hashing"
  /\ IF format = "woff" THEN FallShort("FONT_PROBE_FAILED") ELSE BlameFile("FONT_PARSE_FAILED")
  /\ ProbeFails
  /\ Keep /\ UNCHANGED <<identityVars, digest>>

(* inspectBinary knows ELF, Mach-O, PE and Java classes. *)
BinaryParsed == AtFamily({"binary"}) /\ format = "elf" /\ file.sound /\ Parsed
BinaryInvalid ==
  /\ AtFamily({"binary"}) /\ ~(format = "elf" /\ file.sound)
  /\ Blamed("BINARY_PARSE_FAILED")

(* A parser that panics is caught, the worker answers with an error. *)
ParserPanics ==
  /\ point \in {"parsing", "family"}
  /\ AnswerError("E_INTERNAL") /\ UNCHANGED archiveVars

-----------------------------------------------------------------------------
Wanted == options.hash \/ options.expected # "none"

RefuseDigest ==
  /\ point = "hashing" /\ options.expected = "malformed"
  /\ AnswerError("E_INVALID_OPTIONS") /\ UNCHANGED archiveVars

NoDigest ==
  /\ point = "hashing" /\ ~Wanted /\ point' = "deriving"
  /\ Keep /\ UNCHANGED <<identityVars, outcomeVars, digest, archiveVars>>

Hashing == point = "hashing" /\ options.expected # "malformed" /\ Wanted

HashTooLarge ==
  /\ Hashing /\ file.size = "huge" /\ point' = "deriving"
  /\ FallShort("HASH_SIZE_LIMIT")
  /\ Keep /\ UNCHANGED <<identityVars, digest, archiveVars>>

(* The digest looks at the deadline before each read, and once at least.    *)
HashInterrupted ==
  /\ Hashing /\ file.size # "huge" /\ expired
  /\ AnswerError("E_TIMEOUT")
  /\ cutShort' = TRUE /\ UNCHANGED <<archive, expired, scanVars>>

HashFails ==
  /\ Hashing /\ file.size # "huge" /\ ~expired /\ point' = "deriving"
  /\ FallShort("HASH_FAILED")
  /\ Keep /\ UNCHANGED <<identityVars, digest, archiveVars>>

Hash ==
  /\ Hashing /\ file.size # "huge" /\ ~expired /\ point' = "deriving"
  /\ digest' = IF options.expected = "none" THEN "unchecked" ELSE options.expected
  /\ IF options.expected = "mismatch" THEN Diagnose("SHA256_MISMATCH") ELSE UNCHANGED diags
  /\ Keep /\ UNCHANGED <<identityVars, fileStatus, fileError, archiveVars>>

(* The last look at the deadline. *)
TimeOut ==
  /\ point = "deriving" /\ expired
  /\ AnswerError("E_TIMEOUT") /\ UNCHANGED archiveVars

(* Mutant of Derive: the deadline is not looked at again. *)
DeriveRegardless ==
  /\ point = "deriving" /\ point' = "fitting"
  /\ Keep /\ UNCHANGED <<identityVars, outcomeVars, digest, archiveVars>>

Derive ==
  /\ point = "deriving" /\ ~expired /\ point' = "fitting"
  /\ Keep /\ UNCHANGED <<identityVars, outcomeVars, digest, archiveVars>>

(* fitResponse: a result that is too long loses the names of its entries,   *)
(* which only a deep inspection has.                                        *)
FileFits ==
  /\ point = "fitting" /\ point' = "done"
  /\ Keep /\ UNCHANGED <<identityVars, outcomeVars, digest, archiveVars>>

NamesDropped ==
  /\ point = "fitting" /\ options.mode = "deep" /\ scan \in {"complete", "truncated"} /\ scanned > 0
  /\ point' = "done" /\ Diagnose("RESPONSE_TRUNCATED")
  /\ Keep /\ UNCHANGED <<identityVars, fileStatus, fileError, digest, archiveVars>>

(* What fits in no form, or breaks the published schema, is not answered.   *)
FileNeverFits ==
  /\ point = "fitting"
  /\ \E code \in {"E_RESPONSE_TOO_LARGE", "E_RESULT_SCHEMA"} : AnswerError(code)
  /\ UNCHANGED archiveVars

Lapse ==
  /\ point # "done" /\ ~expired /\ expired' = TRUE
  /\ UNCHANGED <<file, options, point, identityVars, outcomeVars, digest, archive, cutShort, scanVars>>

Stages ==
  \/ \E code \in {"E_INVALID_SOURCE", "E_FILE_STAT", "E_NOT_REGULAR_FILE", "E_FILE_READ"} :
       Unreadable(code)
  \/ RefuseOptions \/ Identify
  \/ SystemProbeAbsent \/ SystemProbeFails \/ SystemProbeAnswers
  \/ NotStructured \/ BeyondWindow \/ ParseLimit \/ ParseInvalid
  \/ \E facts \in {"absent", "incomplete", "complete"} : ParseValid(facts)
  \/ RefuseDigest \/ NoDigest \/ HashTooLarge \/ HashInterrupted \/ HashFails \/ Hash
  \/ TimeOut \/ Derive \/ FileFits \/ NamesDropped \/ FileNeverFits \/ Lapse

Families ==
  \/ NoFamily
  \/ ImageParsed \/ ImageUnmeasured \/ ImageBeyondWindow \/ ImageInvalid
  \/ MediaProbeAbsent \/ MediaProbeAnswers \/ MediaProbeFails
  \/ ScanArchive \/ ArchiveUnknown \/ ArchiveInvalid \/ ArchiveCut
  \/ ArchiveListed
  \/ PdfAnswers \/ PdfProbeAbsent \/ PdfProbeFails \/ PdfTextUnknown
  \/ FontAnswers \/ FontProbeAbsent \/ FontProbeFails
  \/ BinaryParsed \/ BinaryInvalid
  \/ ParserPanics

FileNext == Stages \/ Families
FileSpec == FileInit /\ [][FileNext]_fileVars

-----------------------------------------------------------------------------
(* deriveTraits and deriveConstraints, of a result that is no error: whether *)
(* it is offered for reading as text, and what one has to beware of.        *)
Extractable ==
  \/ Kind[format] = "text" /\ text # "unclear"
  \/ Kind[format] = "data" /\ text # "none"

Beware(holds, constraint) == IF holds THEN {constraint} ELSE {}
Listed == scan \in {"complete", "truncated"}
Office == office.at = "done" /\ Listed
ActiveSvg == scripts = "complete" /\ file.active
Constraints ==
  Beware(digest = "mismatch", "integrity_mismatch")
  \cup Beware(file.signature = "pointer", "indirect_content")
  \cup Beware(Listed /\ links > 0, "archive_links")
  \cup Beware(ActiveSvg \/ (Office /\ office.macros), "active_content")
  \cup Beware(ActiveSvg \/ (Office /\ office.outside > 0), "external_references")
  \cup Beware(Office /\ office.embedded > 0, "embedded_objects")

-----------------------------------------------------------------------------
Shortfalls ==
  {"STRUCTURED_SIZE_LIMIT", "STRUCTURED_PARSE_LIMIT", "SVG_STRUCTURE_LIMIT",
   "IMAGE_PARSE_WINDOW", "IMAGE_PROPERTIES_UNAVAILABLE",
   "MEDIA_PROBE_UNAVAILABLE", "MEDIA_PROBE_FAILED",
   "ARCHIVE_PROBE_UNAVAILABLE", "ARCHIVE_SCAN_LIMIT",
   "PDF_PROBE_UNAVAILABLE", "PDF_PROBE_FAILED",
   "PDF_TEXT_LAYER_PROBE_UNAVAILABLE", "PDF_TEXT_LAYER_PROBE_FAILED",
   "FONT_PROBE_UNAVAILABLE", "FONT_PROBE_FAILED", "HASH_SIZE_LIMIT", "HASH_FAILED"}
Accusations ==
  {"STRUCTURED_PARSE_FAILED", "IMAGE_PARSE_FAILED", "ARCHIVE_PARSE_FAILED",
   "FONT_PARSE_FAILED", "BINARY_PARSE_FAILED"}
StructuredLimits == {"STRUCTURED_SIZE_LIMIT", "STRUCTURED_PARSE_LIMIT"}

FileTypeOK ==
  /\ format \in KnownFormats
  /\ fileStatus \in {"unsupported", "ok", "partial", "corrupt", "error"}
  /\ parseable \in {"unknown", "yes", "no"} /\ structure \in {"unknown", "yes", "no"}
  /\ match \in {"none", "yes", "no"} /\ text \in {"none", "known", "unclear"}
  /\ digest \in {"none", "unchecked", "match", "mismatch"}

(* The content itself is broken, as far as any reader of it can tell.       *)
ContentBroken ==
  IF archive = NoArchive THEN ~file.sound \/ (~file.clear /\ Structured = "yaml") ELSE Whole.end = "error"

(* Sound files the code calls corrupt: formats it identifies and has no     *)
(* parser for, and those it parses as what they are not, or not at all, or  *)
(* without having read them; and SVG in an encoding other than UTF-8.       *)
Misjudged ==
  \/ ~file.readable
  \/ ~file.clear /\ Structured = "svg"
  \/ format \in {"tiff", "ttc", "wasm"}
  \/ format = "pointer" /\ Structured \notin {"none", "csv", "yaml"}
  \/ format = "svg" /\ structure = "unknown"

(* What the built-in parsers decide without an optional program.            *)
BuiltIn == {"json", "csv", "yaml", "svg", "png", "elf", "tar", "gzip", "zip", "ooxml"}

(* The verdict on the name is about what the file proved to be, it was taken *)
(* wherever the bytes told what the file is, and a bad name is complained    *)
(* about and no other, but of a pointer that then passes for YAML.           *)
NameIsHonest ==
  /\ match # "none" => match = Verdict(format)
  /\ fileStatus = "ok" /\ options.mode # "quick" /\ file.signature # Unknown /\ match = "none" =>
       file.extension = "none"
  /\ match = "no" => "EXTENSION_MISMATCH" \in diags
  /\ "EXTENSION_MISMATCH" \in diags => match = "no" \/ (file.signature = "pointer" /\ format = "yaml")

(* What the result offers and warns of is so. Text whose encoding nobody    *)
(* knows is not offered for reading, but for tables and JSON, and nothing   *)
(* that is no text is; an inspection that looks complete overlooked no      *)
(* script, macro, link or reference to the outside, but in an SVG image     *)
(* that only its name and its parser gave away; and a pointer stays one     *)
(* whatever it passes for.                                                  *)
RoutingIsHonest ==
  /\ Extractable =>
       /\ format \in TextTypes \cup StructuredFormats
       /\ options.mode # "quick" /\ format \notin {"json", "csv"} => file.clear \/ ~file.readable
  /\ file.signature = "pointer" => "indirect_content" \in Constraints
  /\ fileStatus = "ok" /\ options.mode # "quick" =>
       /\ format = "svg" /\ file.active /\ file.signature = "svg" =>
            {"active_content", "external_references"} \subseteq Constraints
       /\ archive # NoArchive /\ Whole.links > 0 => "archive_links" \in Constraints
       /\ format = "ooxml" /\ office.complete /\ AllOutside > 0 => "external_references" \in Constraints
       /\ format = "ooxml" /\ office.kind \in MacroKinds => "active_content" \in Constraints

(* The answer is as good as it looks. One that a deadline cut short is an    *)
(* error, however far it had come; "ok" is about a known format, hides no    *)
(* shortfall and, behind a built-in parser that could read it, stands for    *)
(* sound content;                                                            *)
(* "corrupt" is never said of sound content but for the known misjudgements; *)
(* what was not validated is not called valid or invalid; a digest that was  *)
(* asked for is compared or missed aloud; and so it is with the verdict on   *)
(* the name, the traits and the constraints.                                 *)
FileIsHonest ==
  point = "done" =>
    /\ fileStatus = "error" <=> fileError # "none"
    /\ cutShort => fileStatus = "error"
    /\ fileStatus = "ok" =>
         /\ format # Unknown /\ diags \cap (Shortfalls \cup Accusations) = {}
         /\ scan # "truncated"
         /\ options.mode # "quick" /\ file.readable /\ format \in BuiltIn => ~ContentBroken
    /\ fileStatus = "corrupt" => ContentBroken \/ Misjudged
    /\ diags \cap StructuredLimits # {} => structure = "unknown"
    /\ fileStatus # "error" /\ options.expected # "none" =>
         digest \in {"match", "mismatch"} \/ diags \cap {"HASH_SIZE_LIMIT", "HASH_FAILED"} # {}
    /\ fileStatus # "error" => NameIsHonest /\ RoutingIsHonest

(* "A valid file must not be shown as broken because it crossed a scan      *)
(* limit" (structured.go).                                                  *)
LimitIsNotBlamed ==
  point = "done" /\ file.sound /\ file.clear /\ diags \cap StructuredLimits # {} => fileStatus # "corrupt"
=============================================================================
