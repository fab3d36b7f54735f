---------------------------- MODULE WorkerProofs ----------------------------
(***************************************************************************)
(* Proofs about the requests a worker serves, for any number of paths, any *)
(* tree, any archives and packages and any limits: what the scan of an     *)
(* archive reports of it, what the answer about a file says, what it       *)
(* answers for many files and, with both, whatever it is asked.            *)
(***************************************************************************)
EXTENDS MCWorker, Counting, SequenceTheorems

(* What the scans keep.                                                     *)
OfficeStages == {"idle", "types", "rels", "match", "main", "relations", "none", "done"}
OfficeTypeOK ==
  /\ office \in [at : OfficeStages, left : 0..PartsBudget, kind : {"none"} \cup DOMAIN MainPart,
                 complete : BOOLEAN, macros : BOOLEAN, embedded : {0, 1}, outside : Nat,
                 counted : BOOLEAN, next : Nat \ {0}]
  /\ expired \in BOOLEAN /\ cutShort \in BOOLEAN

ScanStages == {"idle", "tar", "gzip", "zip", "package", "complete", "truncated", "failed", "unavailable"}
ScanTypeOK ==
  /\ scan \in ScanStages /\ position \in Nat /\ pending \in {0, 1}
  /\ scanned \in 0..MaxHeaders /\ total \in Nat /\ links \in Nat

(* The relation parts that have been passed. *)
Reached == {Relations[i] : i \in 1..(office.next - 1)}
Related == package.outside \cap ({"rels"} \cup Reached)

(* What an office document was found to be follows from the parts that have  *)
(* been read by each stage.                                                 *)
HasMetadata == office.at \in {"types", "rels", "match", "main", "relations", "done"}
HasKind == office.at \in {"main", "relations", "done"}
PackageFacts ==
  /\ office.at \notin {"relations", "done", "none"} =>
       office.complete /\ ~office.counted /\ office.outside = 0 /\ office.next = 1
  /\ HasMetadata => {"types", "rels"} \subseteq Entries /\ ~Duplicate("types") /\ ~Duplicate("rels")
  /\ office.at \in {"idle", "types"} => office.left = PartsBudget
  /\ office.at = "rels" => office.left = PartsBudget - PartSize(package.parts["types"])
  /\ HasKind =>
       /\ Verified = {office.kind}
       /\ office.macros <=> package.kinds \cap MacroKinds # {} \/ "macros" \in Entries
  /\ office.at \in {"relations", "done"} =>
       /\ office.next <= Len(Relations) + 1
       /\ office.outside <= Cardinality(Related)
       /\ office.complete =>
            /\ office.counted <=> office.kind \in Counted
            /\ office.outside = Cardinality(Related)
            /\ \A p \in Reached : Readable(p)
  /\ office.at = "done" /\ office.complete => office.next = Len(Relations) + 1

(* What is still ahead of the scan, together with what it has counted, is    *)
(* the whole archive.                                                       *)
WithRest(rest) ==
  [end |-> rest.end, count |-> scanned + rest.count, total |-> total + rest.total, links |-> links + rest.links]
NothingRead == position = 0 /\ pending = 0 /\ scanned = 0 /\ total = 0 /\ links = 0
Directory == archive.format = "zip" /\ archive.ending = "eof"
ReadSoFar ==
  /\ scanned <= Length
  /\ total = SumFunctionOnSet(Sizes, 1..scanned) /\ links = Cardinality(LinksAmong(1..scanned))
ScanStands ==
  /\ scan = "idle" => NothingRead
  /\ scan = "tar" =>
       /\ archive.format \in {"tar", "gzip"} /\ ~Measured
       /\ position <= Length /\ Whole = WithRest(Onward[position + pending])
  /\ scan = "gzip" => Measured /\ NothingRead
  /\ scan \in {"zip", "package"} => Directory /\ position = 0 /\ pending = 0 /\ ReadSoFar
  /\ scan = "package" => scanned = Length
  /\ scan = "unavailable" => archive = NoArchive
  /\ office.at # "idle" =>
       Directory /\ scan = IF office.at \in {"none", "done"} THEN "complete" ELSE "package"

(* The part of ArchiveIsHonest that is about the scan itself.               *)
ScanIsHonest ==
  /\ scan = "complete" =>
       Whole = [end |-> "eof", count |-> scanned, total |-> total, links |-> links]
  /\ scan = "failed" => cutShort \/ Whole.end = "error"
  /\ scan = "truncated" =>
       /\ scanned <= Whole.count /\ total <= Whole.total /\ links <= Whole.links
       /\ Left(position) <= 0 \/ scanned = MaxHeaders \/ Whole.total > LargestTotal

ScanFacts == archive \in Archives \cup {NoArchive} /\ ScanTypeOK /\ ScanStands /\ ScanIsHonest
OfficeFacts == OfficeTypeOK /\ PackageFacts /\ OfficeIsHonest
ArchiveFacts == ScanFacts /\ OfficeFacts

(* What an inspection has found out, stage by stage: before the parsers,    *)
(* once the text has been parsed, and after everything that is parsed.      *)
Archived == {"tar", "gzip", "zip"}
Early == point \in {"opened", "probing", "parsing"}
Settled == point \in {"hashing", "deriving", "fitting", "done"}

InputStands ==
  /\ file \in AllFiles /\ options \in AllOptions
  /\ IF file.signature \in Archived THEN archive.format = file.signature ELSE archive = NoArchive
  /\ cutShort => expired

(* The verdict on the name of what the file is so far. *)
NameVerdict == Verdict(format)

(* Before the parsers nothing but the identity and the name is known.       *)
EarlyStands == Early =>
  /\ structure = "unknown" /\ scripts = "absent" /\ text = "none" /\ scan = "idle"
  /\ fileStatus = IF format = Unknown THEN "unsupported" ELSE "ok"
  /\ IF point = "opened" THEN format = Unknown /\ match = "none" /\ diags = {}
     ELSE /\ options.mode # "quick"
          /\ format = file.signature \/ (file.signature = Unknown /\ format \in {"plain", "tiff", "ttc"})
          /\ match = IF Undecided THEN "none" ELSE NameVerdict
          /\ "EXTENSION_MISMATCH" \in diags <=> match = "no"

(* What was accepted as structured text is what its parser takes it for.    *)
Accepted ==
  /\ format = Structured /\ structure = "yes"
  /\ file.readable => file.sound /\ (file.clear \/ format \in {"json", "csv"})
FamilyStands == point = "family" =>
  /\ options.mode # "quick"
  /\ format # "ooxml" /\ (file.signature \in Archived => format = file.signature)
  /\ IF Kind[format] = "archive"
     THEN fileStatus = "ok" /\ format = file.signature /\ (Undecided => match = "none")
     ELSE scan = "idle"
  /\ archive = NoArchive => scan \in {"idle", "unavailable"}
  /\ structure = "no" => fileStatus = "corrupt"
  /\ fileStatus = "corrupt" => ContentBroken \/ Misjudged
  /\ fileStatus = "ok" =>
       /\ Structured # "none" => Accepted
       /\ file.signature # Unknown /\ match = "none" =>
            file.extension = "none" \/ (file.signature = "zip" /\ file.extension \in DOMAIN MainPart)
       /\ file.signature = "svg" => scripts = "complete"

LateStands == Settled =>
  /\ format = "ooxml" => office.at = "done"
  /\ fileStatus = "corrupt" => ContentBroken \/ Misjudged \/ cutShort
  /\ fileStatus = "ok" =>
       /\ scan = IF archive # NoArchive /\ options.mode # "quick" THEN "complete" ELSE "idle"
       /\ options.mode # "quick" =>
            /\ file.readable /\ format \in BuiltIn => ~ContentBroken
            /\ file.signature # Unknown /\ match = "none" => file.extension = "none"
            /\ file.signature = "svg" => scripts = "complete"
  /\ point \in {"fitting", "done"} => ~cutShort
  /\ point # "hashing" /\ options.expected # "none" =>
       digest \in {"match", "mismatch"} \/ diags \cap {"HASH_SIZE_LIMIT", "HASH_FAILED"} # {}

(* The name and the text, once the parser of the text has spoken.           *)
NameStands == ~Early =>
  /\ match # "none" => match = NameVerdict
  /\ match = "no" => "EXTENSION_MISMATCH" \in diags
  /\ "EXTENSION_MISMATCH" \in diags => match = "no" \/ (file.signature = "pointer" /\ format = "yaml")
TextStands == ~Early =>
  /\ text # "none" => format \in TextTypes \cup StructuredFormats
  /\ options.mode # "quick" /\ text # "unclear" /\ Kind[format] = "text" => file.clear \/ ~file.readable
  /\ format = "yaml" => file.clear \/ ~file.readable

StatusStands ==
  /\ fileError = "none"
  /\ fileStatus = "ok" => format # Unknown
  /\ fileStatus \in {"ok", "unsupported"} => diags \cap (Shortfalls \cup Accusations) = {}
  /\ diags \cap StructuredLimits # {} => structure = "unknown"

AnswerStands ==
  IF fileStatus = "error" THEN point = "done" /\ fileError # "none" /\ diags = {}
  ELSE StatusStands /\ EarlyStands /\ FamilyStands /\ LateStands /\ NameStands /\ TextStands
FileFacts == InputStands /\ FileTypeOK /\ AnswerStands
-----------------------------------------------------------------------------
(* What an archive consists of. *)
Blocks == {File1, Link, Empty, Zero, Other}
(* The blocks of an archive, and how many there may be. *)
LEMMA ArchiveShape ==
  ASSUME archive \in Archives \cup {NoArchive}
  PROVE  /\ Length \in Nat /\ DOMAIN archive.blocks = 1..Length
         /\ \A i \in 1..Length : archive.blocks[i] \in Blocks
         /\ archive.format # "zip" => Length <= LongestStream
         /\ archive.format = "zip" => \A i \in 1..Length : archive.blocks[i].is = "entry"
         /\ archive.ending \in {"eof", "error"} /\ archive.format \in {"tar", "gzip", "zip", "other"}
         /\ IsPackage(package)
         /\ archive.format = "other" => archive = NoArchive
<1>1. ASSUME NEW n \in 0..LongestStream, NEW H, archive.blocks \in [1..n -> H]
      PROVE  Length = n /\ DOMAIN archive.blocks = 1..n /\ \A i \in 1..n : archive.blocks[i] \in H
  <2>1. archive.blocks \in Seq(H) /\ DOMAIN archive.blocks = 1..n
    BY <1>1, ArchiveAssumption
  <2>2. n \in Nat
    BY ArchiveAssumption
  <2> QED BY <2>1, <2>2, <1>1, LenProperties DEF Length
<1>2. IsPackage(NoPackage)
  BY DEF IsPackage, NoPackage
<1>3. ASSUME archive = NoArchive
      PROVE  Length = 0 /\ archive.blocks = <<>> /\ archive.ending = "eof" /\ archive.format = "other"
             /\ package = NoPackage
  BY <1>3 DEF NoArchive, Length, package
<1>4. CASE archive = NoArchive
  BY <1>2, <1>3, <1>4, ArchiveAssumption
<1>5. CASE archive \in [format : {"tar", "gzip"}, blocks : Streams, ending : {"eof", "error"}, package : {NoPackage}]
  <2>1. archive.blocks \in Streams /\ archive.format \in {"tar", "gzip"} /\ archive.ending \in {"eof", "error"}
        /\ package = NoPackage
    BY <1>5 DEF package
  <2>2. PICK n \in 0..LongestStream : archive.blocks \in [1..n -> Blocks]
    BY <2>1 DEF Streams, Blocks
  <2> QED BY <1>1, <1>2, <2>1, <2>2, ArchiveAssumption
<1>6. CASE archive \in [format : {"zip"}, blocks : Directories, ending : {"eof", "error"}, package : {NoPackage}]
  <2>1. archive.blocks \in Directories /\ archive.format = "zip" /\ archive.ending \in {"eof", "error"}
        /\ package = NoPackage
    BY <1>6 DEF package
  <2>2. PICK n \in 0..LongestStream : archive.blocks \in [1..n -> {File1, Link, Empty}]
    BY <2>1 DEF Directories
  <2>3. \A b \in {File1, Link, Empty} : b \in Blocks /\ b.is = "entry"
    BY DEF Blocks, File1, Link, Empty, Header
  <2>4. Length = n /\ DOMAIN archive.blocks = 1..n /\ \A i \in 1..n : archive.blocks[i] \in {File1, Link, Empty}
    BY <1>1, <2>2
  <2> QED BY <1>2, <2>1, <2>3, <2>4, ArchiveAssumption
<1>7. CASE archive \in [format : {"zip"}, blocks : {<<File1>>}, ending : {"eof"}, package : Packages]
  <2>1. archive.blocks = <<File1>> /\ archive.format = "zip" /\ archive.ending = "eof" /\ package \in Packages
    BY <1>7 DEF package
  <2>2. Length = 1 /\ DOMAIN archive.blocks = 1..1 /\ archive.blocks[1] = File1
    BY <2>1 DEF Length
  <2>3. File1 \in Blocks /\ File1.is = "entry"
    BY DEF Blocks, File1, Header
  <2>4. IsPackage(package)
    BY <2>1, ArchiveAssumption
  <2> QED BY <2>1, <2>2, <2>3, <2>4
<1> QED BY <1>4, <1>5, <1>6, <1>7 DEF Archives

(* What Onward says of a block, from what g says of the blocks behind it.   *)
Step(g, p) ==
  IF p > Length THEN Nothing("error")
  ELSE IF p = Length THEN Nothing(archive.ending)
  ELSE LET block == archive.blocks[p + 1]
       IN  IF block.is = "entry"
           THEN LET rest == g[p + 1 + block.data]
                IN  [end |-> rest.end, count |-> rest.count + 1, total |-> rest.total + block.size,
                     links |-> rest.links + IF block = Link THEN 1 ELSE 0]
           ELSE IF block.is = "other" THEN Nothing("error")
           ELSE IF p + 1 = Length THEN Nothing(archive.ending)
           ELSE Nothing(IF archive.blocks[p + 2].is = "zero" THEN "eof" ELSE "error")
Reads(g, D) == g = [p \in D |-> Step(g, p)]

(* The recursion over the blocks of a stream does define what is ahead of    *)
(* each of them: an entry leads further, and not beyond the block after the *)
(* last one.                                                                *)
LEMMA OnwardReads ==
  ASSUME archive \in Archives \cup {NoArchive}, archive.format # "zip"
  PROVE  \A p \in 0..(LongestStream + 1) : Onward[p] = Step(Onward, p)
<1> DEFINE Final == LongestStream + 1
           D(n) == {p \in 0..Final : p + n >= Final}
           N == {n \in Nat : \E g : Reads(g, D(n))}
<1>0. LongestStream \in Nat /\ Length \in Nat /\ Length <= LongestStream
      /\ \A i \in 1..Length : archive.blocks[i].data \in {0, 1}
  BY ArchiveShape, ArchiveAssumption DEF Blocks, File1, Link, Empty, Zero, Other, Header
<1>1. ASSUME NEW g, NEW h, NEW p \in 0..Final, \A q \in 0..Final : q > p => g[q] = h[q]
      PROVE  Step(g, p) = Step(h, p)
  <2>1. CASE p < Length /\ archive.blocks[p + 1].is = "entry"
    <3>1. p + 1 \in 1..Length /\ archive.blocks[p + 1].data \in {0, 1}
      BY <1>0, <2>1
    <3>2. p + 1 + archive.blocks[p + 1].data \in 0..Final /\ p + 1 + archive.blocks[p + 1].data > p
      BY <1>0, <2>1, <3>1
    <3> QED BY <1>1, <3>2 DEF Step
  <2>2. CASE ~(p < Length /\ archive.blocks[p + 1].is = "entry")
    BY <1>0, <2>2 DEF Step
  <2> QED BY <2>1, <2>2
<1>2. 0 \in N
  <2>1. D(0) = {Final}
    BY <1>0
  <2>2. \A g, h : Step(g, Final) = Step(h, Final)
    BY <1>0 DEF Step
  <2> DEFINE g == [p \in D(0) |-> Step(<<>>, p)]
  <2>3. g = [p \in D(0) |-> Step(g, p)]
    <3> HIDE DEF Final
    <3> QED BY <2>1, <2>2
  <2> QED BY <2>3 DEF Reads
<1>3. ASSUME NEW n \in Nat, n \in N PROVE n + 1 \in N
  <2>1. PICK g : Reads(g, D(n))
    BY <1>3
  <2> DEFINE h == [p \in D(n + 1) |-> Step(g, p)]
  <2>2. \A p \in D(n) : p \in D(n + 1) /\ h[p] = g[p]
    <3> SUFFICES ASSUME NEW p \in D(n) PROVE p \in D(n + 1) /\ h[p] = g[p]
      OBVIOUS
    <3>1. p \in D(n + 1)
      BY <1>0
    <3>2. g[p] = Step(g, p)
      BY <2>1 DEF Reads
    <3> QED BY <3>1, <3>2
  <2>3. \A p \in D(n + 1), q \in 0..Final : q > p => q \in D(n)
    BY <1>0
  <2>4. \A p \in D(n + 1) : Step(g, p) = Step(h, p)
    <3> SUFFICES ASSUME NEW p \in D(n + 1) PROVE Step(g, p) = Step(h, p)
      OBVIOUS
    <3>1. p \in 0..Final /\ \A q \in 0..Final : q > p => g[q] = h[q]
      <4> HIDE DEF h, Final
      <4> QED BY <2>2, <2>3
    <3> QED BY <1>1, <3>1
  <2>5. h = [p \in D(n + 1) |-> Step(h, p)]
    BY <2>4
  <2>6. Reads(h, D(n + 1))
    BY <2>5 DEF Reads
  <2> QED BY <2>6
<1>4. Final \in N
  <2>1. Final \in Nat
    BY <1>0
  <2> HIDE DEF N, Final
  <2> QED BY <1>2, <1>3, <2>1, NatSetInduction
<1>5. D(Final) = 0..Final
  BY <1>0
<1>6. \E g : g = [p \in 0..Final |-> Step(g, p)]
  BY <1>4, <1>5, Zenon DEF Reads
<1>7. Onward = [p \in 0..Final |-> Step(Onward, p)]
  BY <1>6 DEF Onward, Step
<1> QED BY <1>7

(* What is ahead of a block is counted in natural numbers. *)
Content == [end : {"eof", "error"}, count : Nat, total : Nat, links : Nat]
(* What is counted ahead of a block is a natural number. *)
LEMMA OnwardCounts ==
  ASSUME archive \in Archives \cup {NoArchive}, archive.format # "zip"
  PROVE  \A p \in 0..(LongestStream + 1) : Onward[p] \in Content
<1> DEFINE Final == LongestStream + 1
           N == {n \in Nat : \A p \in 0..Final : p + n >= Final => Onward[p] \in Content}
<1>0. /\ LongestStream \in Nat /\ Length \in Nat /\ Length <= LongestStream
      /\ \A i \in 1..Length : archive.blocks[i].data \in {0, 1} /\ archive.blocks[i].size \in Nat
      /\ archive.ending \in {"eof", "error"}
  BY ArchiveShape, ArchiveAssumption DEF Blocks, File1, Link, Empty, Zero, Other, Header
<1>1. \A end \in {"eof", "error"} : Nothing(end) \in Content
  BY DEF Nothing, Content
<1>2. ASSUME NEW p \in 0..Final, \A q \in 0..Final : q > p => Onward[q] \in Content
      PROVE  Onward[p] \in Content
  <2>1. Onward[p] = Step(Onward, p)
    BY OnwardReads
  <2>2. CASE p < Length /\ archive.blocks[p + 1].is = "entry"
    <3> DEFINE block == archive.blocks[p + 1]
               rest == Onward[p + 1 + block.data]
    <3>1. block.data \in {0, 1} /\ block.size \in Nat /\ p + 1 + block.data \in 0..Final
      BY <1>0, <2>2
    <3>2. rest \in Content
      BY <1>2, <3>1
    <3>3. Onward[p] = [end |-> rest.end, count |-> rest.count + 1, total |-> rest.total + block.size,
                       links |-> rest.links + IF block = Link THEN 1 ELSE 0]
      BY <1>0, <2>1, <2>2 DEF Step
    <3> HIDE DEF rest, block
    <3> QED BY <3>1, <3>2, <3>3 DEF Content
  <2>3. CASE ~(p < Length /\ archive.blocks[p + 1].is = "entry")
    BY <1>0, <1>1, <2>1, <2>3 DEF Step
  <2> QED BY <2>2, <2>3
<1>3. 0 \in N
  BY <1>0, <1>2
<1>4. ASSUME NEW n \in Nat, n \in N PROVE n + 1 \in N
  <2> SUFFICES ASSUME NEW p \in 0..Final, p + (n + 1) >= Final PROVE Onward[p] \in Content
    OBVIOUS
  <2> QED BY <1>0, <1>2, <1>4
<1>5. Final \in N
  <2>1. Final \in Nat
    BY <1>0
  <2> HIDE DEF N, Final
  <2> QED BY <1>3, <1>4, <2>1, NatSetInduction
<1> QED BY <1>0, <1>5

(* A read either runs into the limit, or meets a block, or the end of the   *)
(* stream: the limit of the outer reader of a compressed stream never comes  *)
(* first (countingReader.Read).                                             *)
LEMMA ReadIs ==
  ASSUME archive \in Archives \cup {NoArchive}, NEW p \in Nat
  PROVE  /\ ReadAfter(p) = "limit" => Left(p) <= 0
         /\ Left(p) <= 0 => ReadAfter(p) = "limit"
         /\ ReadAfter(p) = "block" => p < Length
         /\ ReadAfter(p) \notin {"limit", "block"} => p >= Length /\ ReadAfter(p) = archive.ending
<1>1. Length \in Nat /\ archive.ending \in {"eof", "error"} /\ ScanBlocks \in Nat
  BY ArchiveShape, ArchiveAssumption
<1>2. p > 0 /\ OuterLeft(p) <= 0 => Left(p) <= 0
  BY <1>1 DEF OuterLeft, Left
<1>3. Left(p) \in Int
  BY <1>1 DEF Left
<1> QED BY <1>1, <1>2, <1>3 DEF ReadAfter

(* What the TAR reader says of the next header is what is ahead, but for the *)
(* limit.                                                                   *)
LEMMA HeaderIs ==
  ASSUME archive \in Archives \cup {NoArchive}, archive.format # "zip",
         position \in Nat, position <= Length, pending \in {0, 1}
  PROVE  /\ NextHeader.at \in Nat /\ NextHeader.got \in {"entry", "eof", "error"}
         /\ NextHeader.hitLimit \in BOOLEAN
         /\ NextHeader.got = "entry" =>
              /\ NextHeader.at = position + pending + 1 /\ position + pending < Length
              /\ archive.blocks[position + pending + 1].is = "entry"
         /\ NextHeader.got = "eof" /\ ~NextHeader.hitLimit => Onward[position + pending] = Nothing("eof")
         /\ NextHeader.got = "error" /\ ~NextHeader.hitLimit =>
              Onward[position + pending].end = "error"
         /\ NextHeader.hitLimit => Left(NextHeader.at) <= 0
<1> DEFINE P == position + pending
<1>0. /\ Length \in Nat /\ Length <= LongestStream /\ LongestStream \in Nat
      /\ P \in Nat /\ P <= Length + 1 /\ P \in 0..(LongestStream + 1) /\ P + 1 \in Nat
      /\ \A i \in 1..Length : archive.blocks[i] \in Blocks
      /\ archive.ending \in {"eof", "error"}
  BY ArchiveShape, ArchiveAssumption
<1>1. Onward[P] = Step(Onward, P)
  BY <1>0, OnwardReads
<1>2. \A end : Nothing(end).end = end
  BY DEF Nothing
<1>3. ASSUME NEW q \in Nat, ReadAfter(q) # "block"
      PROVE  /\ EndAt(q).at = q /\ EndAt(q).got \in {"eof", "error"} /\ EndAt(q).hitLimit \in BOOLEAN
             /\ ~EndAt(q).hitLimit => q >= Length /\ EndAt(q).got = archive.ending
             /\ EndAt(q).hitLimit => Left(q) <= 0
  BY <1>0, <1>3, ReadIs DEF EndAt, Stop
<1>4. ASSUME pending = 1, ReadAfter(position) # "block"
      PROVE  NextHeader = Stop("error", position)
  <2>1. {p \in position..(position + pending - 1) : ReadAfter(p) # "block"} = {position}
    BY <1>4
  <2>2. Min({position}) = position
    BY DEF Min
  <2> QED BY <2>1, <2>2, Zenon DEF NextHeader
<1>5. ASSUME ~(pending = 1 /\ ReadAfter(position) # "block")
      PROVE  NextHeader = HeaderAt(P)
  <2>1. {p \in position..(position + pending - 1) : ReadAfter(p) # "block"} = {}
    BY <1>5
  <2> QED BY <2>1, Zenon DEF NextHeader
<1>6. CASE pending = 1 /\ ReadAfter(position) # "block"
  <2>1. NextHeader.at = position /\ NextHeader.got = "error" /\ NextHeader.hitLimit = (ReadAfter(position) = "limit")
    BY <1>4, <1>6 DEF Stop
  <2>2. ReadAfter(position) # "limit" => P > Length
    BY <1>0, <1>6, ReadIs
  <2>3. P > Length => Onward[P].end = "error"
    BY <1>1, <1>2 DEF Step
  <2> QED BY <2>1, <2>2, <2>3, ReadIs
<1>7. CASE ~(pending = 1 /\ ReadAfter(position) # "block")
  <2>0. NextHeader = HeaderAt(P)
    BY <1>5, <1>7
  <2>p. P <= Length
    <3>1. pending = 1 => position < Length
      BY <1>7, ReadIs
    <3> QED BY <1>0, <3>1
  <2>1. CASE ReadAfter(P) # "block"
    <3>1. NextHeader = EndAt(P)
      BY <2>0, <2>1 DEF HeaderAt
    <3>2. P >= Length => P = Length /\ Onward[P] = Nothing(archive.ending)
      BY <1>0, <1>1, <2>p DEF Step
    <3> QED BY <1>0, <1>2, <1>3, <2>1, <3>1, <3>2
  <2>2. CASE ReadAfter(P) = "block"
    <3> DEFINE block == archive.blocks[P + 1]
    <3>1. P < Length /\ P + 1 \in 1..Length /\ block \in Blocks
      BY <1>0, <2>2, ReadIs
    <3>2. block.is \in {"entry", "zero", "other"}
      BY <3>1 DEF Blocks, File1, Link, Empty, Zero, Other, Header
    <3>3. CASE block.is = "entry"
      <4>1. NextHeader = [got |-> "entry", at |-> P + 1, hitLimit |-> FALSE]
        BY <2>0, <2>2, <3>3 DEF HeaderAt
      <4> QED BY <1>0, <3>1, <3>3, <4>1
    <3>4. CASE block.is = "other"
      <4>1. NextHeader = [got |-> "error", at |-> P + 1, hitLimit |-> FALSE]
        BY <2>0, <2>2, <3>4 DEF HeaderAt
      <4>2. Onward[P] = Nothing("error")
        BY <1>0, <1>1, <3>1, <3>4 DEF Step
      <4> QED BY <1>0, <1>2, <4>1, <4>2
    <3>5. CASE block.is = "zero" /\ ReadAfter(P + 1) # "block"
      <4>1. NextHeader = EndAt(P + 1)
        BY <2>0, <2>2, <3>5 DEF HeaderAt
      <4>2. P + 1 >= Length => Onward[P] = Nothing(archive.ending)
        BY <1>0, <1>1, <3>1, <3>5 DEF Step
      <4> QED BY <1>0, <1>2, <1>3, <3>5, <4>1, <4>2
    <3>6. CASE block.is = "zero" /\ ReadAfter(P + 1) = "block"
      <4>0. P + 1 < Length
        BY <1>0, <3>6, ReadIs
      <4>1. NextHeader = [got |-> IF archive.blocks[P + 2].is = "zero" THEN "eof" ELSE "error",
                          at |-> P + 2, hitLimit |-> FALSE]
        BY <2>0, <2>2, <3>6 DEF HeaderAt
      <4>2. Onward[P] = Nothing(IF archive.blocks[P + 2].is = "zero" THEN "eof" ELSE "error")
        BY <1>0, <1>1, <3>1, <3>6, <4>0 DEF Step
      <4> QED BY <1>0, <1>2, <4>1, <4>2
    <3> QED BY <3>2, <3>3, <3>4, <3>5, <3>6
  <2> QED BY <2>1, <2>2
<1> QED BY <1>6, <1>7

(* The whole archive, case by case.                                         *)
LEMMA WholeIs ==
  ASSUME archive \in Archives \cup {NoArchive}
  PROVE  /\ Measured => Whole = [end |-> archive.ending, count |-> 0, total |-> Length, links |-> 0]
         /\ archive.format = "zip" /\ archive.ending = "error" => Whole = Nothing("error")
         /\ Directory => Whole = [end |-> "eof", count |-> Length, total |-> SumFunctionOnSet(Sizes, 1..Length),
                                  links |-> Cardinality(LinksAmong(1..Length))]
         /\ archive.format # "zip" /\ ~Measured => Whole = Onward[0]
<1>1. archive.ending \in {"eof", "error"} /\ archive.format \in {"tar", "gzip", "zip", "other"}
  BY ArchiveShape
<1>2. Measured => archive.format = "gzip"
  BY DEF Measured
<1>3. SumFunction(Sizes) = SumFunctionOnSet(Sizes, 1..Length)
  BY DEF SumFunction, Sizes
<1>4. [Nothing(archive.ending) EXCEPT !.total = Length] =
        [end |-> archive.ending, count |-> 0, total |-> Length, links |-> 0]
  BY DEF Nothing
<1>5. CASE Measured
  BY <1>2, <1>4, <1>5 DEF Whole, Directory
<1>6. CASE ~Measured /\ archive.format = "zip"
  BY <1>1, <1>3, <1>6 DEF Whole, Directory
<1>7. CASE ~Measured /\ archive.format # "zip"
  BY <1>7 DEF Whole, Directory
<1> QED BY <1>5, <1>6, <1>7

(* The entries of a directory up to one of them: their sizes and links are   *)
(* counted, more of them with each entry.                                   *)
LEMMA DirectoryAddsUp ==
  ASSUME archive \in Archives \cup {NoArchive}, NEW n \in Nat, n <= Length
  PROVE  /\ SumFunctionOnSet(Sizes, 1..n) \in Nat /\ Cardinality(LinksAmong(1..n)) \in Nat
         /\ SumFunctionOnSet(Sizes, 1..n) <= SumFunctionOnSet(Sizes, 1..Length)
         /\ Cardinality(LinksAmong(1..n)) <= Cardinality(LinksAmong(1..Length))
         /\ n < Length =>
              /\ SumFunctionOnSet(Sizes, 1..(n + 1)) = SumFunctionOnSet(Sizes, 1..n) + archive.blocks[n + 1].size
              /\ Cardinality(LinksAmong(1..(n + 1))) =
                   Cardinality(LinksAmong(1..n)) + IF archive.blocks[n + 1] = Link THEN 1 ELSE 0
         /\ n = 0 => SumFunctionOnSet(Sizes, 1..n) = 0 /\ Cardinality(LinksAmong(1..n)) = 0
<1>0. /\ Length \in Nat /\ \A i \in 1..Length : archive.blocks[i].size \in Nat
      /\ \A i \in 1..Length : Sizes[i] = archive.blocks[i].size /\ Sizes[i] \in Nat /\ Sizes[i] \in Int
  BY ArchiveShape DEF Blocks, File1, Link, Empty, Zero, Other, Header, Sizes
<1>1. IsFiniteSet(1..n) /\ IsFiniteSet(1..Length) /\ 1..n \in SUBSET (1..Length)
  <2>1. 1 \in Int /\ n \in Int /\ Length \in Int /\ n <= Length
    BY <1>0
  <2>2. IsFiniteSet(1..n) /\ IsFiniteSet(1..Length)
    BY <2>1, FS_Interval
  <2> QED BY <2>1, <2>2
<1>2. \A i \in 1..n : Sizes[i] \in Nat /\ Sizes[i] \in Int
  BY <1>0
<1>3. SumFunctionOnSet(Sizes, 1..n) \in Int /\ 0 <= SumFunctionOnSet(Sizes, 1..n)
  BY <1>1, <1>2, SumType, SumOfSubset
<1>4. SumFunctionOnSet(Sizes, 1..n) <= SumFunctionOnSet(Sizes, 1..Length)
  BY <1>0, <1>1, SumOfSubset
<1>5. LinksAmong(1..n) \subseteq 1..n /\ LinksAmong(1..Length) \subseteq 1..Length
      /\ LinksAmong(1..n) \subseteq LinksAmong(1..Length)
  BY <1>1 DEF LinksAmong
<1>6. IsFiniteSet(LinksAmong(1..n)) /\ IsFiniteSet(LinksAmong(1..Length))
  BY <1>1, <1>5, FS_Subset
<1>7. Cardinality(LinksAmong(1..n)) \in Nat /\ Cardinality(LinksAmong(1..n)) <= Cardinality(LinksAmong(1..Length))
  BY <1>5, <1>6, FS_CardinalityType, FS_Subset
<1>8. ASSUME n < Length
      PROVE  /\ SumFunctionOnSet(Sizes, 1..(n + 1)) = SumFunctionOnSet(Sizes, 1..n) + archive.blocks[n + 1].size
             /\ Cardinality(LinksAmong(1..(n + 1))) =
                  Cardinality(LinksAmong(1..n)) + IF archive.blocks[n + 1] = Link THEN 1 ELSE 0
  <2>1. n + 1 \in 1..Length /\ 1..(n + 1) \in SUBSET (1..Length) /\ n + 1 \in 1..(n + 1)
        /\ (1..(n + 1)) \ {n + 1} = 1..n /\ n + 1 \notin 1..n
    BY <1>0, <1>8
  <2>2. IsFiniteSet(1..(n + 1)) /\ \A i \in 1..(n + 1) : Sizes[i] \in Int
    <3>1. 1 \in Int /\ n + 1 \in Int
      OBVIOUS
    <3>2. IsFiniteSet(1..(n + 1))
      BY <3>1, FS_Interval
    <3> QED BY <1>0, <2>1, <3>2
  <2>3. SumFunctionOnSet(Sizes, 1..(n + 1)) = Sizes[n + 1] + SumFunctionOnSet(Sizes, (1..(n + 1)) \ {n + 1})
    BY <2>1, <2>2, SumWithout
  <2>4. SumFunctionOnSet(Sizes, 1..(n + 1)) = Sizes[n + 1] + SumFunctionOnSet(Sizes, 1..n)
    BY <2>1, <2>3
  <2>5. CASE archive.blocks[n + 1] = Link
    <3>1. LinksAmong(1..(n + 1)) = LinksAmong(1..n) \cup {n + 1} /\ n + 1 \notin LinksAmong(1..n)
      BY <2>1, <2>5 DEF LinksAmong
    <3>2. Cardinality(LinksAmong(1..(n + 1))) = Cardinality(LinksAmong(1..n)) + 1
      BY <1>6, <3>1, FS_AddElement
    <3> QED BY <1>0, <1>3, <2>1, <2>4, <2>5, <3>2
  <2>6. CASE archive.blocks[n + 1] # Link
    <3>1. LinksAmong(1..(n + 1)) = LinksAmong(1..n)
      BY <2>1, <2>6 DEF LinksAmong
    <3> QED BY <1>0, <1>3, <1>7, <2>1, <2>4, <2>6, <3>1
  <2> QED BY <2>5, <2>6
<1>9. ASSUME n = 0 PROVE SumFunctionOnSet(Sizes, 1..n) = 0 /\ Cardinality(LinksAmong(1..n)) = 0
  <2>1. 1..n = {} /\ LinksAmong(1..n) = {}
    BY <1>9 DEF LinksAmong
  <2> QED BY <1>1, <1>2, <2>1, SumType, FS_EmptySet
<1> QED BY <1>3, <1>4, <1>7, <1>8, <1>9

(* The whole archive is counted in natural numbers. *)
LEMMA WholeCounts == ASSUME archive \in Archives \cup {NoArchive} PROVE Whole \in Content
<1>1. Length \in Nat /\ archive.ending \in {"eof", "error"} /\ archive.format \in {"tar", "gzip", "zip", "other"}
      /\ LongestStream \in Nat
  BY ArchiveShape, ArchiveAssumption
<1>2. CASE Measured
  BY <1>1, <1>2, WholeIs DEF Content
<1>3. CASE archive.format = "zip" /\ archive.ending = "error"
  BY <1>3, WholeIs DEF Content, Nothing
<1>4. CASE Directory
  <2>1. SumFunctionOnSet(Sizes, 1..Length) \in Nat /\ Cardinality(LinksAmong(1..Length)) \in Nat
    BY <1>1, DirectoryAddsUp
  <2> QED BY <1>1, <1>4, <2>1, WholeIs DEF Content
<1>5. CASE archive.format # "zip" /\ ~Measured
  BY <1>1, <1>5, WholeIs, OnwardCounts
<1> QED BY <1>1, <1>2, <1>3, <1>4, <1>5 DEF Directory

(* Reading an archive does not change it. *)
LEMMA ArchiveStands ==
  ASSUME archive' = archive
  PROVE  /\ Whole' = Whole /\ Onward' = Onward /\ Length' = Length /\ Sizes' = Sizes
         /\ (Measured <=> Measured') /\ (Directory <=> Directory') /\ package' = package
         /\ (\A n : LinksAmong(1..n)' = LinksAmong(1..n))
<1>1. Length' = Length
  BY DEF Length
<1>2. Sizes' = Sizes /\ (Measured <=> Measured') /\ (Directory <=> Directory') /\ package' = package
  BY <1>1 DEF Sizes, Measured, Directory, package
<1>3. Onward' = Onward
  <2> DEFINE O(a) ==
        CHOOSE g : g = [p \in 0..(LongestStream + 1) |->
          IF p > Len(a.blocks) THEN Nothing("error")
          ELSE IF p = Len(a.blocks) THEN Nothing(a.ending)
          ELSE LET block == a.blocks[p + 1]
               IN  IF block.is = "entry"
                   THEN LET rest == g[p + 1 + block.data]
                        IN  [end |-> rest.end, count |-> rest.count + 1, total |-> rest.total + block.size,
                             links |-> rest.links + IF block = Link THEN 1 ELSE 0]
                   ELSE IF block.is = "other" THEN Nothing("error")
                   ELSE IF p + 1 = Len(a.blocks) THEN Nothing(a.ending)
                   ELSE Nothing(IF a.blocks[p + 2].is = "zero" THEN "eof" ELSE "error")]
  <2>1. Onward = O(archive)
    BY DEF Onward, Length
  <2>2. Onward' = O(archive')
    BY DEF Onward, Length
  <2> HIDE DEF O
  <2>3. O(archive') = O(archive)
    OBVIOUS
  <2> QED BY <2>1, <2>2, <2>3
<1>4. \A n : LinksAmong(1..n)' = LinksAmong(1..n)
  BY DEF LinksAmong
<1>5. LinksAmong(1..Length)' = LinksAmong(1..Length)
  BY <1>1 DEF LinksAmong
<1>6. Whole' = Whole
  BY <1>1, <1>2, <1>3, <1>5 DEF Whole
<1> QED BY <1>1, <1>2, <1>3, <1>4, <1>6

-----------------------------------------------------------------------------
(* The scan, step by step.                                                  *)
Counters == <<position, pending, scanned, total, links>>

(* Steps that leave the archive and what was counted in it alone.           *)
LEMMA ScanStays ==
  ASSUME ScanFacts, UNCHANGED <<archive, scan, Counters, office>>, cutShort => cutShort'
  PROVE  ScanFacts'
<1>0. /\ scan' = scan /\ position' = position /\ pending' = pending /\ scanned' = scanned /\ total' = total
      /\ links' = links /\ archive' = archive /\ office' = office
  BY DEF Counters
<1>1. /\ Whole' = Whole /\ Onward' = Onward /\ Length' = Length /\ Sizes' = Sizes
      /\ (Measured <=> Measured') /\ (Directory <=> Directory')
  BY <1>0, ArchiveStands
<1>2. ScanTypeOK'
  BY <1>0 DEF ScanFacts, ScanTypeOK
<1>3. ReadSoFar' <=> ReadSoFar
  <2>1. LinksAmong(1..scanned)' = LinksAmong(1..scanned)
    BY <1>0 DEF LinksAmong
  <2> QED BY <1>0, <1>1, <2>1, Zenon DEF ReadSoFar
<1>4. NothingRead' <=> NothingRead
  BY <1>0 DEF NothingRead
<1>5. ScanStands'
  BY <1>0, <1>1, <1>3, <1>4 DEF ScanFacts, ScanStands, WithRest
<1>6. ScanIsHonest'
  BY <1>0, <1>1 DEF ScanFacts, ScanIsHonest, Left
<1> QED BY <1>0, <1>2, <1>5, <1>6 DEF ScanFacts

(* What the first look finds: a stream of entries, a measured stream, a     *)
(* directory, or nothing to scan.                                           *)
LEMMA FirstLookIs ==
  ASSUME archive \in Archives \cup {NoArchive}
  PROVE  \/ FirstLook = "tar" /\ archive.format \in {"tar", "gzip"} /\ ~Measured
         \/ FirstLook = "gzip" /\ Measured
         \/ FirstLook = "zip" /\ Directory
         \/ FirstLook = "failed" /\ Whole.end = "error"
         \/ FirstLook = "unavailable" /\ archive = NoArchive
<1>1. /\ archive.ending \in {"eof", "error"} /\ archive.format \in {"tar", "gzip", "zip", "other"}
      /\ archive.format = "other" => archive = NoArchive
  BY ArchiveShape
<1>2. \A end : Nothing(end).end = end
  BY DEF Nothing
<1>3. CASE archive.format = "tar"
  BY <1>3 DEF FirstLook, Measured
<1>4. CASE archive.format = "gzip"
  BY <1>1, <1>4, WholeIs DEF FirstLook, Measured
<1>5. CASE archive.format = "zip"
  BY <1>1, <1>2, <1>5, WholeIs DEF FirstLook, Directory
<1>6. CASE archive.format = "other"
  BY <1>1, <1>6 DEF FirstLook
<1> QED BY <1>1, <1>3, <1>4, <1>5, <1>6

(* The first look at an archive is right. *)
LEMMA BeginKeeps ==
  ASSUME ScanFacts, BeginScan
  PROVE  ScanFacts'
<1>0. /\ scan = "idle" /\ scan' = FirstLook /\ NothingRead /\ office.at = "idle" /\ archive \in Archives \cup {NoArchive}
      /\ archive' = archive /\ office' = office /\ ScanTypeOK
      /\ position' = position /\ pending' = pending /\ scanned' = scanned /\ total' = total /\ links' = links
  BY DEF ScanFacts, ScanStands, BeginScan
<1>1. /\ Whole' = Whole /\ Onward' = Onward /\ Length' = Length /\ Sizes' = Sizes
      /\ (Measured <=> Measured') /\ (Directory <=> Directory')
  BY <1>0, ArchiveStands
<1>2. /\ position = 0 /\ pending = 0 /\ scanned = 0 /\ total = 0 /\ links = 0 /\ Length \in Nat
  BY <1>0, ArchiveShape DEF NothingRead
<1>3. ScanTypeOK'
  BY <1>0, FirstLookIs DEF ScanTypeOK, ScanStages
<1>4. NothingRead'
  BY <1>0 DEF NothingRead
<1>5. ReadSoFar'
  <2>1. LinksAmong(1..scanned)' = LinksAmong(1..scanned)
    BY <1>0 DEF LinksAmong
  <2>2. SumFunctionOnSet(Sizes, 1..scanned) = 0 /\ Cardinality(LinksAmong(1..scanned)) = 0
    BY <1>0, <1>2, DirectoryAddsUp
  <2>3. SumFunctionOnSet(Sizes', 1..scanned') = 0 /\ Cardinality(LinksAmong(1..scanned)') = 0
    BY <1>0, <1>1, <2>1, <2>2, Zenon
  <2> QED BY <1>0, <1>1, <1>2, <2>3 DEF ReadSoFar
<1>6. scan' = "tar" => position <= Length /\ Whole = WithRest(Onward[position + pending])'
  <2> SUFFICES ASSUME scan' = "tar" PROVE Whole = WithRest(Onward[position + pending])' /\ position <= Length
    OBVIOUS
  <2>1. archive.format # "zip" /\ ~Measured
    BY <1>0, FirstLookIs
  <2>2. 0 \in 0..(LongestStream + 1)
    BY ArchiveAssumption
  <2>3. Whole = Onward[0] /\ Onward[0] \in Content
    BY <1>0, <2>1, <2>2, WholeIs, OnwardCounts
  <2>4. WithRest(Onward[position + pending])' =
          [end |-> Onward[0].end, count |-> 0 + Onward[0].count, total |-> 0 + Onward[0].total,
           links |-> 0 + Onward[0].links]
    BY <1>0, <1>1, <1>2 DEF WithRest
  <2> QED BY <1>2, <2>3, <2>4 DEF Content
<1>7. ScanStands'
  BY <1>0, <1>1, <1>2, <1>4, <1>5, <1>6, FirstLookIs DEF ScanStands
<1>8. ScanIsHonest'
  BY <1>0, <1>1, FirstLookIs DEF ScanIsHonest
<1> QED BY <1>0, <1>3, <1>7, <1>8 DEF ScanFacts

(* While a TAR stream is read, what is ahead and what was counted are the    *)
(* whole archive.                                                           *)
LEMMA TarStands ==
  ASSUME ScanFacts, scan = "tar"
  PROVE  /\ archive.format # "zip" /\ office.at = "idle" /\ Length \in Nat /\ position \in Nat /\ position <= Length
         /\ position + pending \in 0..(LongestStream + 1) /\ Onward[position + pending] \in Content
         /\ Whole = WithRest(Onward[position + pending])
         /\ scanned <= Whole.count /\ total <= Whole.total /\ links <= Whole.links
<1>1. /\ archive \in Archives \cup {NoArchive} /\ ScanTypeOK /\ archive.format \in {"tar", "gzip"}
      /\ position <= Length /\ office.at = "idle" /\ Whole = WithRest(Onward[position + pending])
  BY DEF ScanFacts, ScanStands
<1>2. archive.format # "zip" /\ Length \in Nat /\ Length <= LongestStream /\ LongestStream \in Nat
  BY <1>1, ArchiveShape, ArchiveAssumption
<1>3. position + pending \in 0..(LongestStream + 1)
  BY <1>1, <1>2 DEF ScanTypeOK
<1>4. Onward[position + pending] \in Content
  BY <1>1, <1>2, <1>3, OnwardCounts
<1>5. scanned <= Whole.count /\ total <= Whole.total /\ links <= Whole.links
  BY <1>1, <1>4, ArchiveAssumption DEF WithRest, Content, ScanTypeOK
<1> QED BY <1>1, <1>2, <1>3, <1>4, <1>5 DEF ScanTypeOK

(* A scan that ends where it stands keeps the facts if its verdict is right. *)
LEMMA EndingScan ==
  ASSUME ScanFacts, scan \in {"tar", "gzip", "zip"}, scan' \in {"complete", "truncated", "failed"},
         UNCHANGED <<archive, office>>, position' \in Nat, scanned' = scanned, pending' = pending,
         total' \in Nat, links' \in Nat, ScanIsHonest'
  PROVE  ScanFacts'
<1>1. ScanTypeOK'
  BY DEF ScanFacts, ScanTypeOK, ScanStages
<1>2. office.at = "idle" /\ office' = office
  BY DEF ScanFacts, ScanStands
<1>3. ScanStands'
  BY <1>2 DEF ScanStands
<1> QED BY <1>1, <1>3 DEF ScanFacts

(* inspectTAR counts an entry, and its data is what comes next. *)
LEMMA TarEntryKeeps == ASSUME ScanFacts, TarEntry PROVE ScanFacts'
<1> DEFINE P == position + pending
           entry == archive.blocks[P + 1]
<1>0. /\ scan = "tar" /\ scanned < MaxHeaders /\ NextHeader.got = "entry" /\ position' = NextHeader.at
      /\ archive' = archive /\ office' = office /\ archive \in Archives \cup {NoArchive} /\ ScanTypeOK
  BY DEF ScanFacts, TarEntry, ReadTarHeader
<1>1. NextHeader.at = P + 1 /\ P < Length /\ entry.is = "entry"
  BY <1>0, HeaderIs, TarStands DEF ScanTypeOK
<1>2. /\ P \in Nat /\ Length \in Nat /\ Length <= LongestStream /\ LongestStream \in Nat /\ P + 1 \in 1..Length
      /\ entry \in {File1, Link, Empty}
  <2>1. P \in Nat /\ Length \in Nat /\ Length <= LongestStream /\ LongestStream \in Nat
    BY <1>0, ArchiveShape, ArchiveAssumption, TarStands DEF ScanTypeOK
  <2>2. P + 1 \in 1..Length
    BY <1>1, <2>1
  <2>3. entry \in Blocks
    BY <1>0, <2>2, ArchiveShape
  <2> HIDE DEF entry
  <2>4. Zero.is = "zero" /\ Other.is = "other"
    BY DEF Zero, Other
  <2>5. entry \in {File1, Link, Empty}
    BY <1>1, <2>3, <2>4 DEF Blocks
  <2> QED BY <2>1, <2>2, <2>5
<1>3. entry.size \in Nat /\ entry.data \in {0, 1}
  <2> HIDE DEF entry
  <2> QED BY <1>2 DEF File1, Link, Empty, Header
<1>4. P + 1 + entry.data \in 0..(LongestStream + 1) /\ P + 1 \in Nat /\ P + 1 <= Length
  BY <1>2, <1>3
<1> DEFINE rest == Onward[P + 1 + entry.data]
           one == IF entry = Link THEN 1 ELSE 0
<1>5. rest \in Content
  BY <1>0, <1>4, OnwardCounts, TarStands
<1>6. Onward[P] = [end |-> rest.end, count |-> rest.count + 1, total |-> rest.total + entry.size,
                   links |-> rest.links + one]
  <2>1. Onward[P] = Step(Onward, P)
    BY <1>0, OnwardReads, TarStands
  <2> QED BY <1>1, <1>2, <2>1 DEF Step
<1>7. Whole = [end |-> rest.end, count |-> scanned + (rest.count + 1), total |-> total + (rest.total + entry.size),
               links |-> links + (rest.links + one)]
  BY <1>0, <1>6, TarStands DEF WithRest
<1>8. one \in {0, 1} /\ scanned \in Nat /\ total \in Nat /\ links \in Nat
  BY <1>0, ArchiveAssumption DEF ScanTypeOK
<1>9. /\ Whole' = Whole /\ Onward' = Onward /\ Length' = Length
      /\ (Measured <=> Measured') /\ office.at = "idle" /\ archive.format \in {"tar", "gzip"} /\ ~Measured
  BY <1>0, ArchiveStands DEF ScanFacts, ScanStands
<1> HIDE DEF rest, one
<1>10. CASE SizeFits(entry)
  <2>1. /\ scanned' = scanned + 1 /\ total' = total + entry.size /\ links' = links + one
        /\ pending' = entry.data /\ scan' = scan
    BY <1>0, <1>1, <1>10 DEF TarEntry, CountEntry, one
  <2> HIDE DEF entry
  <2>2. ScanTypeOK'
    BY <1>0, <1>1, <1>3, <1>4, <1>8, <2>1, ArchiveAssumption DEF ScanTypeOK
  <2>3. Whole = [end |-> rest.end, count |-> (scanned + 1) + rest.count, total |-> (total + entry.size) + rest.total,
                 links |-> (links + one) + rest.links]
    BY <1>3, <1>5, <1>7, <1>8 DEF Content
  <2>4. WithRest(Onward[position + pending])' =
          [end |-> rest.end, count |-> (scanned + 1) + rest.count, total |-> (total + entry.size) + rest.total,
           links |-> (links + one) + rest.links]
    BY <1>0, <1>1, <1>9, <2>1 DEF WithRest, rest
  <2>5. ScanStands'
    BY <1>0, <1>1, <1>4, <1>9, <2>1, <2>3, <2>4 DEF ScanStands
  <2>6. ScanIsHonest'
    BY <1>0, <2>1 DEF ScanIsHonest
  <2> QED BY <1>0, <2>2, <2>5, <2>6 DEF ScanFacts
<1>11. CASE ~SizeFits(entry)
  <2>1. scan' = "truncated" /\ UNCHANGED <<pending, scanned, total, links>>
    BY <1>0, <1>1, <1>11 DEF TarEntry
  <2>2. Whole.total > LargestTotal
    <3> HIDE DEF entry
    <3> QED BY <1>3, <1>5, <1>7, <1>8, <1>11, ArchiveAssumption DEF SizeFits, Content
  <2>3. ScanIsHonest'
    BY <1>0, <1>9, <2>1, <2>2, TarStands DEF ScanIsHonest
  <2>4. position' \in Nat
    BY <1>0, <1>1, <1>4
  <2>5. scanned' = scanned /\ pending' = pending /\ total' = total /\ links' = links
    BY <2>1
  <2> QED BY <1>0, <1>8, <2>1, <2>3, <2>4, <2>5, EndingScan
<1> QED BY <1>10, <1>11

(* inspectTAR stops: at the end of the archive, at an error, at the cap on   *)
(* headers or because the deadline has passed.                              *)
LEMMA TarStopKeeps ==
  ASSUME ScanFacts, TarEnds \/ TarBreaks \/ TarCapped \/ (scan = "tar" /\ InterruptScan)
  PROVE  ScanFacts'
<1>0. /\ scan = "tar" /\ archive' = archive /\ office' = office /\ archive \in Archives \cup {NoArchive} /\ ScanTypeOK
      /\ pending' = pending /\ scanned' = scanned /\ total' = total /\ links' = links
      /\ position \in Nat /\ scan' \in {"complete", "truncated", "failed"}
  BY DEF ScanFacts, TarEnds, TarBreaks, TarCapped, InterruptScan, ReadTarHeader, ScanTypeOK
<1>1. Whole' = Whole /\ total \in Nat /\ links \in Nat /\ scanned \in Nat
  BY <1>0, ArchiveStands, ArchiveAssumption DEF ScanTypeOK
<1>2. NextHeader.at \in Nat /\ NextHeader.hitLimit \in BOOLEAN /\ NextHeader.got \in {"entry", "eof", "error"}
  BY <1>0, HeaderIs, TarStands DEF ScanTypeOK
<1>3. position' \in Nat
  BY <1>0, <1>2 DEF TarEnds, TarBreaks, TarCapped, InterruptScan, ReadTarHeader
<1>4. ASSUME NextHeader.got = "eof", ~NextHeader.hitLimit
      PROVE  Whole = [end |-> "eof", count |-> scanned, total |-> total, links |-> links]
  <2>1. Onward[position + pending] = Nothing("eof")
    BY <1>0, <1>4, HeaderIs, TarStands DEF ScanTypeOK
  <2>2. Whole = [end |-> "eof", count |-> scanned + 0, total |-> total + 0, links |-> links + 0]
    BY <1>0, <2>1, TarStands DEF WithRest, Nothing
  <2> QED BY <1>1, <2>2
<1>5. CASE TarEnds
  <2>1. /\ NextHeader.got = "eof" /\ position' = NextHeader.at
        /\ scan' = IF NextHeader.hitLimit THEN "truncated" ELSE "complete"
    BY <1>5 DEF TarEnds, ReadTarHeader
  <2>2. NextHeader.hitLimit => Left(position') <= 0
    BY <1>0, <2>1, HeaderIs, TarStands DEF ScanTypeOK
  <2>3. ScanIsHonest'
    BY <1>0, <1>1, <1>2, <1>4, <2>1, <2>2, TarStands DEF ScanIsHonest, Left
  <2> QED BY <1>0, <1>1, <1>3, <2>3, EndingScan
<1>6. CASE TarBreaks
  <2>1. /\ NextHeader.got = "error" /\ position' = NextHeader.at
        /\ scan' = IF NextHeader.hitLimit \/ Left(NextHeader.at) <= 0 THEN "truncated" ELSE "failed"
    BY <1>6 DEF TarBreaks, ReadTarHeader
  <2>2. NextHeader.hitLimit => Left(position') <= 0
    BY <1>0, <2>1, HeaderIs, TarStands DEF ScanTypeOK
  <2>3. ~NextHeader.hitLimit => Whole.end = "error"
    <3>1. ~NextHeader.hitLimit => Onward[position + pending].end = "error"
      BY <1>0, <2>1, HeaderIs, TarStands DEF ScanTypeOK
    <3> QED BY <1>0, <3>1, TarStands DEF WithRest
  <2>4. ScanIsHonest'
    BY <1>0, <1>1, <1>2, <2>1, <2>2, <2>3, TarStands DEF ScanIsHonest, Left
  <2> QED BY <1>0, <1>1, <1>3, <2>4, EndingScan
<1>7. CASE TarCapped
  <2>1. /\ scanned = MaxHeaders /\ position' = NextHeader.at
        /\ scan' = IF NextHeader.got = "eof" /\ ~NextHeader.hitLimit THEN "complete" ELSE "truncated"
    BY <1>7 DEF TarCapped
  <2>2. ScanIsHonest'
    BY <1>0, <1>1, <1>2, <1>4, <2>1, TarStands DEF ScanIsHonest
  <2> QED BY <1>0, <1>1, <1>3, <2>2, EndingScan
<1>8. CASE InterruptScan
  <2>1. ScanIsHonest'
    BY <1>8 DEF InterruptScan, ScanIsHonest
  <2> QED BY <1>0, <1>1, <1>3, <2>1, EndingScan
<1> QED BY <1>5, <1>6, <1>7, <1>8

(* inspectArchive measures a compressed stream that is no TAR. *)
LEMMA GzipKeeps == ASSUME ScanFacts, MeasureGzip PROVE ScanFacts'
<1> DEFINE reach == Min({Length, ScanBlocks})
<1>0. /\ scan = "gzip" /\ archive' = archive /\ office' = office /\ archive \in Archives \cup {NoArchive} /\ ScanTypeOK
      /\ pending' = pending /\ scanned' = scanned /\ links' = links /\ Measured /\ NothingRead
      /\ position' = reach /\ total' = reach
      /\ scan' = IF ReadAfter(reach) = "limit" THEN "truncated"
                 ELSE IF archive.ending = "error" THEN "failed" ELSE "complete"
  BY DEF ScanFacts, ScanStands, MeasureGzip
<1>1. Length \in Nat /\ ScanBlocks \in Nat /\ archive.ending \in {"eof", "error"}
  BY <1>0, ArchiveShape, ArchiveAssumption
<1>2. reach \in Nat /\ reach <= Length /\ (reach = Length \/ reach = ScanBlocks)
  <2>1. \E m \in {Length, ScanBlocks} : \A n \in {Length, ScanBlocks} : m =< n
    BY <1>1
  <2>2. reach \in {Length, ScanBlocks} /\ \A n \in {Length, ScanBlocks} : reach =< n
    BY <2>1 DEF Min
  <2> QED BY <1>1, <2>2
<1> HIDE DEF reach
<1>3. Whole' = Whole /\ Whole = [end |-> archive.ending, count |-> 0, total |-> Length, links |-> 0]
  BY <1>0, ArchiveStands, WholeIs
<1>4. ReadAfter(reach) = "limit" => Left(reach) <= 0
  BY <1>0, <1>2, ReadIs
<1>5. ReadAfter(reach) # "limit" => reach = Length
  <2>1. ReadAfter(reach) # "limit" => ~(Left(reach) <= 0)
    BY <1>0, <1>2, ReadIs
  <2> QED BY <1>1, <1>2, <2>1 DEF Left
<1>6. scanned = 0 /\ links = 0
  BY <1>0 DEF NothingRead
<1>7. ScanIsHonest'
  BY <1>0, <1>1, <1>2, <1>3, <1>4, <1>5, <1>6 DEF ScanIsHonest, Left
<1> QED BY <1>0, <1>2, <1>6, <1>7, EndingScan

(* inspectZIP counts an entry of the directory. *)
LEMMA ZipEntryKeeps == ASSUME ScanFacts, ZipEntry PROVE ScanFacts'
<1> DEFINE entry == archive.blocks[scanned + 1]
           one == IF entry = Link THEN 1 ELSE 0
<1>0. /\ scan = "zip" /\ scanned < Length /\ scanned < MaxHeaders /\ archive' = archive /\ office' = office
      /\ position' = position /\ pending' = pending /\ archive \in Archives \cup {NoArchive} /\ ScanTypeOK
      /\ Directory /\ position = 0 /\ pending = 0 /\ ReadSoFar /\ office.at = "idle"
  BY DEF ScanFacts, ScanStands, ZipEntry
<1>1. scanned \in Nat /\ Length \in Nat /\ total \in Nat /\ links \in Nat /\ scanned + 1 \in 1..Length
      /\ scanned + 1 \in 0..MaxHeaders
  BY <1>0, ArchiveShape, ArchiveAssumption DEF ScanTypeOK
<1>2. entry.size \in Nat
  BY <1>0, <1>1, ArchiveShape DEF Blocks, File1, Link, Empty, Zero, Other, Header
<1>3. /\ SumFunctionOnSet(Sizes, 1..(scanned + 1)) = total + entry.size
      /\ Cardinality(LinksAmong(1..(scanned + 1))) = links + one
  BY <1>0, <1>1, DirectoryAddsUp DEF ReadSoFar
<1>4. /\ Whole' = Whole /\ Length' = Length /\ Sizes' = Sizes /\ (Directory <=> Directory')
      /\ (Measured <=> Measured')
  BY <1>0, ArchiveStands
<1>5. /\ Whole.count = Length /\ Whole.total = SumFunctionOnSet(Sizes, 1..Length)
      /\ Whole.links = Cardinality(LinksAmong(1..Length))
  BY <1>0, WholeIs
<1>6. one \in {0, 1}
  OBVIOUS
<1>7. CASE SizeFits(entry)
  <2>1. /\ scanned' = scanned + 1 /\ total' = total + entry.size /\ links' = links + one /\ scan' = scan
    BY <1>7 DEF ZipEntry, CountEntry
  <2> HIDE DEF one, entry
  <2>2. ScanTypeOK'
    BY <1>0, <1>1, <1>2, <1>6, <2>1 DEF ScanTypeOK
  <2>3. LinksAmong(1..scanned)' = LinksAmong(1..(scanned + 1))
    BY <1>0, <2>1 DEF LinksAmong
  <2>4. ReadSoFar'
    <3>1. scanned' <= Length'
      BY <1>1, <1>4, <2>1
    <3>2. total' = SumFunctionOnSet(Sizes', 1..scanned')
      BY <1>3, <1>4, <2>1, Zenon
    <3>3. links' = Cardinality(LinksAmong(1..scanned)')
      BY <1>3, <2>1, <2>3, Zenon
    <3> QED BY <3>1, <3>2, <3>3 DEF ReadSoFar
  <2>5. ScanStands'
    BY <1>0, <1>4, <2>1, <2>4 DEF ScanStands
  <2>6. ScanIsHonest'
    BY <1>0, <2>1 DEF ScanIsHonest
  <2> QED BY <1>0, <2>2, <2>5, <2>6 DEF ScanFacts
<1>8. CASE ~SizeFits(entry)
  <2>1. scanned' = scanned /\ total' = total /\ links' = links + one /\ scan' = "truncated"
    BY <1>8 DEF ZipEntry
  <2> HIDE DEF one, entry
  <2>2. /\ scanned + 1 <= Length /\ scanned + 1 \in Nat
        /\ SumFunctionOnSet(Sizes, 1..(scanned + 1)) <= SumFunctionOnSet(Sizes, 1..Length)
        /\ Cardinality(LinksAmong(1..(scanned + 1))) <= Cardinality(LinksAmong(1..Length))
    BY <1>0, <1>1, DirectoryAddsUp
  <2>3. total + entry.size <= Whole.total /\ links + one <= Whole.links /\ scanned <= Whole.count
    BY <1>1, <1>3, <1>5, <2>2
  <2>4. Whole.total \in Nat
    BY <1>0, WholeCounts DEF Content
  <2>5. Whole.total > LargestTotal /\ total <= Whole.total
    BY <1>1, <1>2, <1>8, <2>3, <2>4, ArchiveAssumption DEF SizeFits
  <2>6. ScanIsHonest'
    BY <1>4, <2>1, <2>3, <2>5 DEF ScanIsHonest
  <2>7. position' \in Nat /\ total' \in Nat /\ links' \in Nat
    BY <1>0, <1>1, <1>6, <2>1
  <2> QED BY <1>0, <2>1, <2>6, <2>7, EndingScan
<1> QED BY <1>7, <1>8

(* inspectZIP stops: the whole directory is read and the package may be     *)
(* looked at, or it is longer than the cap, or the deadline has passed.     *)
LEMMA ZipStopKeeps ==
  ASSUME ScanFacts, ZipEnds \/ (scan = "zip" /\ InterruptScan)
  PROVE  ScanFacts'
<1>0. /\ scan = "zip" /\ archive' = archive /\ office' = office
      /\ position' = position /\ pending' = pending /\ scanned' = scanned /\ total' = total /\ links' = links
      /\ archive \in Archives \cup {NoArchive} /\ ScanTypeOK
      /\ Directory /\ position = 0 /\ pending = 0 /\ ReadSoFar /\ office.at = "idle"
  BY DEF ScanFacts, ScanStands, ZipEnds, InterruptScan
<1>1. scanned \in Nat /\ Length \in Nat /\ total \in Nat /\ links \in Nat /\ scanned <= Length /\ scanned <= MaxHeaders
  BY <1>0, ArchiveShape, ArchiveAssumption DEF ScanTypeOK, ReadSoFar
<1>2. /\ Whole' = Whole /\ Length' = Length /\ Sizes' = Sizes /\ (Directory <=> Directory')
      /\ (Measured <=> Measured')
  BY <1>0, ArchiveStands
<1>3. CASE ZipEnds /\ ~(Length > MaxHeaders)
  <2>1. scan' = "package" /\ scanned = Length
    BY <1>1, <1>3, ArchiveAssumption DEF ZipEnds
  <2>2. ScanTypeOK'
    BY <1>0, <2>1 DEF ScanTypeOK, ScanStages
  <2>3. ReadSoFar'
    <3>1. LinksAmong(1..scanned)' = LinksAmong(1..scanned)
      BY <1>0 DEF LinksAmong
    <3> QED BY <1>0, <1>2, <3>1, Zenon DEF ReadSoFar
  <2>4. ScanStands'
    BY <1>0, <1>2, <2>1, <2>3 DEF ScanStands
  <2>5. ScanIsHonest'
    BY <2>1 DEF ScanIsHonest
  <2> QED BY <1>0, <2>2, <2>4, <2>5 DEF ScanFacts
<1>4. CASE ZipEnds /\ Length > MaxHeaders
  <2>1. scan' = "truncated" /\ scanned = MaxHeaders
    BY <1>1, <1>4, ArchiveAssumption DEF ZipEnds
  <2>2. total <= SumFunctionOnSet(Sizes, 1..Length) /\ links <= Cardinality(LinksAmong(1..Length))
    BY <1>0, <1>1, DirectoryAddsUp DEF ReadSoFar
  <2>3. scanned <= Whole.count /\ total <= Whole.total /\ links <= Whole.links
    BY <1>0, <1>1, <2>2, WholeIs
  <2>4. ScanIsHonest'
    BY <1>0, <1>2, <2>1, <2>3 DEF ScanIsHonest
  <2> QED BY <1>0, <1>1, <2>1, <2>4, EndingScan
<1>5. CASE InterruptScan
  <2>1. scan' = "failed" /\ ScanIsHonest'
    BY <1>5 DEF InterruptScan, ScanIsHonest
  <2> QED BY <1>0, <1>1, <2>1, EndingScan
<1> QED BY <1>3, <1>4, <1>5

(* Of a directory that was read completely the package is looked at; then   *)
(* the scan is complete.                                                    *)
LEMMA PackageKeepsScan == ASSUME ScanFacts, InspectPackage PROVE ScanFacts'
<1>0. /\ scan = "package" /\ archive' = archive
      /\ position' = position /\ pending' = pending /\ scanned' = scanned /\ total' = total /\ links' = links
      /\ scan' = IF office'.at \in {"none", "done"} THEN "complete" ELSE scan
      /\ archive \in Archives \cup {NoArchive} /\ ScanTypeOK
      /\ Directory /\ position = 0 /\ pending = 0 /\ ReadSoFar /\ scanned = Length
  BY DEF ScanFacts, ScanStands, InspectPackage
<1>1. /\ Whole' = Whole /\ Length' = Length /\ Sizes' = Sizes /\ (Directory <=> Directory')
      /\ (Measured <=> Measured')
  BY <1>0, ArchiveStands
<1>2. ScanTypeOK'
  BY <1>0 DEF ScanTypeOK, ScanStages
<1>3. ReadSoFar'
  <2>1. LinksAmong(1..scanned)' = LinksAmong(1..scanned)
    BY <1>0 DEF LinksAmong
  <2> QED BY <1>0, <1>1, <2>1, Zenon DEF ReadSoFar
<1>4. ScanStands'
  BY <1>0, <1>1, <1>3 DEF ScanStands
<1>5. Whole = [end |-> "eof", count |-> scanned, total |-> total, links |-> links]
  <2>1. total = SumFunctionOnSet(Sizes, 1..Length) /\ links = Cardinality(LinksAmong(1..Length))
    BY <1>0, Zenon DEF ReadSoFar
  <2> QED BY <1>0, <2>1, WholeIs
<1>6. ScanIsHonest'
  BY <1>0, <1>1, <1>5 DEF ScanIsHonest
<1> QED BY <1>0, <1>2, <1>4, <1>6 DEF ScanFacts

-----------------------------------------------------------------------------
(* The package, step by step.                                               *)
(* What is known of a package before any part is read. *)
LEMMA PackageShape ==
  ASSUME IsPackage(package)
  PROVE  /\ \A p \in Entries : package.parts[p] \in Conditions /\ Condition(p) = package.parts[p]
         /\ \A p : p \notin Entries => Condition(p) = "absent"
         /\ \A p : Condition(p) = "absent" => p \notin Entries
         /\ \A c \in Conditions : PartSize(c) \in Nat \ {0} /\ (PartSize(c) > MaxPart => c = "huge")
         /\ \A p \in Entries : CanRead(p) /\ ~Duplicate(p) /\ ~Garbled(p) => Readable(p)
         /\ package.outside \subseteq {"rels", "first.rels", "second.rels"} /\ IsFiniteSet(package.outside)
         /\ package.kinds \subseteq DOMAIN MainPart
<1>1. \A p \in Entries : package.parts[p] \in Conditions /\ Condition(p) = package.parts[p]
  BY DEF IsPackage, Entries, Condition
<1>2. \A p : p \notin Entries => Condition(p) = "absent"
  BY DEF Condition
<1>3. "absent" \notin Conditions
  BY DEF Conditions
<1>4. \A p : Condition(p) = "absent" => p \notin Entries
  BY <1>1, <1>3
<1>5. \A c \in Conditions : PartSize(c) \in Nat \ {0} /\ (PartSize(c) > MaxPart => c = "huge")
      /\ (c = "huge" => PartSize(c) > MaxPart)
  BY OfficeAssumption DEF Conditions, PartSize
<1>6. ASSUME NEW p \in Entries, CanRead(p), ~Duplicate(p), ~Garbled(p)
      PROVE  Readable(p)
  <2>1. package.parts[p] # "huge"
    BY <1>1, <1>5, <1>6, OfficeAssumption DEF CanRead
  <2> QED BY <1>1, <1>6, <2>1 DEF CanRead, Duplicate, Garbled, Readable, Conditions
<1>7. DOMAIN RelationParts = {1, 2} /\ RelationParts[1] = "first.rels" /\ RelationParts[2] = "second.rels"
  BY DEF RelationParts
<1>8. {RelationParts[i] : i \in DOMAIN RelationParts} = {"first.rels", "second.rels"}
  BY <1>7
<1>9. package.outside \subseteq {"rels", "first.rels", "second.rels"}
  BY <1>8 DEF IsPackage
<1>10. IsFiniteSet({"rels", "first.rels", "second.rels"})
  <2>1. IsFiniteSet(({} \cup {"first.rels"}) \cup {"second.rels"})
    BY FS_EmptySet, FS_AddElement
  <2>2. {"rels", "first.rels", "second.rels"} = (({} \cup {"first.rels"}) \cup {"second.rels"}) \cup {"rels"}
    OBVIOUS
  <2> QED BY <2>1, <2>2, FS_AddElement
<1>11. IsFiniteSet(package.outside)
  BY <1>9, <1>10, FS_Subset
<1>12. package.kinds \subseteq DOMAIN MainPart
  BY DEF IsPackage
<1> QED BY <1>1, <1>2, <1>4, <1>5, <1>6, <1>9, <1>11, <1>12

(* The parts with relations of their own, each once. *)
LEMMA RelationsAre ==
  /\ Len(Relations) \in Nat
  /\ \A i \in 1..Len(Relations) : Relations[i] \in Entries \cap {"first.rels", "second.rels"}
  /\ \A p \in Entries \cap {"first.rels", "second.rels"} : \E i \in 1..Len(Relations) : p = Relations[i]
  /\ \A i, j \in 1..Len(Relations) : Relations[i] = Relations[j] => i = j
<1> DEFINE a == "first.rels"
           b == "second.rels"
           R == {a, b}
<1>0. RelationParts[1] = a /\ RelationParts[2] = b
  BY DEF RelationParts
<1>1. <<>> \in Seq(R) /\ <<a>> \in Seq(R) /\ <<b>> \in Seq(R)
  OBVIOUS
<1>2. CASE a \in Entries /\ b \in Entries
  <2>1. Relations = <<a>> \o <<b>>
    BY <1>0, <1>2 DEF Relations, There
  <2>2. Len(Relations) = 2 /\ Relations[1] = a /\ Relations[2] = b
    <3>1. Len(<<a>>) = 1 /\ Len(<<b>>) = 1
      OBVIOUS
    <3> QED BY <1>1, <2>1, <3>1, ConcatProperties
  <2> QED BY <1>2, <2>2
<1>3. CASE a \in Entries /\ b \notin Entries
  <2>1. Relations = <<a>>
    BY <1>0, <1>1, <1>3, ConcatEmptySeq DEF Relations, There
  <2> QED BY <1>3, <2>1
<1>4. CASE a \notin Entries /\ b \in Entries
  <2>1. Relations = <<b>>
    BY <1>0, <1>1, <1>4, ConcatEmptySeq DEF Relations, There
  <2> QED BY <1>4, <2>1
<1>5. CASE a \notin Entries /\ b \notin Entries
  <2>1. Relations = <<>>
    BY <1>0, <1>1, <1>5, ConcatEmptySeq DEF Relations, There
  <2> QED BY <1>5, <2>1
<1> QED BY <1>2, <1>3, <1>4, <1>5

(* The main parts that are declared and related to prove the kinds they do:  *)
(* detectOOXML misses none and makes none up.                               *)
LEMMA VerifiedIsProved == ASSUME IsPackage(package) PROVE Verified = Proved
<1>1. ASSUME NEW q PROVE Condition(q) \notin {"absent", "twice"} <=> q \in Entries /\ ~Duplicate(q)
  BY PackageShape DEF Duplicate
<1> QED BY <1>1 DEF Verified, Proved, KindsOf

(* A package does not change while it is looked at. *)
LEMMA PackageStands ==
  ASSUME archive' = archive
  PROVE  /\ package' = package /\ Entries' = Entries /\ Relations' = Relations /\ Verified' = Verified
         /\ Proved' = Proved /\ AllOutside' = AllOutside
         /\ \A p : /\ (Duplicate(p) <=> Duplicate(p)') /\ Condition(p)' = Condition(p)
                   /\ (Readable(p) <=> Readable(p)')
<1>1. package' = package
  BY DEF package
<1>2. Entries' = Entries
  BY <1>1 DEF Entries
<1>3. \A p : /\ (Duplicate(p) <=> Duplicate(p)') /\ Condition(p)' = Condition(p)
             /\ (Readable(p) <=> Readable(p)')
  BY <1>1, <1>2 DEF Duplicate, Condition, Readable
<1>4. Relations' = Relations
  BY <1>2 DEF Relations, There
<1>5. Verified' = Verified
  BY <1>1, <1>2 DEF Verified, Duplicate
<1>6. AllOutside' = AllOutside
  <2>1. {p \in package'.outside : Condition(p)' # "absent"} = {p \in package.outside : Condition(p) # "absent"}
    BY <1>1, <1>3
  <2> QED BY <2>1 DEF AllOutside
<1>7. Proved' = Proved
  <2> DEFINE T == {q \in package.targets : Condition(q) \notin {"absent", "twice"}}
  <2>1. T' = T
    BY <1>1, <1>3
  <2>2. \A p : KindsOf(p)' = KindsOf(p)
    BY <1>1 DEF KindsOf
  <2>3. Proved = UNION {KindsOf(p) : p \in T} /\ Proved' = UNION {KindsOf(p)' : p \in T'}
    BY DEF Proved
  <2> HIDE DEF T
  <2> QED BY <2>1, <2>2, <2>3
<1> QED BY <1>1, <1>2, <1>3, <1>4, <1>5, <1>6, <1>7

(* What the stages say of a document is true of the whole package.          *)
LEMMA DoneIsHonest ==
  OfficeTypeOK /\ PackageFacts /\ IsPackage(package) /\ office.at = "done" => OfficeIsHonest
<1> SUFFICES ASSUME OfficeTypeOK, PackageFacts, IsPackage(package), office.at = "done" PROVE OfficeIsHonest
  OBVIOUS
<1> DEFINE all == {p \in package.outside : Condition(p) # "absent"}
           R == {"first.rels", "second.rels"}
<1>1. /\ {"types", "rels"} \subseteq Entries /\ Verified = {office.kind}
      /\ office.macros <=> package.kinds \cap MacroKinds # {} \/ "macros" \in Entries
      /\ office.next <= Len(Relations) + 1 /\ office.outside <= Cardinality(Related)
      /\ office.complete =>
           /\ office.counted <=> office.kind \in Counted
           /\ office.outside = Cardinality(Related) /\ \A p \in Reached : Readable(p)
           /\ office.next = Len(Relations) + 1
  BY DEF PackageFacts, HasMetadata, HasKind
<1>2. office.left \in 0..PartsBudget /\ office.next \in Nat /\ office.outside \in Nat
  BY DEF OfficeTypeOK
<1>3. Proved = {office.kind} /\ office.kind \in package.kinds
  <2>1. office.kind \in Verified
    BY <1>1
  <2> QED BY <1>1, <2>1, VerifiedIsProved DEF Verified
<1>4. office.macros <=> office.kind \in MacroKinds \/ Condition("macros") # "absent"
                          \/ package.kinds \cap MacroKinds # {}
  <2>1. Condition("macros") # "absent" <=> "macros" \in Entries
    BY PackageShape
  <2> QED BY <1>1, <1>3, <2>1
<1>5. Reached \subseteq Entries \cap R
  <2>1. \A i \in 1..(office.next - 1) : i \in 1..Len(Relations)
    BY <1>1, <1>2, RelationsAre
  <2> QED BY <2>1, RelationsAre DEF Reached
<1>6. all = package.outside \cap Entries
  BY PackageShape
<1>7. Related \subseteq all /\ IsFiniteSet(all)
  <2>1. IsFiniteSet(package.outside)
    BY PackageShape
  <2>2. IsFiniteSet(all)
    BY <1>6, <2>1, FS_Subset
  <2> QED BY <1>1, <1>5, <1>6, <2>2 DEF Related
<1>8. Cardinality(Related) <= Cardinality(all) /\ Cardinality(Related) \in Nat /\ Cardinality(all) \in Nat
  BY <1>7, FS_Subset, FS_CardinalityType
<1>9. AllOutside = Cardinality(all)
  BY DEF AllOutside
<1>10. office.outside <= AllOutside
  <2> HIDE DEF all
  <2> QED BY <1>1, <1>2, <1>8, <1>9
<1>11. ASSUME office.complete
       PROVE  office.outside = AllOutside /\ \A p \in R : Condition(p) # "absent" => Readable(p)
  <2>1. \A p \in Entries \cap R : p \in Reached
    <3>1. 1..(office.next - 1) = 1..Len(Relations)
      BY <1>1, <1>11, RelationsAre
    <3> QED BY <3>1, RelationsAre DEF Reached
  <2>2. all \subseteq Related
    BY <1>6, <2>1, PackageShape DEF Related
  <2>3. all = Related
    BY <1>7, <2>2
  <2>4. \A p \in R : Condition(p) # "absent" => Readable(p)
    BY <1>1, <1>11, <2>1, PackageShape
  <2> HIDE DEF all
  <2> QED BY <1>1, <1>9, <1>11, <2>3, <2>4
<1>12. {RelationParts[i] : i \in DOMAIN RelationParts} = R
  <2>1. DOMAIN RelationParts = {1, 2} /\ RelationParts[1] = "first.rels" /\ RelationParts[2] = "second.rels"
    BY DEF RelationParts
  <2> QED BY <2>1
<1> HIDE DEF all, R
<1> QED BY <1>1, <1>2, <1>3, <1>4, <1>10, <1>11, <1>12 DEF OfficeIsHonest

(* Steps that leave the package alone.                                      *)
LEMMA OfficeStays ==
  ASSUME OfficeFacts, archive' = archive, office' = office, cutShort => cutShort',
         cutShort' \in BOOLEAN, expired' \in BOOLEAN
  PROVE  OfficeFacts'
<1>1. /\ package' = package /\ Entries' = Entries /\ Relations' = Relations /\ Verified' = Verified
      /\ Proved' = Proved /\ AllOutside' = AllOutside
      /\ \A p : /\ (Duplicate(p) <=> Duplicate(p)') /\ Condition(p)' = Condition(p)
                /\ (Readable(p) <=> Readable(p)')
  BY PackageStands
<1>2. OfficeTypeOK'
  BY DEF OfficeFacts, OfficeTypeOK
<1>3. Reached' = Reached /\ Related' = Related
  BY <1>1 DEF Reached, Related
<1>4. PackageFacts'
  BY <1>1, <1>3 DEF OfficeFacts, PackageFacts, HasMetadata, HasKind
<1>5. OfficeIsHonest'
  BY <1>1 DEF OfficeFacts, OfficeIsHonest
<1> QED BY <1>2, <1>4, <1>5 DEF OfficeFacts

(* detectOOXML gives up: it must have been for the metadata or for haste.   *)
LEMMA RefusalKeeps ==
  ASSUME OfficeFacts, archive' = archive, NoOffice, cutShort' \in BOOLEAN, expired' = expired,
         Cardinality(Proved) = 1 =>
           \/ cutShort' \/ ~Readable("types") \/ ~Readable("rels")
           \/ Condition("types") = "huge" \/ Condition("rels") = "huge"
           \/ PartsBudget < PartSize(Condition("types")) + PartSize(Condition("rels"))
  PROVE  OfficeFacts'
<1>1. /\ package' = package /\ Proved' = Proved
      /\ \A p : Condition(p)' = Condition(p) /\ (Readable(p) <=> Readable(p)')
  BY PackageStands
<1>2. OfficeTypeOK /\ office' = [office EXCEPT !.at = "none"]
  BY DEF OfficeFacts, NoOffice
<1>3. OfficeTypeOK' /\ office'.at = "none"
  BY <1>2 DEF OfficeTypeOK, OfficeStages
<1>4. PackageFacts'
  BY <1>3 DEF PackageFacts, HasMetadata, HasKind
<1>5. OfficeIsHonest'
  BY <1>1, <1>3 DEF OfficeIsHonest, OfficeTypeOK
<1> QED BY <1>3, <1>4, <1>5 DEF OfficeFacts

(* The parts a package cannot be a document without. *)
LEMMA OpenPackageKeeps ==
  ASSUME OfficeFacts, IsPackage(package), archive' = archive, expired' = expired, OpenPackage
  PROVE  OfficeFacts'
<1>0. office.at = "idle" /\ cutShort' = cutShort /\ OfficeTypeOK /\ PackageFacts
  BY DEF OfficeFacts, OpenPackage
<1>1. /\ package' = package /\ Entries' = Entries
      /\ \A p : (Duplicate(p) <=> Duplicate(p)')
  BY PackageStands
<1>2. CASE {"types", "rels"} \subseteq Entries /\ ~Duplicate("types") /\ ~Duplicate("rels")
  <2>1. office' = [office EXCEPT !.at = "types"]
    BY <1>2 DEF OpenPackage
  <2>2. OfficeTypeOK' /\ office'.at = "types"
    BY <1>0, <2>1 DEF OfficeTypeOK, OfficeStages
  <2>3. /\ office'.complete = office.complete /\ office'.counted = office.counted /\ office'.left = office.left
        /\ office'.outside = office.outside /\ office'.next = office.next
    BY <1>0, <2>1 DEF OfficeTypeOK
  <2>4. PackageFacts'
    BY <1>0, <1>1, <1>2, <2>2, <2>3 DEF PackageFacts, HasMetadata, HasKind
  <2>5. OfficeIsHonest'
    BY <2>2 DEF OfficeIsHonest, OfficeTypeOK
  <2> QED BY <2>2, <2>4, <2>5 DEF OfficeFacts
<1>3. CASE ~({"types", "rels"} \subseteq Entries /\ ~Duplicate("types") /\ ~Duplicate("rels"))
  <2>1. NoOffice
    BY <1>3 DEF OpenPackage
  <2>2. ~Readable("types") \/ ~Readable("rels")
    BY <1>3, PackageShape DEF Readable, Duplicate
  <2> QED BY <1>0, <2>1, <2>2, RefusalKeeps DEF OfficeTypeOK
<1> QED BY <1>2, <1>3

(* readZIPMetadata, of the content types and of the relations. *)
LEMMA ReadPartKeeps ==
  ASSUME OfficeFacts, IsPackage(package), archive' = archive, expired' = expired,
         ReadPart("types", "rels") \/ ReadPart("rels", "match")
  PROVE  OfficeFacts'
<1> DEFINE sizeOf(p) == PartSize(package.parts[p])
<1>0. OfficeTypeOK /\ PackageFacts /\ office.at \in {"types", "rels"} /\ cutShort' \in BOOLEAN
  BY DEF OfficeFacts, ReadPart, Noted, OfficeTypeOK
<1>1. /\ package' = package /\ Entries' = Entries
      /\ \A p : (Duplicate(p) <=> Duplicate(p)')
  BY PackageStands
<1>2. /\ {"types", "rels"} \subseteq Entries /\ ~Duplicate("types") /\ ~Duplicate("rels")
      /\ office.complete /\ ~office.counted /\ office.outside = 0 /\ office.next = 1
      /\ office.at = "types" => office.left = PartsBudget
      /\ office.at = "rels" => office.left = PartsBudget - sizeOf("types")
  BY <1>0 DEF PackageFacts, HasMetadata
<1>3. \A p \in {"types", "rels"} :
        /\ sizeOf(p) \in Nat \ {0} /\ (sizeOf(p) > MaxPart => Condition(p) = "huge")
        /\ Condition(p) = package.parts[p]
  BY <1>2, PackageShape
<1>4. CASE CanRead(office.at)
  <2> DEFINE then == IF office.at = "types" THEN "rels" ELSE "match"
  <2>1. office' = [office EXCEPT !.left = LeftAfter(office.at), !.at = then]
    BY <1>0, <1>4 DEF ReadPart
  <2>2. LeftAfter(office.at) \in 0..PartsBudget /\ LeftAfter(office.at) = office.left - sizeOf(office.at)
    <3>1. sizeOf(office.at) \in Nat /\ sizeOf(office.at) <= office.left /\ office.left \in 0..PartsBudget
      BY <1>0, <1>3, <1>4 DEF CanRead, OfficeTypeOK
    <3> HIDE DEF sizeOf
    <3>2. LeftAfter(office.at) = office.left - sizeOf(office.at)
      BY DEF LeftAfter, sizeOf
    <3> QED BY <3>1, <3>2, OfficeAssumption
  <2>3. office'.at = then /\ office'.left = LeftAfter(office.at) /\ then \in {"rels", "match"}
        /\ office'.complete = office.complete /\ office'.counted = office.counted
        /\ office'.outside = office.outside /\ office'.next = office.next
    BY <1>0, <2>1 DEF OfficeTypeOK
  <2>4. then = "rels" => office'.left = PartsBudget - PartSize(package'.parts["types"])
    BY <1>0, <1>1, <1>2, <2>2, <2>3
  <2>5. OfficeTypeOK'
    <3> HIDE DEF then
    <3> QED BY <1>0, <2>1, <2>2, <2>3 DEF OfficeTypeOK, OfficeStages
  <2> HIDE DEF then
  <2>6. PackageFacts'
    BY <1>1, <1>2, <2>3, <2>4 DEF PackageFacts, HasMetadata, HasKind
  <2>7. OfficeIsHonest'
    BY <2>3, <2>5 DEF OfficeIsHonest, OfficeTypeOK
  <2> QED BY <2>5, <2>6, <2>7 DEF OfficeFacts
<1>5. CASE ~CanRead(office.at)
  <2>1. NoOffice /\ (expired => cutShort')
    BY <1>0, <1>5 DEF ReadPart, Noted
  <2>2. \/ sizeOf(office.at) > MaxPart \/ sizeOf(office.at) > office.left
        \/ package.parts[office.at] = "unreadable" \/ expired
    <3>1. sizeOf(office.at) \in Nat /\ office.left \in Int /\ MaxPart \in Int
      BY <1>0, <1>3, OfficeAssumption DEF OfficeTypeOK
    <3> QED BY <1>5, <3>1 DEF CanRead, Late
  <2>3. \/ cutShort' \/ ~Readable("types") \/ ~Readable("rels")
        \/ Condition("types") = "huge" \/ Condition("rels") = "huge"
        \/ PartsBudget < PartSize(Condition("types")) + PartSize(Condition("rels"))
    <3>1. CASE sizeOf(office.at) > MaxPart
      BY <1>0, <1>3, <3>1
    <3>2. CASE sizeOf(office.at) > office.left
      <4>1. PartsBudget \in Nat /\ sizeOf("types") \in Nat \ {0} /\ sizeOf("rels") \in Nat \ {0}
        BY <1>3, OfficeAssumption
      <4>2. PartsBudget < sizeOf("types") + sizeOf("rels")
        <5> HIDE DEF sizeOf
        <5> QED BY <1>0, <1>2, <3>2, <4>1
      <4> QED BY <1>3, <4>2
    <3>3. CASE package.parts[office.at] = "unreadable"
      BY <1>0, <1>3, <3>3 DEF Readable
    <3>4. CASE expired
      BY <2>1, <3>4
    <3> QED BY <2>2, <3>1, <3>2, <3>3, <3>4
  <2> QED BY <1>0, <2>1, <2>3, RefusalKeeps
<1> QED BY <1>4, <1>5

(* The one kind whose main part is there, declared and related to. *)
LEMMA MatchKindKeeps ==
  ASSUME OfficeFacts, IsPackage(package), archive' = archive, expired' = expired, MatchKind
  PROVE  OfficeFacts'
<1>0. office.at = "match" /\ cutShort' = cutShort /\ OfficeTypeOK /\ PackageFacts
  BY DEF OfficeFacts, MatchKind
<1>1. /\ package' = package /\ Entries' = Entries /\ Verified' = Verified
      /\ \A p : (Duplicate(p) <=> Duplicate(p)')
  BY PackageStands
<1>2. /\ {"types", "rels"} \subseteq Entries /\ ~Duplicate("types") /\ ~Duplicate("rels")
      /\ office.complete /\ ~office.counted /\ office.outside = 0 /\ office.next = 1
  BY <1>0 DEF PackageFacts, HasMetadata
<1>3. CASE ~Garbled("types") /\ ~Garbled("rels") /\ Cardinality(Verified) = 1
  <2> DEFINE k == CHOOSE x \in Verified : TRUE
             macros == package.kinds \cap MacroKinds # {} \/ "macros" \in Entries
             embedded == IF "embedding" \in Entries THEN 1 ELSE 0
  <2>1. office' = [office EXCEPT !.at = "main", !.kind = k, !.macros = macros, !.embedded = embedded]
    BY <1>3 DEF MatchKind
  <2>2. Verified = {k} /\ k \in DOMAIN MainPart
    <3>1. IsFiniteSet(Verified)
      <4>1. IsFiniteSet({"docx", "docm", "xlsx", "xlsm"})
        <5>1. IsFiniteSet(((({} \cup {"docx"}) \cup {"docm"}) \cup {"xlsx"}) \cup {"xlsm"})
          BY FS_EmptySet, FS_AddElement
        <5>2. ((({} \cup {"docx"}) \cup {"docm"}) \cup {"xlsx"}) \cup {"xlsm"} = {"docx", "docm", "xlsx", "xlsm"}
          OBVIOUS
        <5> QED BY <5>1, <5>2
      <4>2. DOMAIN MainPart = {"docx", "docm", "xlsx", "xlsm"}
        BY DEF MainPart
      <4>3. Verified \subseteq DOMAIN MainPart
        BY PackageShape DEF Verified
      <4> QED BY <4>1, <4>2, <4>3, FS_Subset
    <3>2. PICK x : Verified = {x}
      BY <1>3, <3>1, FS_Singleton
    <3>3. Verified \subseteq DOMAIN MainPart
      BY PackageShape DEF Verified
    <3> QED BY <3>2, <3>3
  <2>3. macros \in BOOLEAN /\ embedded \in {0, 1}
    OBVIOUS
  <2> HIDE DEF k, macros, embedded
  <2>4. /\ office'.at = "main" /\ office'.kind = k /\ office'.macros = macros /\ office'.complete = office.complete
        /\ office'.counted = office.counted /\ office'.outside = office.outside /\ office'.next = office.next
    BY <1>0, <2>1 DEF OfficeTypeOK
  <2>5. OfficeTypeOK'
    BY <1>0, <2>1, <2>2, <2>3 DEF OfficeTypeOK, OfficeStages
  <2>6. PackageFacts'
    BY <1>1, <1>2, <2>2, <2>4 DEF PackageFacts, HasMetadata, HasKind, macros
  <2>7. OfficeIsHonest'
    BY <2>4, <2>5 DEF OfficeIsHonest, OfficeTypeOK
  <2> QED BY <2>5, <2>6, <2>7 DEF OfficeFacts
<1>4. CASE ~(~Garbled("types") /\ ~Garbled("rels") /\ Cardinality(Verified) = 1)
  <2>1. NoOffice
    BY <1>4 DEF MatchKind
  <2>2. Cardinality(Proved) = 1 => ~Readable("types") \/ ~Readable("rels")
    BY <1>2, <1>4, VerifiedIsProved, PackageShape DEF Garbled, Readable
  <2> QED BY <1>0, <2>1, <2>2, RefusalKeeps DEF OfficeTypeOK
<1> QED BY <1>3, <1>4

(* The main part, and what the relations of the package point to. *)
LEMMA ReadMainKeeps ==
  ASSUME OfficeFacts, IsPackage(package), archive' = archive, expired' = expired, ReadMain
  PROVE  OfficeFacts'
<1> DEFINE main == MainPart[office.kind]
           wanted == office.kind \in Counted
           read == wanted /\ CanRead(main)
           left == IF read THEN LeftAfter(main) ELSE office.left
           counted == read /\ ~Garbled(main)
           complete == wanted => read /\ ~Garbled(main)
<1>0. office.at = "main" /\ OfficeTypeOK /\ PackageFacts /\ cutShort' \in BOOLEAN
  BY DEF OfficeFacts, ReadMain, Noted, OfficeTypeOK
<1>1. /\ package' = package /\ Entries' = Entries /\ Verified' = Verified /\ Relations' = Relations
      /\ \A p : (Duplicate(p) <=> Duplicate(p)') /\ (Readable(p) <=> Readable(p)')
  BY PackageStands
<1>2. /\ {"types", "rels"} \subseteq Entries /\ ~Duplicate("types") /\ ~Duplicate("rels")
      /\ office.outside = 0 /\ office.next = 1 /\ Verified = {office.kind}
      /\ office.macros <=> package.kinds \cap MacroKinds # {} \/ "macros" \in Entries
  BY <1>0 DEF PackageFacts, HasMetadata, HasKind
<1>3. office' = [office EXCEPT !.at = "relations", !.left = left, !.counted = counted,
                               !.complete = complete, !.outside = External("rels")]
  BY DEF ReadMain
<1>4. main \in Entries
  <2>1. office.kind \in Verified
    BY <1>2
  <2> QED BY <2>1 DEF Verified
<1>5. left \in 0..PartsBudget
  <2>1. PartSize(package.parts[main]) \in Nat
    <3> HIDE DEF main
    <3> QED BY <1>4, PackageShape
  <2>2. office.left \in 0..PartsBudget
    BY <1>0 DEF OfficeTypeOK
  <2>3. read => LeftAfter(main) \in 0..PartsBudget
    <3> HIDE DEF main
    <3> QED BY <2>1, <2>2, OfficeAssumption DEF CanRead, LeftAfter
  <2> QED BY <2>2, <2>3
<1>6. counted \in BOOLEAN /\ complete \in BOOLEAN /\ External("rels") \in Nat
  BY DEF External
<1>7. complete => (counted <=> wanted)
  OBVIOUS
<1> HIDE DEF left, counted, complete
<1>8. /\ office'.at = "relations" /\ office'.left = left /\ office'.counted = counted /\ office'.complete = complete
      /\ office'.outside = External("rels") /\ office'.next = office.next /\ office'.kind = office.kind
      /\ office'.macros = office.macros
  BY <1>0, <1>3 DEF OfficeTypeOK
<1>9. OfficeTypeOK'
  BY <1>0, <1>3, <1>5, <1>6 DEF OfficeTypeOK, OfficeStages
<1>10. Reached' = {}
  <2>1. \A i \in 1..(office'.next - 1) : FALSE
    BY <1>2, <1>8
  <2> QED BY <2>1 DEF Reached
<1>11. Cardinality(Related') = External("rels")
  <2>1. CASE "rels" \in package.outside
    <3>1. Related' = {"rels"}
      BY <1>1, <1>10, <2>1 DEF Related
    <3> QED BY <2>1, <3>1, FS_Singleton DEF External
  <2>2. CASE "rels" \notin package.outside
    <3>1. Related' = {}
      BY <1>1, <1>10, <2>2 DEF Related
    <3> QED BY <2>2, <3>1, FS_EmptySet DEF External
  <2> QED BY <2>1, <2>2
<1>12. PackageFacts'
  <2>1. HasMetadata' /\ HasKind'
    BY <1>8 DEF HasMetadata, HasKind
  <2>2. office'.next <= Len(Relations') + 1
    BY <1>1, <1>2, <1>8, RelationsAre
  <2>3. office'.outside <= Cardinality(Related') /\ office'.outside = Cardinality(Related')
    BY <1>6, <1>8, <1>11
  <2>4. office'.complete => (office'.counted <=> office'.kind \in Counted)
    BY <1>7, <1>8
  <2>5. \A p \in Reached' : Readable(p)'
    BY <1>10
  <2> QED BY <1>1, <1>2, <1>8, <2>1, <2>2, <2>3, <2>4, <2>5 DEF PackageFacts
<1>13. OfficeIsHonest'
  BY <1>8, <1>9 DEF OfficeIsHonest, OfficeTypeOK
<1> QED BY <1>9, <1>12, <1>13 DEF OfficeFacts

(* The parts with relations of their own, one at a time, up to the limit. *)
LEMMA RelationsKeep ==
  ASSUME OfficeFacts, IsPackage(package), archive' = archive, expired' = expired, ReadRelations \/ EndRelations
  PROVE  OfficeFacts'
<1>0. office.at = "relations" /\ OfficeTypeOK /\ PackageFacts /\ cutShort' \in BOOLEAN
  BY DEF OfficeFacts, ReadRelations, EndRelations, Noted, OfficeTypeOK, More
<1>1. /\ package' = package /\ Entries' = Entries /\ Verified' = Verified /\ Relations' = Relations
      /\ \A p : (Duplicate(p) <=> Duplicate(p)') /\ (Readable(p) <=> Readable(p)')
  BY PackageStands
<1>2. /\ {"types", "rels"} \subseteq Entries /\ ~Duplicate("types") /\ ~Duplicate("rels") /\ Verified = {office.kind}
      /\ office.macros <=> package.kinds \cap MacroKinds # {} \/ "macros" \in Entries
      /\ office.next <= Len(Relations) + 1
      /\ office.outside <= Cardinality(Related)
      /\ office.complete =>
           /\ office.counted <=> office.kind \in Counted
           /\ office.outside = Cardinality(Related)
           /\ \A p \in Reached : Readable(p)
  BY <1>0 DEF PackageFacts, HasMetadata, HasKind
<1>3. office.next \in Nat \ {0} /\ office.outside \in Nat /\ office.left \in 0..PartsBudget /\ Len(Relations) \in Nat
  BY <1>0, RelationsAre DEF OfficeTypeOK
<1>4. IsFiniteSet(Related) /\ Cardinality(Related) \in Nat
  <2>1. Related \subseteq package.outside /\ IsFiniteSet(package.outside)
    BY PackageShape DEF Related
  <2> QED BY <2>1, FS_Subset, FS_CardinalityType
<1>5. IsPackage(package)'
  BY <1>1 DEF IsPackage
<1>6. ASSUME office'.at = "done", OfficeTypeOK', PackageFacts'
      PROVE  OfficeFacts'
  <2>1. (OfficeTypeOK /\ PackageFacts /\ IsPackage(package) /\ office.at = "done" => OfficeIsHonest)'
    BY DoneIsHonest, PTL
  <2> QED BY <1>5, <1>6, <2>1 DEF OfficeFacts
<1>7. CASE EndRelations
  <2> DEFINE complete == office.complete /\ Len(Relations) <= MaxRelations
  <2>1. office' = [office EXCEPT !.at = "done", !.complete = complete] /\ ~More
    BY <1>7 DEF EndRelations
  <2>2. complete => office.complete /\ office.next = Len(Relations) + 1
    BY <1>0, <1>2, <1>3, <2>1, OfficeAssumption DEF More
  <2>3. complete \in BOOLEAN
    OBVIOUS
  <2> HIDE DEF complete
  <2>4. /\ office'.at = "done" /\ office'.complete = complete /\ office'.kind = office.kind
        /\ office'.macros = office.macros /\ office'.counted = office.counted /\ office'.next = office.next
        /\ office'.outside = office.outside
    BY <1>0, <2>1 DEF OfficeTypeOK
  <2>5. OfficeTypeOK'
    BY <1>0, <2>1, <2>3 DEF OfficeTypeOK, OfficeStages
  <2>6. Reached' = Reached /\ Related' = Related
    BY <1>1, <2>4 DEF Reached, Related
  <2>7. PackageFacts'
    BY <1>1, <1>2, <2>2, <2>4, <2>6 DEF PackageFacts, HasMetadata, HasKind
  <2> QED BY <1>6, <2>4, <2>5, <2>7
<1>8. ASSUME ReadRelations
      PROVE  OfficeFacts'
  <2>1. /\ office.next \in 1..Len(Relations) /\ Relation \in Entries /\ Relation # "rels"
        /\ Relation = Relations[office.next]
    BY <1>3, <1>8, RelationsAre DEF ReadRelations, More, Relation
  <2>2. Relation \notin Reached
    <3>1. \A i \in 1..(office.next - 1) : i \in 1..Len(Relations) /\ i # office.next
      BY <1>3, <2>1
    <3> QED BY <2>1, <3>1, RelationsAre DEF Reached
  <2>3. PartSize(package.parts[Relation]) \in Nat
    BY <2>1, PackageShape
  <2>4. CanRead(Relation) => LeftAfter(Relation) \in 0..PartsBudget
    BY <1>3, <2>3, OfficeAssumption DEF CanRead, LeftAfter
  <2>5. External(Relation) \in {0, 1}
    BY DEF External
  <2>6. ASSUME office'.next = office.next + 1
        PROVE  /\ Reached' = Reached \cup {Relation}
               /\ Cardinality(Related') = Cardinality(Related) + External(Relation)
    <3>1. 1..(office'.next - 1) = 1..(office.next - 1) \cup {office.next}
      BY <1>3, <2>6
    <3>2. Reached' = Reached \cup {Relation}
      BY <1>1, <2>1, <3>1 DEF Reached
    <3>3. CASE Relation \in package.outside
      <4>1. Related' = Related \cup {Relation} /\ Relation \notin Related
        BY <1>1, <2>1, <2>2, <3>2, <3>3 DEF Related
      <4> QED BY <1>4, <3>2, <3>3, <4>1, FS_AddElement DEF External
    <3>4. CASE Relation \notin package.outside
      <4>1. Related' = Related
        BY <1>1, <3>2, <3>4 DEF Related
      <4> QED BY <1>4, <3>2, <3>4, <4>1 DEF External
    <3> QED BY <3>3, <3>4
  <2>7. ASSUME NEW left \in 0..PartsBudget, office' = [Skip EXCEPT !.left = left]
        PROVE  OfficeFacts'
    <3>1. /\ office'.at = "relations" /\ office'.complete = FALSE /\ office'.kind = office.kind
          /\ office'.macros = office.macros /\ office'.counted = office.counted /\ office'.next = office.next + 1
          /\ office'.outside = office.outside
      BY <1>0, <2>7 DEF OfficeTypeOK, Skip
    <3>2. OfficeTypeOK'
      <4>1. office.next + 1 \in Nat \ {0}
        BY <1>3
      <4> QED BY <1>0, <2>7, <4>1 DEF OfficeTypeOK, Skip
    <3>3. office'.next <= Len(Relations) + 1 /\ office'.outside <= Cardinality(Related')
      BY <1>2, <1>3, <1>4, <2>1, <2>5, <2>6, <3>1
    <3>4. PackageFacts'
      BY <1>1, <1>2, <3>1, <3>3 DEF PackageFacts, HasMetadata, HasKind
    <3>5. OfficeIsHonest'
      BY <3>1, <3>2 DEF OfficeIsHonest, OfficeTypeOK
    <3> QED BY <3>2, <3>4, <3>5 DEF OfficeFacts
  <2>8. CASE Duplicate(Relation)
    <3>1. office' = Skip
      BY <1>8, <2>8 DEF ReadRelations
    <3>2. Skip = [Skip EXCEPT !.left = office.left]
      BY <1>0 DEF Skip, OfficeTypeOK
    <3> QED BY <1>3, <2>7, <3>1, <3>2
  <2>9. CASE ~Duplicate(Relation) /\ ~CanRead(Relation)
    <3>1. office' = [office EXCEPT !.at = "done", !.complete = FALSE]
      BY <1>8, <2>9 DEF ReadRelations
    <3>2. /\ office'.at = "done" /\ office'.complete = FALSE /\ office'.kind = office.kind
          /\ office'.macros = office.macros /\ office'.counted = office.counted /\ office'.next = office.next
          /\ office'.outside = office.outside
      BY <1>0, <3>1 DEF OfficeTypeOK
    <3>3. OfficeTypeOK'
      BY <1>0, <3>1 DEF OfficeTypeOK, OfficeStages
    <3>4. Reached' = Reached /\ Related' = Related
      BY <1>1, <3>2 DEF Reached, Related
    <3>5. PackageFacts'
      BY <1>1, <1>2, <3>2, <3>4 DEF PackageFacts, HasMetadata, HasKind
    <3> QED BY <1>6, <3>2, <3>3, <3>5
  <2>10. CASE ~Duplicate(Relation) /\ CanRead(Relation) /\ Garbled(Relation)
    <3>1. office' = [Skip EXCEPT !.left = LeftAfter(Relation)]
      BY <1>8, <2>10 DEF ReadRelations
    <3> QED BY <2>4, <2>7, <2>10, <3>1
  <2>11. CASE ~Duplicate(Relation) /\ CanRead(Relation) /\ ~Garbled(Relation)
    <3> DEFINE left == LeftAfter(Relation)
               outside == office.outside + External(Relation)
    <3>1. office' = [office EXCEPT !.left = left, !.next = office.next + 1, !.outside = outside]
      BY <1>8, <2>11 DEF ReadRelations
    <3>2. left \in 0..PartsBudget /\ outside \in Nat /\ office.next + 1 \in Nat \ {0}
      BY <1>3, <2>4, <2>5, <2>11
    <3>3. Readable(Relation)
      BY <2>1, <2>11, PackageShape
    <3>a. outside <= Cardinality(Related) + External(Relation)
          /\ (office.complete => outside = Cardinality(Related) + External(Relation))
      BY <1>2, <1>3, <1>4, <2>5
    <3> HIDE DEF left, outside
    <3>4. /\ office'.at = "relations" /\ office'.complete = office.complete /\ office'.kind = office.kind
          /\ office'.macros = office.macros /\ office'.counted = office.counted /\ office'.next = office.next + 1
          /\ office'.outside = outside
      BY <1>0, <3>1 DEF OfficeTypeOK
    <3>5. OfficeTypeOK'
      BY <1>0, <3>1, <3>2 DEF OfficeTypeOK
    <3>6. Reached' = Reached \cup {Relation} /\ Cardinality(Related') = Cardinality(Related) + External(Relation)
      BY <2>6, <3>4
    <3>7. office'.next <= Len(Relations) + 1
      BY <1>3, <2>1, <3>4
    <3>8. office'.complete => \A p \in Reached' : Readable(p)'
      BY <1>1, <1>2, <3>3, <3>4, <3>6
    <3>9. PackageFacts'
      BY <1>1, <1>2, <3>a, <3>4, <3>6, <3>7, <3>8 DEF PackageFacts, HasMetadata, HasKind
    <3>10. OfficeIsHonest'
      BY <3>4, <3>5 DEF OfficeIsHonest, OfficeTypeOK
    <3> QED BY <3>5, <3>9, <3>10 DEF OfficeFacts
  <2> QED BY <2>8, <2>9, <2>10, <2>11
<1> QED BY <1>7, <1>8

(* Every step of the inspection of a package keeps what is said of it true. *)
LEMMA PackageKeepsOffice == ASSUME ScanFacts, OfficeFacts, InspectPackage PROVE OfficeFacts'
<1>1. archive' = archive /\ expired' = expired /\ OfficeStep
  BY DEF InspectPackage
<1>2. IsPackage(package)
  BY ArchiveShape DEF ScanFacts
<1> QED BY <1>1, <1>2, OpenPackageKeeps, ReadPartKeeps, MatchKindKeeps, ReadMainKeeps, RelationsKeep DEF OfficeStep

-----------------------------------------------------------------------------
(* The archive of a file that was just opened is not read yet. *)
LEMMA ArchiveBegins == FileInit => ArchiveFacts
<1> SUFFICES ASSUME FileInit PROVE ArchiveFacts
  OBVIOUS
<1>1. archive \in Archives \cup {NoArchive}
  BY DEF FileInit
<1>2. /\ scan = "idle" /\ position = 0 /\ pending = 0 /\ scanned = 0 /\ total = 0 /\ links = 0
      /\ expired = FALSE /\ cutShort = FALSE /\ OfficeInit
  BY DEF FileInit, ScanInit
<1>3. ScanTypeOK /\ NothingRead
  BY <1>2, ArchiveAssumption DEF ScanTypeOK, ScanStages, NothingRead
<1>4. office.at = "idle" /\ office.left = PartsBudget /\ office.complete /\ ~office.counted
      /\ office.outside = 0 /\ office.next = 1
  BY <1>2 DEF OfficeInit
<1>5. OfficeTypeOK
  <2>1. PartsBudget \in 0..PartsBudget /\ 0 \in Nat /\ 1 \in Nat \ {0}
    BY OfficeAssumption
  <2>2. expired \in BOOLEAN /\ cutShort \in BOOLEAN
    BY <1>2
  <2>3. office.at \in OfficeStages /\ office.kind \in {"none"} \cup DOMAIN MainPart
        /\ office.complete \in BOOLEAN /\ office.macros \in BOOLEAN /\ office.counted \in BOOLEAN
    BY <1>2 DEF OfficeInit, OfficeStages
  <2> QED BY <1>2, <2>1, <2>2, <2>3 DEF OfficeTypeOK, OfficeInit
<1>6. ScanFacts
  BY <1>1, <1>2, <1>3, <1>4 DEF ScanFacts, ScanStands, ScanIsHonest
<1>7. PackageFacts /\ OfficeIsHonest
  BY <1>4, <1>5 DEF PackageFacts, HasMetadata, HasKind, OfficeIsHonest, OfficeTypeOK
<1> QED BY <1>5, <1>6, <1>7 DEF ArchiveFacts, OfficeFacts

(* Every step of the scan keeps the facts about the archive. *)
LEMMA ScanningKeeps == ASSUME ArchiveFacts, BeginScan \/ ScanStep PROVE ArchiveFacts'
<1>1. ScanFacts /\ OfficeFacts /\ cutShort \in BOOLEAN /\ expired \in BOOLEAN
  BY DEF ArchiveFacts, OfficeFacts, OfficeTypeOK
<1>2. CASE InspectPackage
  BY <1>1, <1>2, PackageKeepsScan, PackageKeepsOffice DEF ArchiveFacts
<1>3. CASE BeginScan
  <2>1. archive' = archive /\ office' = office /\ cutShort' = cutShort /\ expired' = expired
    BY <1>3 DEF BeginScan
  <2> QED BY <1>1, <1>3, <2>1, BeginKeeps, OfficeStays DEF ArchiveFacts
<1>4. CASE ScanStep /\ ~InspectPackage
  <2> DEFINE Still == archive' = archive /\ office' = office /\ expired' = expired
  <2>a. InterruptScan => Still /\ cutShort' = TRUE
    BY DEF InterruptScan
  <2>b. TarEntry => Still /\ cutShort' = cutShort
    BY DEF TarEntry
  <2>c. TarEnds \/ TarBreaks \/ TarCapped => Still /\ cutShort' = cutShort
    BY DEF TarEnds, TarBreaks, TarCapped
  <2>d. MeasureGzip => Still /\ cutShort' = cutShort
    BY DEF MeasureGzip
  <2>e. ZipEntry => Still /\ cutShort' = cutShort
    BY DEF ZipEntry
  <2>f. ZipEnds => Still /\ cutShort' = cutShort
    BY DEF ZipEnds
  <2>1. Still /\ (cutShort => cutShort') /\ cutShort' \in BOOLEAN
    <3> HIDE DEF Still
    <3> QED BY <1>1, <1>4, <2>a, <2>b, <2>c, <2>d, <2>e, <2>f DEF ScanStep
  <2>2. OfficeFacts'
    BY <1>1, <2>1, OfficeStays
  <2>3. InterruptScan => scan \in {"tar", "zip"}
    BY DEF InterruptScan
  <2>4. ScanFacts'
    BY <1>1, <1>4, <2>3, TarEntryKeeps, TarStopKeeps, GzipKeeps, ZipEntryKeeps, ZipStopKeeps DEF ScanStep
  <2> QED BY <2>2, <2>4 DEF ArchiveFacts
<1> QED BY <1>2, <1>3, <1>4

(* The other steps of an inspection leave the archive as it is; they only    *)
(* note that the deadline has passed or cut something short.                *)
LEMMA ArchiveKeeps ==
  ASSUME ArchiveFacts, UNCHANGED <<archive, scanVars>>, cutShort => cutShort',
         cutShort' \in BOOLEAN, expired' \in BOOLEAN
  PROVE  ArchiveFacts'
BY ScanStays, OfficeStays DEF ArchiveFacts, scanVars, Counters

(* The stages before and behind the parsers leave the archive alone. *)
LEMMA StagesLeave == Stages => UNCHANGED archiveVars \/ SystemProbeFails \/ HashInterrupted \/ Lapse
BY DEF Stages, Unreadable, RefuseOptions, Identify, SystemProbeAbsent, SystemProbeAnswers, NotStructured,
       BeyondWindow, ParseLimit, ParseInvalid, ParseValid, RefuseDigest, NoDigest, HashTooLarge, HashFails, Hash,
       TimeOut, Derive, FileFits, NamesDropped, FileNeverFits

(* Of the parsers only the scan reads the archive. *)
LEMMA FamiliesLeave == Families => UNCHANGED archiveVars \/ ProbeFails \/ ScanArchive
BY DEF Families, NoFamily, ImageParsed, ImageUnmeasured, ImageBeyondWindow, ImageInvalid, MediaProbeAbsent,
       MediaProbeAnswers, MediaProbeFails, ArchiveUnknown, ArchiveInvalid, ArchiveCut, ArchiveListed, PdfAnswers,
       PdfProbeAbsent, PdfProbeFails, PdfTextUnknown, FontAnswers, FontProbeAbsent, FontProbeFails, BinaryParsed,
       BinaryInvalid, ParserPanics, Parsed, Blamed

(* What a step of an inspection does to the archive. *)
LEMMA FileStepIs ==
  ASSUME [FileNext]_fileVars, cutShort \in BOOLEAN, expired \in BOOLEAN
  PROVE  \/ ScanArchive
         \/ UNCHANGED <<archive, scanVars>> /\ (cutShort => cutShort') /\ cutShort' \in BOOLEAN /\ expired' \in BOOLEAN
<1>1. ASSUME UNCHANGED archiveVars
      PROVE  UNCHANGED <<archive, scanVars>> /\ (cutShort => cutShort') /\ cutShort' \in BOOLEAN /\ expired' \in BOOLEAN
  BY <1>1 DEF archiveVars
<1>2. ASSUME ProbeFails
      PROVE  UNCHANGED <<archive, scanVars>> /\ (cutShort => cutShort') /\ cutShort' \in BOOLEAN /\ expired' \in BOOLEAN
  BY <1>2 DEF ProbeFails
<1>3. CASE UNCHANGED fileVars
  BY <1>1, <1>3 DEF fileVars
<1>4. CASE Stages
  BY <1>1, <1>2, <1>4, StagesLeave DEF SystemProbeFails, HashInterrupted, Lapse
<1>5. CASE Families
  BY <1>1, <1>2, <1>5, FamiliesLeave
<1> QED BY <1>3, <1>4, <1>5 DEF FileNext

(* So the facts about the archive are kept by every step of an inspection. *)
LEMMA ArchiveStep == ArchiveFacts /\ [FileNext]_fileVars => ArchiveFacts'
BY FileStepIs, ScanningKeeps, ArchiveKeeps DEF ArchiveFacts, OfficeFacts, OfficeTypeOK, ScanArchive

(* What is known of an archive makes what is said of it honest. *)
LEMMA ArchiveIsSo == ArchiveFacts => ArchiveIsHonest
<1> SUFFICES ASSUME ArchiveFacts PROVE ArchiveIsHonest
  OBVIOUS
<1>1. ScanFacts /\ OfficeFacts
  BY DEF ArchiveFacts
<1>2. office.at # "idle" => archive.format = "zip" /\ Whole.count = scanned
  <2> SUFFICES ASSUME office.at # "idle" PROVE archive.format = "zip" /\ Whole.count = scanned
    OBVIOUS
  <2>1. Directory /\ scan \in {"package", "complete"}
    BY <1>1 DEF ScanFacts, ScanStands
  <2>2. CASE scan = "package"
    BY <1>1, <2>1, <2>2, WholeIs DEF ScanFacts, ScanStands, Directory
  <2>3. CASE scan = "complete"
    BY <1>1, <2>1, <2>3 DEF ScanFacts, ScanIsHonest, Directory
  <2> QED BY <2>1, <2>2, <2>3
<1> QED BY <1>1, <1>2 DEF ArchiveIsHonest, ScanFacts, ScanIsHonest, OfficeFacts

(* What a bounded scan says of an archive is true of the whole of it, and    *)
(* what is said of an office document is true of the whole package, however *)
(* small the limits and whenever the deadline passes.                       *)
THEOREM ArchiveAnswersHonestly == FileSpec => []ArchiveIsHonest
BY ArchiveBegins, ArchiveStep, ArchiveIsSo, PTL DEF FileSpec

-----------------------------------------------------------------------------
(* The kind of every format there is. *)
LEMMA KindIs ==
  ASSUME NEW f \in KnownFormats
  PROVE  /\ Kind[f] = "text" <=> f \in {"plain", "pointer"}
         /\ Kind[f] = "data" <=> f \in {"json", "csv", "yaml", "sqlite"}
         /\ Kind[f] = "image" <=> f \in {"svg", "png", "tiff", "heic"}
         /\ Kind[f] = "archive" <=> f \in {"tar", "gzip", "zip", "bzip"}
         /\ Kind[f] = "font" <=> f \in {"ttf", "woff", "ttc"}
         /\ Kind[f] = "binary" <=> f \in {"elf", "wasm"}
         /\ Kind[f] = "media" <=> f = "movie"
         /\ Kind[f] = "unknown" <=> f = "unknown"
BY DEF KnownFormats, Kind, Unknown

(* What a signature may tell, the other formats come from a probe, the name *)
(* or the entries of a ZIP file.                                            *)
LEMMA SignaturesAre ==
  /\ Signatures \subseteq KnownFormats \ {"tiff", "ttc", "csv", "yaml", "ooxml"}
  /\ {"unknown", "plain", "tiff", "ttc", "ooxml"} \cup StructuredFormats \subseteq KnownFormats
BY DEF Signatures, KnownFormats, Kind, StructuredFormats

(* A file has a known signature, or none that is known. *)
LEMMA FileShape ==
  ASSUME file \in AllFiles
  PROVE  /\ file.signature \in Signatures /\ file.system \in {"unknown", "plain", "tiff", "ttc"}
         /\ file.extension \in Extensions /\ file.sound \in BOOLEAN /\ file.readable \in BOOLEAN
         /\ file.clear \in BOOLEAN /\ file.active \in BOOLEAN
BY DEF AllFiles, Unknown

(* The codes of the diagnostics tell shortfalls, accusations and remarks on  *)
(* the name apart.                                                          *)
Remarks == {"EXTENSION_MISMATCH", "IDENTITY_PROBE_FAILED", "IDENTITY_CONFLICT", "SHA256_MISMATCH", "RESPONSE_TRUNCATED"}
(* No code is of two of these kinds. *)
LEMMA CodesAre ==
  /\ "EXTENSION_MISMATCH" \notin Shortfalls \cup Accusations
  /\ StructuredLimits \subseteq Shortfalls /\ StructuredLimits \cap Accusations = {}
  /\ Remarks \cap (Shortfalls \cup Accusations) = {}
BY DEF Shortfalls, Accusations, StructuredLimits, Remarks

(* Text is taken for structured by its format or by its name. *)
LEMMA StructuredIs ==
  ASSUME format \in KnownFormats
  PROVE  /\ Structured \in {"none"} \cup StructuredFormats
         /\ format \in StructuredFormats => Structured = format
         /\ Structured # "none" => format \in StructuredFormats \cup {"plain", "pointer"}
         /\ format \in {"plain", "pointer"} =>
              Structured = IF file.extension \in StructuredFormats THEN file.extension ELSE "none"
BY KindIs DEF Structured, StructuredFormats


(* What is judged by the file, its format and what its parser said stays as *)
(* long as these do.                                                        *)
LEMMA JudgedAlike ==
  ASSUME UNCHANGED <<file, archive, format>>
  PROVE  /\ Structured' = Structured /\ ContentBroken' = ContentBroken
         /\ structure' = structure => Misjudged' = Misjudged /\ Accepted' = Accepted
         /\ office' = office \/ format # "ooxml" => NameVerdict' = NameVerdict
<1>1. Structured' = Structured
  BY DEF Structured
<1>2. Whole' = Whole
  BY ArchiveStands
<1>3. ContentBroken' = ContentBroken
  BY <1>1, <1>2 DEF ContentBroken
<1>4. ASSUME structure' = structure PROVE Misjudged' = Misjudged /\ Accepted' = Accepted
  BY <1>1, <1>4 DEF Misjudged, Accepted
<1>5. ASSUME office' = office \/ format # "ooxml" PROVE NameVerdict' = NameVerdict
  BY <1>5 DEF NameVerdict, Verdict, Compatible
<1> QED BY <1>1, <1>3, <1>4, <1>5

(* The file, what is asked of it and its content stay what they are. *)
LEMMA InputStays == [FileNext]_fileVars => UNCHANGED <<file, options, archive>>
<1> SUFFICES ASSUME [FileNext]_fileVars PROVE UNCHANGED <<file, options, archive>>
  OBVIOUS
<1>1. CASE UNCHANGED fileVars
  BY <1>1 DEF fileVars, archiveVars
<1>2. CASE Stages
  BY <1>2 DEF Stages, Unreadable, RefuseOptions, Identify, SystemProbeAbsent, SystemProbeFails, SystemProbeAnswers,
    NotStructured, BeyondWindow, ParseLimit, ParseInvalid, ParseValid, RefuseDigest, NoDigest, HashTooLarge,
    HashInterrupted, HashFails, Hash, TimeOut, Derive, FileFits, NamesDropped, FileNeverFits, Lapse,
    AnswerError, Keep, ProbeFails, archiveVars
<1>3. CASE Families /\ ~ScanArchive
  BY <1>3 DEF Families, NoFamily, ImageParsed, ImageUnmeasured, ImageBeyondWindow, ImageInvalid, MediaProbeAbsent,
    MediaProbeAnswers, MediaProbeFails, ArchiveUnknown, ArchiveInvalid, ArchiveCut, ArchiveListed, PdfAnswers,
    PdfProbeAbsent, PdfProbeFails, PdfTextUnknown, FontAnswers, FontProbeAbsent, FontProbeFails, BinaryParsed,
    BinaryInvalid, ParserPanics, Parsed, ShortOf, Blamed, AnswerError, Keep, ProbeFails, archiveVars
<1>4. CASE ScanArchive
  <2>1. archive' = archive
    BY <1>4 DEF ScanArchive, BeginScan, ScanStep, InterruptScan, TarEntry, TarEnds, TarBreaks, TarCapped, MeasureGzip,
      ZipEntry, ZipEnds, InspectPackage
  <2> QED BY <1>4, <2>1 DEF ScanArchive
<1> QED BY <1>1, <1>2, <1>3, <1>4 DEF FileNext

(* Only the deadline cuts an inspection short. *)
LEMMA OnlyTheDeadlineCuts ==
  ASSUME [FileNext]_fileVars, cutShort => expired, cutShort \in BOOLEAN, expired \in BOOLEAN
  PROVE  cutShort' => expired'
<1>1. CASE UNCHANGED <<expired, cutShort>>
  BY <1>1
<1>2. CASE ProbeFails
  BY <1>2 DEF ProbeFails
<1>3. CASE UNCHANGED fileVars
  BY <1>3 DEF fileVars, archiveVars
<1>4. CASE Stages
  BY <1>1, <1>2, <1>4, StagesLeave DEF SystemProbeFails, HashInterrupted, Lapse, archiveVars
<1>5. CASE Families /\ ~ScanArchive
  BY <1>1, <1>2, <1>5, FamiliesLeave DEF archiveVars
<1>6. CASE ScanArchive
  <2>1. BeginScan \/ TarEntry \/ TarEnds \/ TarBreaks \/ TarCapped \/ MeasureGzip \/ ZipEntry \/ ZipEnds
        => UNCHANGED <<expired, cutShort>>
    BY DEF BeginScan, TarEntry, TarEnds, TarBreaks, TarCapped, MeasureGzip, ZipEntry, ZipEnds
  <2>2. InterruptScan => expired /\ expired' = expired
    BY DEF InterruptScan
  <2>3. CASE InspectPackage
    <3>1. expired' = expired /\ OfficeStep
      BY <2>3 DEF InspectPackage
    <3>2. \A failed : Noted(failed) => (cutShort' => expired)
      BY DEF Noted
    <3>3. cutShort' => expired
      BY <3>1, <3>2 DEF OfficeStep, OpenPackage, ReadPart, MatchKind, ReadMain, ReadRelations, EndRelations
    <3> QED BY <3>1, <3>3
  <2> QED BY <1>1, <1>6, <2>1, <2>2, <2>3 DEF ScanArchive, ScanStep
<1> QED BY <1>3, <1>4, <1>5, <1>6 DEF FileNext


(* Of a file that was just opened nothing is known. *)
LEMMA FileBegins == FileInit => FileFacts
<1> SUFFICES ASSUME FileInit PROVE FileFacts
  OBVIOUS
<1>1. /\ point = "opened" /\ format = Unknown /\ fileStatus = "unsupported" /\ fileError = "none" /\ diags = {}
      /\ parseable = "unknown" /\ structure = "unknown" /\ scripts = "absent"
      /\ match = "none" /\ text = "none" /\ digest = "none" /\ file \in Files /\ options \in AllOptions
  BY DEF FileInit
<1>2. scan = "idle" /\ cutShort = FALSE
  BY DEF FileInit, ScanInit
<1>3. archive \in IF file.signature \in Archived THEN {a \in Archives : a.format = file.signature} ELSE {NoArchive}
  BY DEF FileInit, Archived
<1>4. InputStands
  BY <1>1, <1>2, <1>3, FilesAssumption DEF InputStands
<1>5. FileTypeOK
  BY <1>1, SignaturesAre DEF FileTypeOK, Unknown
<1>6. StatusStands /\ EarlyStands
  BY <1>1, <1>2 DEF StatusStands, EarlyStands
<1>7. FamilyStands /\ LateStands /\ NameStands /\ TextStands
  BY <1>1 DEF FamilyStands, LateStands, NameStands, TextStands, Early, Settled
<1> QED BY <1>1, <1>4, <1>5, <1>6, <1>7 DEF FileFacts, AnswerStands

(* An error leaves nothing of what was found out. *)
LEMMA ErrorKeeps ==
  ASSUME FileFacts, InputStands', NEW code, code # "none", AnswerError(code)
  PROVE  FileFacts'
<1>1. /\ point' = "done" /\ fileStatus' = "error" /\ fileError' = code /\ diags' = {} /\ format' = Unknown
      /\ parseable' = "unknown" /\ structure' = "unknown" /\ match' = "none" /\ text' = "none" /\ digest' = "none"
  BY DEF AnswerError
<1>2. FileTypeOK'
  BY <1>1, SignaturesAre DEF FileTypeOK, Unknown
<1>3. AnswerStands'
  BY <1>1 DEF AnswerStands
<1> QED BY <1>2, <1>3 DEF FileFacts

(* A shortfall that leaves the rest of the answer alone. *)
LEMMA ShortfallStands ==
  ASSUME StatusStands, FileTypeOK, fileStatus # "error", NEW code \in Shortfalls, FallShort(code),
         code \in StructuredLimits => structure' = "unknown",
         diags \cap StructuredLimits # {} => structure' = "unknown"
  PROVE  /\ StatusStands' /\ fileStatus' \in {"partial", "corrupt"}
         /\ fileStatus' = "corrupt" <=> fileStatus = "corrupt"
         /\ diags' = diags \cup {code} /\ code # "EXTENSION_MISMATCH" /\ fileError' = "none"
<1>1. fileStatus' = MakePartial(fileStatus) /\ diags' = diags \cup {code} /\ fileError' = fileError
  BY DEF FallShort, Diagnose
<1>2. fileStatus' \in {"partial", "corrupt"} /\ (fileStatus' = "corrupt" <=> fileStatus = "corrupt")
  BY <1>1 DEF MakePartial, FileTypeOK
<1>3. code # "EXTENSION_MISMATCH"
  BY CodesAre
<1>4. StatusStands'
  BY <1>1, <1>2 DEF StatusStands
<1> QED BY <1>1, <1>2, <1>3, <1>4 DEF StatusStands

(* An accusation that leaves the rest of the answer alone. *)
LEMMA BlameStands ==
  ASSUME StatusStands, FileTypeOK, fileStatus # "error", NEW code \in Accusations, BlameFile(code), structure' = structure
  PROVE  /\ StatusStands' /\ fileStatus' = "corrupt"
         /\ diags' = diags \cup {code} /\ code # "EXTENSION_MISMATCH"
<1>1. fileStatus' = "corrupt" /\ diags' = diags \cup {code} /\ fileError' = fileError
  BY DEF BlameFile, Diagnose, MakeCorrupt
<1>2. code # "EXTENSION_MISMATCH" /\ code \notin StructuredLimits
  BY CodesAre
<1>3. StatusStands'
  BY <1>1, <1>2 DEF StatusStands
<1> QED BY <1>1, <1>2, <1>3

(* The signature and the name are known, nothing else. *)
LEMMA IdentifyKeeps == ASSUME FileFacts, InputStands', Identify PROVE FileFacts'
<1>1. /\ point = "opened" /\ point' = IF options.mode = "quick" THEN "hashing" ELSE "probing"
      /\ format' = file.signature /\ match' = IF Undecided THEN "none" ELSE Verdict(file.signature)
      /\ fileStatus' = IF file.signature = Unknown THEN "unsupported" ELSE "ok"
      /\ diags' = Complaint
      /\ UNCHANGED <<file, options, parseable, structure, scripts, text, fileError, digest>>
  BY DEF Identify, Opened, Keep
<1>2. UNCHANGED <<archive, expired, cutShort, scan, office>>
  BY DEF Identify, archiveVars, scanVars
<1>3. fileStatus # "error" /\ StatusStands /\ EarlyStands /\ FileTypeOK /\ InputStands
  BY <1>1 DEF FileFacts, AnswerStands
<1>4. file.signature \in Signatures /\ file.extension \in Extensions
  BY <1>3, FileShape DEF InputStands
<1>5. structure' = "unknown" /\ scripts' = "absent" /\ text' = "none" /\ scan' = "idle"
  BY <1>1, <1>2, <1>3 DEF EarlyStands, Early
<1>6. NameVerdict' = Verdict(file.signature) /\ (Undecided' <=> Undecided)
  BY <1>1, <1>2 DEF NameVerdict, Verdict, Compatible, Undecided
<1>7. match' \in {"none", "yes", "no"}
  BY <1>1 DEF Verdict
<1>8. FileTypeOK'
  BY <1>1, <1>3, <1>4, <1>7, SignaturesAre DEF FileTypeOK
<1>9. diags' \subseteq {"EXTENSION_MISMATCH"} /\ ("EXTENSION_MISMATCH" \in diags' <=> match' = "no")
  BY <1>1 DEF Complaint
<1>10. StatusStands'
  BY <1>1, <1>3, <1>5, <1>9, CodesAre DEF StatusStands
<1>11. EarlyStands'
  BY <1>1, <1>5, <1>6, <1>9 DEF EarlyStands, Early, Unknown
<1>12. FamilyStands' /\ NameStands' /\ TextStands'
  BY <1>1, <1>4, <1>5, <1>6, <1>9, SignaturesAre DEF FamilyStands, NameStands, TextStands, Early
<1>13. LateStands'
  BY <1>1, <1>4, <1>5, SignaturesAre DEF LateStands, Settled
<1> QED BY <1>1, <1>8, <1>10, <1>11, <1>12, <1>13 DEF FileFacts, AnswerStands


(* The system's opinion makes a known format of an unknown one, or a remark. *)
LEMMA SystemProbeKeeps ==
  ASSUME FileFacts, InputStands', SystemProbeAbsent \/ SystemProbeFails \/ SystemProbeAnswers PROVE FileFacts'
<1>1. /\ point = "probing" /\ point' = "parsing"
      /\ UNCHANGED <<file, options, parseable, structure, scripts, match, text, fileError, digest, archive, scan, office>>
  BY DEF SystemProbeAbsent, SystemProbeFails, SystemProbeAnswers, Keep, ProbeFails, archiveVars, scanVars, identityVars,
         outcomeVars
<1>2. fileStatus # "error" /\ StatusStands /\ EarlyStands /\ FileTypeOK /\ InputStands
  BY <1>1 DEF FileFacts, AnswerStands
<1>3. file.signature \in Signatures /\ file.system \in {"unknown", "plain", "tiff", "ttc"}
  BY <1>2, FileShape DEF InputStands
<1>4. /\ structure = "unknown" /\ scripts = "absent" /\ text = "none" /\ scan = "idle" /\ options.mode # "quick"
      /\ fileStatus = IF format = Unknown THEN "unsupported" ELSE "ok"
      /\ format = file.signature \/ (file.signature = Unknown /\ format \in {"plain", "tiff", "ttc"})
      /\ match = IF Undecided THEN "none" ELSE NameVerdict
      /\ "EXTENSION_MISMATCH" \in diags <=> match = "no"
  BY <1>1, <1>2 DEF EarlyStands, Early
<1>5. \/ UNCHANGED <<format, fileStatus>>
      \/ format = Unknown /\ format' = file.system /\ file.system # Unknown /\ fileStatus' = "ok"
  BY DEF SystemProbeAbsent, SystemProbeFails, SystemProbeAnswers, identityVars, outcomeVars
<1>6. diags' = diags \/ diags' = diags \cup {"IDENTITY_PROBE_FAILED"} \/ diags' = diags \cup {"IDENTITY_CONFLICT"}
  BY DEF SystemProbeAbsent, SystemProbeFails, SystemProbeAnswers, outcomeVars, Diagnose
<1>7. /\ "EXTENSION_MISMATCH" \in diags' <=> "EXTENSION_MISMATCH" \in diags
      /\ diags' \cap (Shortfalls \cup Accusations) = diags \cap (Shortfalls \cup Accusations)
  BY <1>6, CodesAre DEF Remarks
<1>8. FileTypeOK'
  BY <1>1, <1>2, <1>3, <1>5, SignaturesAre DEF FileTypeOK
<1>9. fileStatus' = IF format' = Unknown THEN "unsupported" ELSE "ok"
  BY <1>4, <1>5
<1>10. format' = file.signature \/ (file.signature = Unknown /\ format' \in {"plain", "tiff", "ttc"})
  BY <1>3, <1>4, <1>5 DEF Unknown
<1>11. Undecided' = Undecided /\ (~Undecided => NameVerdict' = NameVerdict)
  <2>1. Undecided' = Undecided
    BY <1>1 DEF Undecided
  <2>2. ~Undecided => format' = format
    BY <1>4, <1>5 DEF Undecided
  <2> QED BY <1>1, <2>1, <2>2 DEF NameVerdict, Verdict, Compatible
<1>12. StatusStands'
  BY <1>1, <1>2, <1>4, <1>7, <1>9 DEF StatusStands
<1>13. EarlyStands'
  BY <1>1, <1>4, <1>7, <1>9, <1>10, <1>11 DEF EarlyStands, Early
<1>14. FamilyStands' /\ LateStands' /\ NameStands' /\ TextStands'
  BY <1>1 DEF FamilyStands, LateStands, NameStands, TextStands, Early, Settled
<1> QED BY <1>8, <1>9, <1>12, <1>13, <1>14 DEF FileFacts, AnswerStands

(* What is known when the parsers begin. *)
LEMMA ParsingStands ==
  ASSUME FileFacts, point = "parsing"
  PROVE  /\ FileTypeOK /\ StatusStands /\ fileStatus = IF format = Unknown THEN "unsupported" ELSE "ok"
         /\ file.signature \in Signatures /\ file.extension \in Extensions
         /\ structure = "unknown" /\ scripts = "absent" /\ text = "none" /\ scan = "idle" /\ options.mode # "quick"
         /\ format = file.signature \/ (file.signature = Unknown /\ format \in {"plain", "tiff", "ttc"})
         /\ format \in KnownFormats \ {"csv", "yaml", "ooxml"}
         /\ match = IF Undecided THEN "none" ELSE NameVerdict
         /\ "EXTENSION_MISMATCH" \in diags <=> match = "no"
         /\ (Kind[format] = "archive" \/ file.signature \in Archived) => format = file.signature /\ Structured = "none"
         /\ Structured # "none" => archive = NoArchive
<1>1. fileStatus # "error" /\ StatusStands /\ EarlyStands /\ FileTypeOK /\ InputStands
  BY DEF FileFacts, AnswerStands
<1>2. file.signature \in Signatures /\ file.extension \in Extensions
  BY <1>1, FileShape DEF InputStands
<1>3. format = file.signature \/ (file.signature = Unknown /\ format \in {"plain", "tiff", "ttc"})
  BY <1>1 DEF EarlyStands, Early
<1>4. format \in KnownFormats \ {"csv", "yaml", "ooxml"}
  BY <1>2, <1>3, SignaturesAre
<1>5. (Kind[format] = "archive" \/ file.signature \in Archived) => format = file.signature /\ Structured = "none"
  BY <1>3, <1>4, KindIs, StructuredIs DEF Archived, Unknown, StructuredFormats
<1>6. Structured # "none" => archive = NoArchive
  BY <1>1, <1>5 DEF InputStands
<1> QED BY <1>1, <1>2, <1>3, <1>4, <1>5, <1>6 DEF EarlyStands, Early

(* The text facts that are taken when the parser of the text has spoken.    *)
LEMMA TextTaken ==
  ASSUME FileFacts, point = "parsing", TakeText, format' = format \/ (format' = Structured /\ Structured # "none"),
         format' = "yaml" => file.clear \/ ~file.readable, UNCHANGED <<file, options>>, point' = "family"
  PROVE  TextStands' /\ text' \in {"none", "known", "unclear"}
<1>1. /\ format \in KnownFormats \ {"csv", "yaml", "ooxml"} /\ options.mode # "quick"
  BY ParsingStands
<1>2. format' \in KnownFormats
  BY <1>1, StructuredIs, SignaturesAre
<1>3. text' # "none" => format' \in TextTypes \cup StructuredFormats
  BY <1>1, StructuredIs, KindIs DEF TakeText, NeedsText, TextTypes
<1>4. text' # "unclear" /\ Kind[format'] = "text" => file.clear \/ ~file.readable
  BY <1>1, <1>2, StructuredIs, KindIs DEF TakeText, NeedsText, StructuredFormats
<1>5. text' \in {"none", "known", "unclear"}
  BY DEF TakeText
<1> QED BY <1>3, <1>4, <1>5 DEF TextStands


(* What no parser of text is for goes on to the parser of its kind. *)
LEMMA NotStructuredKeeps == ASSUME FileFacts, InputStands', NotStructured PROVE FileFacts'
<1>1. /\ point = "parsing" /\ point' = "family" /\ Structured = "none" /\ TakeText
      /\ UNCHANGED <<file, options, format, parseable, structure, scripts, match, fileStatus, fileError, diags,
                     digest, archive, scan, office>>
  BY DEF NotStructured, Keep, archiveVars, scanVars, outcomeVars
<1>2. /\ FileTypeOK /\ StatusStands /\ fileStatus = IF format = Unknown THEN "unsupported" ELSE "ok"
      /\ structure = "unknown" /\ scan = "idle" /\ options.mode # "quick" /\ fileStatus # "error"
      /\ format = file.signature \/ (file.signature = Unknown /\ format \in {"plain", "tiff", "ttc"})
      /\ format \in KnownFormats \ {"csv", "yaml", "ooxml"}
      /\ match = IF Undecided THEN "none" ELSE NameVerdict
      /\ "EXTENSION_MISMATCH" \in diags <=> match = "no"
      /\ (Kind[format] = "archive" \/ file.signature \in Archived) => format = file.signature
  BY <1>1, ParsingStands
<1>3. /\ Structured' = "none" /\ NameVerdict' = NameVerdict /\ Undecided' = Undecided
  BY <1>1, JudgedAlike DEF Undecided
<1>4. format \notin StructuredFormats /\ (format = "plain" => file.extension \notin StructuredFormats)
  BY <1>1, <1>2, StructuredIs DEF StructuredFormats
<1>5. file.signature # Unknown /\ match = "none" =>
        file.extension = "none" \/ (file.signature = "zip" /\ file.extension \in DOMAIN MainPart)
  BY <1>2, <1>4 DEF Undecided, NameVerdict, Verdict
<1>6. file.signature # "svg"
  BY <1>2, <1>4 DEF StructuredFormats, Unknown
<1>7. Kind[format] = "archive" => fileStatus = "ok"
  BY <1>2, KindIs DEF Unknown
<1>8. FamilyStands'
  BY <1>1, <1>2, <1>3, <1>5, <1>6, <1>7 DEF FamilyStands
<1>9. TextStands' /\ text' \in {"none", "known", "unclear"}
  BY <1>1, <1>2, TextTaken
<1>10. FileTypeOK' /\ StatusStands'
  BY <1>1, <1>2, <1>9 DEF FileTypeOK, StatusStands
<1>11. EarlyStands' /\ LateStands' /\ NameStands'
  BY <1>1, <1>2, <1>3 DEF EarlyStands, LateStands, NameStands, Early, Settled
<1> QED BY <1>1, <1>2, <1>8, <1>9, <1>10, <1>11 DEF FileFacts, AnswerStands

(* A parser that reached a limit has found nothing out. *)
LEMMA LimitKeeps == ASSUME FileFacts, InputStands', BeyondWindow \/ ParseLimit PROVE FileFacts'
<1>1. /\ point = "parsing" /\ point' = "family" /\ Structured # "none" /\ TakeText
      /\ UNCHANGED <<file, options, format, parseable, structure, match, digest, archive, scan, office>>
  BY DEF BeyondWindow, ParseLimit, InWindow, Keep, archiveVars, scanVars
<1>2. \E code \in StructuredLimits : FallShort(code)
  BY DEF BeyondWindow, ParseLimit, StructuredLimits
<1>3. /\ FileTypeOK /\ StatusStands /\ structure = "unknown" /\ scan = "idle" /\ options.mode # "quick"
      /\ fileStatus \in {"ok", "unsupported"}
      /\ format \in KnownFormats \ {"csv", "yaml", "ooxml"}
      /\ match = IF Undecided THEN "none" ELSE NameVerdict
      /\ "EXTENSION_MISMATCH" \in diags <=> match = "no"
      /\ Kind[format] # "archive" /\ file.signature \notin Archived
  BY <1>1, ParsingStands
<1>4. PICK code \in StructuredLimits : FallShort(code)
  BY <1>2
<1>5. /\ StatusStands' /\ fileStatus' = "partial"
      /\ diags' = diags \cup {code} /\ code # "EXTENSION_MISMATCH"
  BY <1>1, <1>3, <1>4, ShortfallStands, CodesAre
<1>6. /\ Structured' = Structured /\ NameVerdict' = NameVerdict
  BY <1>1, JudgedAlike
<1>7. FamilyStands'
  BY <1>1, <1>3, <1>5 DEF FamilyStands
<1>8. TextStands' /\ text' \in {"none", "known", "unclear"}
  BY <1>1, <1>3, TextTaken, StructuredIs
<1>9. FileTypeOK'
  BY <1>1, <1>3, <1>5, <1>8 DEF FileTypeOK
<1>10. EarlyStands' /\ LateStands' /\ NameStands'
  BY <1>1, <1>3, <1>5, <1>6 DEF EarlyStands, LateStands, NameStands, Early, Settled
<1> QED BY <1>5, <1>7, <1>8, <1>9, <1>10 DEF FileFacts, AnswerStands

(* What its parser refuses is broken, or one of the known misjudgements.    *)
LEMMA ParseInvalidKeeps == ASSUME FileFacts, InputStands', ParseInvalid PROVE FileFacts'
<1>1. /\ point = "parsing" /\ point' = "family" /\ Structured # "none" /\ TakeText /\ ~Valid
      /\ structure' = "no" /\ parseable' = "no" /\ fileStatus' = MakeCorrupt(fileStatus)
      /\ match' = (IF Kind[format] = "text" THEN NameVerdict ELSE match)
      /\ diags' = diags \cup {"STRUCTURED_PARSE_FAILED"} \cup Complaint
      /\ UNCHANGED <<file, options, format, scripts, fileError, digest, archive, scan, office>>
  BY DEF ParseInvalid, InWindow, Keep, archiveVars, scanVars, Reconcile, NameVerdict
<1>2. /\ FileTypeOK /\ StatusStands /\ structure = "unknown" /\ scan = "idle" /\ options.mode # "quick"
      /\ fileStatus \in {"ok", "unsupported"} /\ archive = NoArchive
      /\ format \in KnownFormats \ {"csv", "yaml", "ooxml"}
      /\ match = IF Undecided THEN "none" ELSE NameVerdict
      /\ "EXTENSION_MISMATCH" \in diags <=> match = "no"
      /\ Kind[format] # "archive" /\ file.signature \notin Archived
  BY <1>1, ParsingStands
<1>3. /\ Structured' = Structured /\ NameVerdict' = NameVerdict /\ (ContentBroken' <=> ContentBroken)
  BY <1>1, JudgedAlike
<1>4. fileStatus' = "corrupt"
  BY <1>1, <1>2 DEF MakeCorrupt
<1>5. ContentBroken \/ Misjudged'
  BY <1>1, <1>2, <1>3, StructuredIs DEF ContentBroken, Misjudged, Valid, Loose, StructuredFormats
<1>6. /\ "EXTENSION_MISMATCH" \in diags' <=> ("EXTENSION_MISMATCH" \in diags \/ match' = "no")
      /\ diags' \cap StructuredLimits = {}
  <2>1. diags \cap StructuredLimits = {} /\ Complaint \subseteq {"EXTENSION_MISMATCH"}
        /\ (Complaint = {"EXTENSION_MISMATCH"} <=> match' = "no")
    BY <1>2, CodesAre DEF StatusStands, Complaint
  <2>2. "STRUCTURED_PARSE_FAILED" \notin StructuredLimits
    BY DEF StructuredLimits
  <2> QED BY <1>1, <2>1, <2>2, CodesAre
<1>7. match' \in {"none", "yes", "no"} /\ (match' # "none" => match' = NameVerdict) /\ (match = "no" => match' = "no")
  BY <1>1, <1>2 DEF NameVerdict, Verdict
<1>8. FamilyStands'
  BY <1>1, <1>2, <1>3, <1>4, <1>5 DEF FamilyStands
<1>9. TextStands' /\ text' \in {"none", "known", "unclear"}
  BY <1>1, <1>2, TextTaken
<1>10. FileTypeOK' /\ StatusStands'
  BY <1>1, <1>2, <1>4, <1>6, <1>7, <1>9 DEF FileTypeOK, StatusStands
<1>11. EarlyStands' /\ LateStands' /\ NameStands'
  BY <1>1, <1>2, <1>3, <1>6, <1>7 DEF EarlyStands, LateStands, NameStands, Early, Settled
<1> QED BY <1>4, <1>8, <1>9, <1>10, <1>11 DEF FileFacts, AnswerStands

(* What its parser accepts is what it was accepted as.                      *)
LEMMA ParseValidKeeps == ASSUME FileFacts, InputStands', NEW read, ParseValid(read) PROVE FileFacts'
<1>1. /\ point = "parsing" /\ point' = "family" /\ Structured # "none" /\ TakeText /\ Valid
      /\ structure' = "yes" /\ parseable' = "yes" /\ format' = Structured
      /\ UNCHANGED <<file, options, digest, archive, scan, office>>
      /\ Reconcile
  BY DEF ParseValid, InWindow, Keep, archiveVars, scanVars
<1>2. /\ FileTypeOK /\ StatusStands /\ structure = "unknown" /\ scan = "idle" /\ options.mode # "quick"
      /\ fileStatus \in {"ok", "unsupported"} /\ archive = NoArchive
      /\ fileStatus = IF format = Unknown THEN "unsupported" ELSE "ok"
      /\ format = file.signature \/ (file.signature = Unknown /\ format \in {"plain", "tiff", "ttc"})
      /\ format \in KnownFormats \ {"csv", "yaml", "ooxml"}
      /\ match = IF Undecided THEN "none" ELSE NameVerdict
      /\ "EXTENSION_MISMATCH" \in diags <=> match = "no"
      /\ Kind[format] # "archive" /\ file.signature \notin Archived
      /\ file.extension \in Extensions
  BY <1>1, ParsingStands
<1>3. Structured \in StructuredFormats /\ Structured # Unknown /\ Kind[Structured] \notin {"archive", "text"}
      /\ Structured \in KnownFormats /\ Structured # "ooxml"
  BY <1>1, <1>2, StructuredIs, SignaturesAre, KindIs DEF StructuredFormats, Unknown
<1>4. Structured' = Structured
  BY <1>1, <1>3 DEF Structured
<1>5. NameVerdict' = Verdict(Structured)
  BY <1>1 DEF NameVerdict, Verdict, Compatible
<1>6. match' = IF Kind[format] = "text" THEN NameVerdict' ELSE match
  BY <1>1, <1>5 DEF Reconcile, NameVerdict, Verdict, Compatible
<1>7. Kind[format] # "text" => format = Structured /\ NameVerdict' = NameVerdict
  BY <1>1, <1>2, <1>5, StructuredIs, KindIs DEF NameVerdict
<1>8. Kind[format] = "text" => file.extension = Structured /\ match' = "yes" /\ file.extension # "none"
  BY <1>1, <1>2, <1>3, <1>5, <1>6, StructuredIs, KindIs DEF Verdict, Compatible, StructuredFormats
<1>9. match' \in {"none", "yes", "no"} /\ (match' # "none" => match' = NameVerdict')
  BY <1>2, <1>5, <1>6, <1>7 DEF NameVerdict, Verdict
<1>10. file.readable => file.sound /\ (file.clear \/ Structured \in {"json", "csv"})
  BY <1>1 DEF Valid
<1>11. match = "no" => match' = "no" \/ (file.signature = "pointer" /\ Structured = "yaml")
  <2> SUFFICES ASSUME match = "no", Kind[format] = "text"
               PROVE  file.signature = "pointer" /\ Structured = "yaml"
    BY <1>6
  <2>1. ~Undecided /\ NameVerdict = "no"
    BY <1>2
  <2>2. file.extension = Structured /\ file.extension \in StructuredFormats
    BY <1>3, <1>8
  <2>3. format = "pointer" /\ file.signature = "pointer"
    BY <1>2, <2>1, <2>2, KindIs DEF Undecided, Unknown
  <2>4. Structured \in {"csv", "yaml"}
    BY <1>1, <2>3 DEF Valid, Loose
  <2>5. Structured # "csv"
    BY <2>1, <2>2, <2>3 DEF NameVerdict, Verdict, Compatible, TextTypes
  <2> QED BY <2>3, <2>4, <2>5
<1>12. /\ fileStatus' \in {"ok", "partial"} /\ StatusStands'
       /\ "EXTENSION_MISMATCH" \in diags' <=> ("EXTENSION_MISMATCH" \in diags \/ match' = "no")
       /\ file.signature = "svg" /\ fileStatus' = "ok" => scripts' = "complete"
  <2>1. CASE format = "svg" /\ read = "complete"
    <3>1. scripts' = read /\ UNCHANGED <<fileStatus, fileError, diags>>
      BY <2>1 DEF ParseValid
    <3> QED BY <1>1, <1>2, <1>3, <1>6, <2>1, <3>1, KindIs, CodesAre DEF StatusStands, Unknown
  <2>2. CASE format = "svg" /\ read # "complete"
    <3>1. FallShort("SVG_STRUCTURE_LIMIT")
      BY <2>2 DEF ParseValid
    <3>2. "SVG_STRUCTURE_LIMIT" \in Shortfalls \ StructuredLimits
      BY DEF Shortfalls, StructuredLimits
    <3>3. diags \cap StructuredLimits = {}
      BY <1>2, CodesAre DEF StatusStands
    <3>4. StatusStands' /\ fileStatus' \in {"partial", "corrupt"} /\ (fileStatus' = "corrupt" <=> fileStatus = "corrupt")
          /\ diags' = diags \cup {"SVG_STRUCTURE_LIMIT"} /\ "SVG_STRUCTURE_LIMIT" # "EXTENSION_MISMATCH"
      BY <1>2, <3>1, <3>2, <3>3, ShortfallStands
    <3> QED BY <1>2, <1>6, <2>2, <3>4, KindIs
  <2>3. CASE format # "svg"
    <3>1. /\ fileStatus' = IF fileStatus = "unsupported" THEN "ok" ELSE fileStatus
          /\ diags' = diags \cup Complaint /\ fileError' = fileError
      BY <2>3 DEF ParseValid
    <3>2. Complaint \subseteq {"EXTENSION_MISMATCH"} /\ (Complaint = {"EXTENSION_MISMATCH"} <=> match' = "no")
      BY DEF Complaint
    <3>3. fileStatus' = "ok" /\ format' # Unknown
      BY <1>1, <1>2, <1>3, <3>1
    <3>4. diags' \cap (Shortfalls \cup Accusations) = {} /\ diags' \cap StructuredLimits = {}
      BY <1>2, <3>1, <3>2, CodesAre DEF StatusStands
    <3>5. StatusStands'
      BY <1>2, <3>1, <3>3, <3>4 DEF StatusStands
    <3>6. file.signature # "svg"
      BY <1>2, <2>3 DEF Unknown
    <3> QED BY <3>1, <3>2, <3>3, <3>5, <3>6
  <2> QED BY <2>1, <2>2, <2>3
<1>13. file.signature # Unknown /\ match' = "none" => file.extension = "none"
  BY <1>2, <1>3, <1>6, <1>7, <1>8 DEF Undecided, NameVerdict, Verdict, Archived, StructuredFormats
<1>14. FamilyStands'
  BY <1>1, <1>2, <1>3, <1>4, <1>10, <1>12, <1>13 DEF FamilyStands, Accepted
<1>15. TextStands' /\ text' \in {"none", "known", "unclear"}
  <2>1. Structured = "yaml" => file.clear \/ ~file.readable
    BY <1>10
  <2> QED BY <1>1, <1>2, <2>1, TextTaken
<1>16. FileTypeOK'
  BY <1>1, <1>2, <1>3, <1>9, <1>12, <1>15 DEF FileTypeOK
<1>17. EarlyStands' /\ LateStands' /\ NameStands'
  BY <1>1, <1>2, <1>9, <1>11, <1>12 DEF EarlyStands, LateStands, NameStands, Early, Settled
<1> QED BY <1>12, <1>14, <1>15, <1>16, <1>17 DEF FileFacts, AnswerStands


(* What is known when the parser of a kind begins. *)
LEMMA FamilyIs ==
  ASSUME FileFacts, point = "family"
  PROVE  /\ FileTypeOK /\ StatusStands /\ FamilyStands /\ NameStands /\ TextStands /\ InputStands
         /\ fileStatus # "error" /\ options.mode # "quick" /\ format \in KnownFormats \ {"ooxml"}
         /\ (Kind[format] = "archive" => fileStatus = "ok" /\ format = file.signature)
         /\ (Kind[format] # "archive" => scan = "idle" /\ archive = NoArchive)
         /\ format = "bzip" => archive = NoArchive
<1>1. fileStatus # "error" /\ FileTypeOK /\ StatusStands /\ FamilyStands /\ NameStands /\ TextStands /\ InputStands
  BY DEF FileFacts, AnswerStands
<1>2. format \in KnownFormats \ {"ooxml"}
  BY <1>1 DEF FileTypeOK, FamilyStands
<1>3. file.signature \in Archived => format \in {"tar", "gzip", "zip"} /\ format = file.signature
  BY <1>1 DEF FamilyStands, Archived
<1>4. (Kind[format] # "archive" \/ format = "bzip") => archive = NoArchive
  BY <1>1, <1>2, <1>3, KindIs DEF InputStands
<1> QED BY <1>1, <1>2, <1>4 DEF FamilyStands

(* A parser that leaves the identity and the name alone. Its answer is a    *)
(* shortfall, an accusation that is a true one, or a clean bill, which some *)
(* parsers only give of sound content.                                      *)
LEMMA FamilyEnds ==
  ASSUME FileFacts, InputStands', point = "family", point' = "hashing",
         UNCHANGED <<file, options, format, structure, scripts, match, text, digest, archive, office>>,
         parseable' \in {"unknown", "yes", "no"},
         \/ \E code \in Shortfalls \ StructuredLimits : FallShort(code)
         \/ /\ \E code \in Accusations : BlameFile(code)
            /\ ContentBroken \/ Misjudged \/ cutShort'
         \/ /\ UNCHANGED <<fileStatus, fileError, diags, scan>> /\ Kind[format] # "archive"
            /\ format \in {"png", "elf"} /\ file.readable => file.sound
  PROVE  FileFacts'
<1>1. /\ FileTypeOK /\ StatusStands /\ FamilyStands /\ NameStands /\ TextStands
      /\ fileStatus # "error" /\ options.mode # "quick" /\ format \in KnownFormats \ {"ooxml"}
      /\ Kind[format] # "archive" => scan = "idle" /\ archive = NoArchive
  BY FamilyIs
<1>2. /\ Structured' = Structured /\ (ContentBroken' <=> ContentBroken) /\ (Misjudged' <=> Misjudged)
      /\ NameVerdict' = NameVerdict
  BY JudgedAlike
<1>3. TextStands' /\ EarlyStands' /\ FamilyStands'
  BY <1>1 DEF TextStands, EarlyStands, FamilyStands, Early
<1>4. CASE \E code \in Shortfalls \ StructuredLimits : FallShort(code)
  <2>1. PICK code \in Shortfalls \ StructuredLimits : FallShort(code)
    BY <1>4
  <2>2. /\ StatusStands' /\ fileStatus' \in {"partial", "corrupt"} /\ (fileStatus' = "corrupt" <=> fileStatus = "corrupt")
        /\ diags' = diags \cup {code} /\ code # "EXTENSION_MISMATCH"
    BY <1>1, <2>1, ShortfallStands DEF StatusStands
  <2>3. NameStands'
    BY <1>1, <1>2, <2>2 DEF NameStands, Early
  <2>4. LateStands'
    BY <1>1, <1>2, <2>2 DEF LateStands, FamilyStands
  <2>5. FileTypeOK'
    BY <1>1, <2>2 DEF FileTypeOK
  <2> QED BY <1>3, <2>2, <2>3, <2>4, <2>5 DEF FileFacts, AnswerStands
<1>5. CASE (\E code \in Accusations : BlameFile(code)) /\ (ContentBroken \/ Misjudged \/ cutShort')
  <2>1. PICK code \in Accusations : BlameFile(code)
    BY <1>5
  <2>2. /\ StatusStands' /\ fileStatus' = "corrupt" /\ diags' = diags \cup {code} /\ code # "EXTENSION_MISMATCH"
    BY <1>1, <2>1, BlameStands
  <2>3. NameStands'
    BY <1>1, <1>2, <2>2 DEF NameStands, Early
  <2>4. LateStands'
    BY <1>1, <1>2, <1>5, <2>2 DEF LateStands
  <2>5. FileTypeOK'
    BY <1>1, <2>2 DEF FileTypeOK
  <2> QED BY <1>3, <2>2, <2>3, <2>4, <2>5 DEF FileFacts, AnswerStands
<1>6. CASE /\ UNCHANGED <<fileStatus, fileError, diags, scan>> /\ Kind[format] # "archive"
           /\ format \in {"png", "elf"} /\ file.readable => file.sound
  <2>1. StatusStands' /\ NameStands' /\ FileTypeOK'
    BY <1>1, <1>2, <1>6 DEF StatusStands, NameStands, FileTypeOK, Early
  <2>2. ASSUME fileStatus = "ok", file.readable, format \in BuiltIn
        PROVE  ~ContentBroken
    <3>1. format \in {"json", "csv", "yaml", "svg", "png", "elf"}
      BY <1>1, <1>6, <2>2, KindIs DEF BuiltIn
    <3>2. CASE format \in {"png", "elf"}
      <4>1. Structured # "yaml"
        BY <1>1, <3>2, StructuredIs DEF StructuredFormats
      <4> QED BY <1>1, <1>6, <2>2, <3>2, <4>1 DEF ContentBroken
    <3>3. CASE format \in StructuredFormats
      <4>1. Structured = format /\ Structured # "none" /\ Accepted
        BY <1>1, <2>2, <3>3, StructuredIs DEF FamilyStands, StructuredFormats
      <4> QED BY <1>1, <1>6, <2>2, <4>1 DEF Accepted, ContentBroken
    <3> QED BY <3>1, <3>2, <3>3 DEF StructuredFormats
  <2>3. fileStatus = "ok" /\ file.signature # Unknown /\ match = "none" => file.extension = "none"
    BY <1>1, <1>6, KindIs DEF FamilyStands, Archived
  <2>4. LateStands'
    BY <1>1, <1>2, <1>6, <2>2, <2>3 DEF LateStands, FamilyStands
  <2> QED BY <1>1, <1>3, <1>6, <2>1, <2>4 DEF FileFacts, AnswerStands
<1> QED BY <1>4, <1>5, <1>6

(* The scan of an archive leaves the rest of the answer alone. *)
LEMMA ScanArchiveKeeps == ASSUME FileFacts, InputStands', archive' = archive, ScanArchive PROVE FileFacts'
<1>1. /\ point = "family" /\ point' = "family" /\ Kind[format] = "archive"
      /\ UNCHANGED <<file, options, format, parseable, structure, scripts, match, text, fileStatus, fileError, diags, digest>>
  BY DEF ScanArchive, AtFamily, identityVars, outcomeVars
<1>2. /\ FileTypeOK /\ StatusStands /\ FamilyStands /\ NameStands /\ TextStands
      /\ fileStatus # "error" /\ format # "ooxml"
  BY <1>1, FamilyIs
<1>3. /\ Structured' = Structured /\ (ContentBroken' <=> ContentBroken) /\ (Misjudged' <=> Misjudged)
      /\ NameVerdict' = NameVerdict /\ (Accepted' <=> Accepted)
  BY <1>1, <1>2, JudgedAlike
<1>a. archive = NoArchive => scan' \in {"idle", "unavailable"}
  <2> SUFFICES ASSUME archive = NoArchive PROVE scan' \in {"idle", "unavailable"}
    OBVIOUS
  <2>1. scan \in {"idle", "unavailable"} /\ archive.format = "other"
    BY <1>1, <1>2 DEF FamilyStands, NoArchive
  <2>2. ~ScanStep
    BY <2>1 DEF ScanStep, InterruptScan, TarEntry, TarEnds, TarBreaks, ReadTarHeader, TarCapped, MeasureGzip, ZipEntry,
      ZipEnds, InspectPackage
  <2>3. FirstLook = "unavailable"
    BY <2>1 DEF FirstLook
  <2> QED BY <2>2, <2>3 DEF ScanArchive, BeginScan
<1>b. Undecided' = Undecided
  BY <1>1 DEF Undecided
<1>4. FamilyStands'
  BY <1>1, <1>2, <1>3, <1>a, <1>b DEF FamilyStands
<1>5. NameStands' /\ TextStands' /\ StatusStands' /\ FileTypeOK'
  BY <1>1, <1>2, <1>3 DEF NameStands, TextStands, StatusStands, FileTypeOK, Early
<1>6. EarlyStands' /\ LateStands'
  BY <1>1 DEF EarlyStands, LateStands, Early, Settled
<1> QED BY <1>1, <1>2, <1>4, <1>5, <1>6 DEF FileFacts, AnswerStands


(* There is nothing in what is no archive. *)
LEMMA NothingToScan == archive = NoArchive => Whole = Nothing("eof")
<1> SUFFICES ASSUME archive = NoArchive PROVE Whole = Nothing("eof")
  OBVIOUS
<1>1. archive.format = "other" /\ archive.blocks = <<>> /\ archive.ending = "eof"
  BY DEF NoArchive
<1>2. Length = 0
  BY <1>1 DEF Length
<1>3. Whole = Onward[0]
  BY <1>1 DEF Whole, Measured
<1>4. Onward[0] = Step(Onward, 0)
  BY <1>1, OnwardReads, ArchiveAssumption
<1>5. Step(Onward, 0) = Nothing("eof")
  BY <1>1, <1>2 DEF Step
<1> QED BY <1>3, <1>4, <1>5


(* The parsers that found nothing wrong and everything they look for.       *)
LEMMA ParsedKeeps ==
  ASSUME FileFacts, InputStands',
         NoFamily \/ ImageParsed \/ MediaProbeAnswers \/ PdfAnswers \/ FontAnswers \/ BinaryParsed
  PROVE  FileFacts'
<1> DEFINE Same == /\ point = "family" /\ point' = "hashing" /\ parseable' \in {parseable, "yes"}
                   /\ UNCHANGED <<file, options, format, structure, scripts, match, text, digest, archive, office, scan,
                                  fileStatus, fileError, diags>>
<1>1. Parsed /\ point = "family" => Same
  BY DEF Parsed, Keep, outcomeVars, archiveVars, scanVars
<1>2. NoFamily => Same /\ Kind[format] \in {"unknown", "text", "data"}
  BY DEF NoFamily, AtFamily, Keep, identityVars, outcomeVars, archiveVars, scanVars, Unknown
<1>3. ImageParsed => Same /\ Kind[format] = "image" /\ (format = "png" => file.sound)
  BY <1>1 DEF ImageParsed, StillImage, AtFamily, Decodable
<1>4. MediaProbeAnswers => Same /\ (Kind[format] = "media" \/ format = "heic")
  BY <1>1 DEF MediaProbeAnswers, Media
<1>5. PdfAnswers => Same /\ format = "pdf"
  BY <1>1 DEF PdfAnswers, Pdf
<1>6. FontAnswers => Same /\ Kind[format] = "font"
  BY <1>1 DEF FontAnswers, Font, AtFamily
<1>7. BinaryParsed => Same /\ Kind[format] = "binary" /\ file.sound
  BY <1>1 DEF BinaryParsed, AtFamily
<1>8. Same
  BY <1>2, <1>3, <1>4, <1>5, <1>6, <1>7
<1>9. parseable' \in {"unknown", "yes", "no"} /\ format \in KnownFormats
  BY <1>8 DEF FileFacts, FileTypeOK
<1>10. Kind[format] # "archive" /\ (format = "png" => file.sound) /\ (format = "elf" => file.sound)
  <2> HIDE DEF Same
  <2> QED BY <1>2, <1>3, <1>4, <1>5, <1>6, <1>7, <1>9, KindIs
<1> QED BY <1>8, <1>9, <1>10, FamilyEnds

(* The parsers and probes that fell short.                                  *)
LEMMA ShortKeeps ==
  ASSUME FileFacts, InputStands', archive' = archive,
         \/ ImageUnmeasured \/ ImageBeyondWindow \/ MediaProbeAbsent \/ MediaProbeFails \/ ArchiveUnknown \/ ArchiveCut
         \/ PdfProbeAbsent \/ PdfProbeFails \/ PdfTextUnknown \/ FontProbeAbsent \/ (FontProbeFails /\ format = "woff")
  PROVE  FileFacts'
<1> DEFINE Codes == {"IMAGE_PROPERTIES_UNAVAILABLE", "IMAGE_PARSE_WINDOW", "MEDIA_PROBE_UNAVAILABLE", "MEDIA_PROBE_FAILED",
                     "ARCHIVE_PROBE_UNAVAILABLE", "ARCHIVE_SCAN_LIMIT", "PDF_PROBE_UNAVAILABLE", "PDF_PROBE_FAILED",
                     "PDF_TEXT_LAYER_PROBE_UNAVAILABLE", "PDF_TEXT_LAYER_PROBE_FAILED",
                     "FONT_PROBE_UNAVAILABLE", "FONT_PROBE_FAILED"}
           Same == /\ point = "family" /\ point' = "hashing" /\ parseable' \in {parseable, "yes", "no"}
                   /\ UNCHANGED <<file, options, format, structure, scripts, match, text, digest, office>>
                   /\ \E code \in Codes : FallShort(code)
<1>1. Codes \subseteq Shortfalls \ StructuredLimits
  BY DEF Shortfalls, StructuredLimits
<1>2. (UNCHANGED archiveVars \/ ProbeFails) => office' = office
  BY DEF archiveVars, ProbeFails, scanVars
<1>3. \A code \in Codes : ShortOf(code) /\ point = "family" /\ (UNCHANGED archiveVars \/ ProbeFails) => Same
  BY <1>2 DEF ShortOf, Keep, identityVars
<1>4. ImageUnmeasured \/ ImageBeyondWindow => Same
  BY <1>3 DEF ImageUnmeasured, ImageBeyondWindow, StillImage, AtFamily
<1>5. MediaProbeAbsent \/ PdfProbeAbsent \/ PdfProbeFails \/ FontProbeAbsent \/ ArchiveUnknown => Same
  BY <1>3 DEF MediaProbeAbsent, Media, PdfProbeAbsent, PdfProbeFails, Pdf, FontProbeAbsent, Font, ArchiveUnknown, ScanEnds,
    AtFamily
<1>6. MediaProbeFails \/ ArchiveCut => Same
  BY <1>2 DEF MediaProbeFails, Media, ArchiveCut, ScanEnds, AtFamily, Keep
<1>7. PdfTextUnknown => Same
  BY <1>2 DEF PdfTextUnknown, Pdf, Keep
<1>8. FontProbeFails /\ format = "woff" => Same
  BY <1>2 DEF FontProbeFails, Font, AtFamily, Keep, identityVars
<1>9. Same
  <2> HIDE DEF Same
  <2> QED BY <1>4, <1>5, <1>6, <1>7, <1>8
<1>10. parseable' \in {"unknown", "yes", "no"}
  BY <1>9 DEF FileFacts, FileTypeOK
<1>11. \E code \in Shortfalls \ StructuredLimits : FallShort(code)
  BY <1>1, <1>9
<1> QED BY <1>9, <1>10, <1>11, FamilyEnds

(* The parsers that call the content corrupt. *)
LEMMA BlamedKeeps ==
  ASSUME FileFacts, ArchiveFacts, InputStands', archive' = archive,
         ImageInvalid \/ ArchiveInvalid \/ (FontProbeFails /\ format # "woff") \/ BinaryInvalid
  PROVE  FileFacts'
<1> DEFINE Codes == {"IMAGE_PARSE_FAILED", "ARCHIVE_PARSE_FAILED", "FONT_PARSE_FAILED", "BINARY_PARSE_FAILED"}
           Same == /\ point = "family" /\ point' = "hashing" /\ parseable' \in {parseable, "yes", "no"}
                   /\ UNCHANGED <<file, options, format, structure, scripts, match, text, digest, office>>
                   /\ \E code \in Codes : BlameFile(code)
<1>1. Codes \subseteq Accusations
  BY DEF Accusations
<1>2. \A code \in Codes : Blamed(code) /\ point = "family" => Same
  BY DEF Blamed, Keep, identityVars, archiveVars, scanVars
<1>3. ImageInvalid => Same /\ Kind[format] = "image" /\ format # "heic" /\ (format = "svg" => structure # "yes")
                      /\ (format = "png" => ~(file.sound /\ file.readable))
  BY <1>2 DEF ImageInvalid, StillImage, AtFamily
<1>4. BinaryInvalid => Same /\ Kind[format] = "binary" /\ ~(format = "elf" /\ file.sound)
  BY <1>2 DEF BinaryInvalid, AtFamily
<1>5. ArchiveInvalid => Same /\ scan = "failed" /\ Kind[format] = "archive" /\ cutShort' = cutShort
  BY DEF ArchiveInvalid, ScanEnds, AtFamily, Keep, archiveVars, scanVars
<1>6. FontProbeFails /\ format # "woff" => Same /\ Kind[format] = "font" /\ ~FontRead
  BY DEF FontProbeFails, Font, AtFamily, ProbeFails, Keep, identityVars, scanVars
<1>7. Same
  <2> HIDE DEF Same
  <2> QED BY <1>3, <1>4, <1>5, <1>6
<1>8. /\ FamilyStands /\ FileTypeOK /\ format \in KnownFormats /\ (Kind[format] # "archive" => archive = NoArchive)
  BY <1>7, FamilyIs
<1>9. ContentBroken \/ Misjudged \/ cutShort'
  <2> HIDE DEF Same
  <2>1. CASE ImageInvalid
    <3>1. format \in {"svg", "png", "tiff"} /\ archive = NoArchive
      BY <1>3, <1>8, <2>1, KindIs
    <3>2. structure = "no" => ContentBroken \/ Misjudged
      BY <1>7, <1>8 DEF FamilyStands, Same
    <3>3. structure \in {"unknown", "yes", "no"}
      BY <1>8 DEF FileTypeOK
    <3> QED BY <1>3, <2>1, <3>1, <3>2, <3>3 DEF ContentBroken, Misjudged
  <2>2. CASE BinaryInvalid
    BY <1>4, <1>8, <2>2, KindIs DEF ContentBroken, Misjudged
  <2>3. CASE FontProbeFails /\ format # "woff"
    BY <1>6, <1>8, <2>3, KindIs DEF ContentBroken, Misjudged, FontRead
  <2>4. CASE ArchiveInvalid
    <3>1. cutShort \/ Whole.end = "error"
      BY <1>5, <2>4 DEF ArchiveFacts, ScanFacts, ScanIsHonest
    <3>2. Whole.end = "error" => archive # NoArchive
      BY NothingToScan DEF Nothing
    <3> QED BY <1>5, <2>4, <3>1, <3>2 DEF ContentBroken
  <2> QED BY <2>1, <2>2, <2>3, <2>4
<1>10. parseable' \in {"unknown", "yes", "no"}
  BY <1>7, <1>8 DEF FileTypeOK
<1>11. \E code \in Accusations : BlameFile(code)
  BY <1>1, <1>7
<1> QED BY <1>7, <1>9, <1>10, <1>11, FamilyEnds


(* An archive that was seen completely is sound, and may be a document.     *)
LEMMA ArchiveListedKeeps ==
  ASSUME FileFacts, ArchiveFacts, InputStands', archive' = archive, ArchiveListed PROVE FileFacts'
<1>1. /\ point = "family" /\ point' = "hashing" /\ parseable' = "yes" /\ scan = "complete" /\ Kind[format] = "archive"
      /\ format' = IF office.at = "done" THEN "ooxml" ELSE format
      /\ match' = IF office.at = "done" \/ file.extension \in DOMAIN MainPart THEN Verdict(format') ELSE match
      /\ diags' = diags \cup Complaint
      /\ UNCHANGED <<file, options, structure, scripts, text, fileStatus, fileError, digest, scan, office>>
  BY DEF ArchiveListed, ScanEnds, AtFamily, Keep, archiveVars, scanVars
<1>2. /\ FileTypeOK /\ StatusStands /\ FamilyStands /\ NameStands /\ TextStands /\ InputStands
      /\ fileStatus = "ok" /\ options.mode # "quick" /\ format \in KnownFormats \ {"ooxml"} /\ format = file.signature
  BY <1>1, FamilyIs
<1>3. archive # NoArchive
  BY <1>1, <1>2 DEF FamilyStands
<1>4. Whole.end = "eof"
  BY <1>1 DEF ArchiveFacts, ScanFacts, ScanIsHonest
<1>5. ~ContentBroken'
  BY <1>3, <1>4, ArchiveStands DEF ContentBroken
<1>6. format \in {"tar", "gzip", "zip"} /\ (office.at = "done" => format = "zip")
  <2>1. file.signature \in Archived /\ archive.format = file.signature
    BY <1>2, <1>3 DEF InputStands
  <2>2. office.at = "done" => archive.format = "zip"
    BY DEF ArchiveFacts, ScanFacts, ScanStands, Directory
  <2> QED BY <1>2, <2>1, <2>2 DEF Archived
<1>7. NameVerdict' = Verdict(format')
  BY <1>1 DEF NameVerdict, Verdict, Compatible
<1>8. match' # "none" => match' = NameVerdict'
  <2>1. match # "none" => match = Verdict(format)
    BY <1>1, <1>2 DEF NameStands, Early, NameVerdict
  <2> QED BY <1>1, <1>7, <2>1
<1>9. match = "no" => match' = "no"
  <2> SUFFICES ASSUME match = "no" PROVE match' = "no"
    OBVIOUS
  <2>1. Verdict(format) = "no"
    BY <1>1, <1>2 DEF NameStands, Early, NameVerdict
  <2>2. file.extension # "none" /\ file.extension # "ooxml"
    <3>1. file.extension \in Extensions
      BY <1>2, FileShape DEF InputStands
    <3> QED BY <2>1, <3>1 DEF Verdict, Extensions, StructuredFormats, MainPart
  <2>3. CASE office.at # "done"
    BY <1>1, <2>1, <2>3
  <2>4. CASE office.at = "done"
    <3>1. ~Undecided
      BY <1>1, <1>2 DEF FamilyStands
    <3>2. file.extension \notin DOMAIN MainPart
      BY <1>2, <1>6, <2>4, <3>1 DEF Undecided
    <3>3. office.kind \in {"none"} \cup DOMAIN MainPart
      BY DEF ArchiveFacts, OfficeFacts, OfficeTypeOK
    <3>4. Verdict("ooxml") = "no"
      BY <2>2, <3>2, <3>3 DEF Verdict, Compatible, TextTypes
    <3> QED BY <1>1, <2>4, <3>4
  <2> QED BY <2>3, <2>4
<1>10. /\ "EXTENSION_MISMATCH" \in diags' <=> ("EXTENSION_MISMATCH" \in diags \/ match' = "no")
       /\ diags' \cap (Shortfalls \cup Accusations) = {} /\ diags' \cap StructuredLimits = {}
  <2>1. Complaint \subseteq {"EXTENSION_MISMATCH"} /\ (Complaint = {"EXTENSION_MISMATCH"} <=> match' = "no")
    BY DEF Complaint
  <2>2. diags \cap (Shortfalls \cup Accusations) = {}
    BY <1>2 DEF StatusStands
  <2> QED BY <1>1, <2>1, <2>2, CodesAre
<1>11. NameStands'
  <2>1. "EXTENSION_MISMATCH" \in diags => match = "no"
    BY <1>1, <1>2, <1>6 DEF NameStands, Early
  <2> QED BY <1>8, <1>9, <1>10, <2>1 DEF NameStands
<1>12. StatusStands'
  BY <1>1, <1>2, <1>6, <1>10 DEF StatusStands, Unknown
<1>13. TextStands'
  <2>1. text = "none"
    BY <1>1, <1>2, <1>6 DEF TextStands, Early, TextTypes, StructuredFormats
  <2>2. format' \in {"tar", "gzip", "zip", "ooxml"} /\ format' \in KnownFormats
    BY <1>1, <1>2, <1>6, SignaturesAre
  <2>3. Kind[format'] # "text"
    BY <2>2, KindIs
  <2> QED BY <1>1, <2>1, <2>2, <2>3 DEF TextStands
<1>14. file.signature # Unknown /\ match' = "none" => file.extension = "none"
  BY <1>1, <1>2 DEF FamilyStands, Verdict
<1>15. LateStands'
  BY <1>1, <1>2, <1>3, <1>5, <1>6, <1>14 DEF LateStands
<1>16. FileTypeOK'
  BY <1>1, <1>2, SignaturesAre DEF FileTypeOK, Verdict
<1>17. EarlyStands' /\ FamilyStands'
  BY <1>1 DEF EarlyStands, FamilyStands, Early
<1> QED BY <1>1, <1>2, <1>11, <1>12, <1>13, <1>15, <1>16, <1>17 DEF FileFacts, AnswerStands

(* Behind the parsers the digest may fall short, disagree or be right, a    *)
(* deadline that passed is an error, and long results lose their names.     *)
LEMMA SettledKeeps ==
  ASSUME FileFacts, InputStands', archive' = archive,
         NoDigest \/ HashTooLarge \/ HashFails \/ Hash \/ Derive \/ FileFits \/ NamesDropped
  PROVE  FileFacts'
<1>1. /\ point \in {"hashing", "deriving", "fitting"}
      /\ point' \in {"deriving", "fitting", "done"} /\ (point = "hashing" => point' = "deriving")
      /\ point' = "fitting" => point = "deriving" /\ ~expired
      /\ point' = "done" => point = "fitting"
      /\ UNCHANGED <<file, options, format, parseable, structure, scripts, match, text, archive, scan, office, cutShort>>
  BY DEF NoDigest, HashTooLarge, HashFails, Hash, Hashing, Derive, FileFits, NamesDropped, Keep, identityVars, archiveVars,
         scanVars
<1>2. /\ FileTypeOK /\ StatusStands /\ LateStands /\ NameStands /\ TextStands /\ InputStands /\ fileStatus # "error"
  BY <1>1 DEF FileFacts, AnswerStands
<1>3. /\ (ContentBroken' <=> ContentBroken) /\ (Misjudged' <=> Misjudged) /\ NameVerdict' = NameVerdict
  BY <1>1, JudgedAlike
<1>4. digest' \in {"none", "unchecked", "match", "mismatch"}
  <2>1. options.expected \in {"none", "malformed", "match", "mismatch"}
    BY <1>2 DEF InputStands, AllOptions
  <2> QED BY <1>2, <2>1 DEF NoDigest, HashTooLarge, HashFails, Hash, Hashing, Derive, FileFits, NamesDropped, FileTypeOK
<1>5. \/ \E code \in {"HASH_SIZE_LIMIT", "HASH_FAILED"} : FallShort(code) /\ digest' = digest
      \/ UNCHANGED <<fileStatus, fileError>> /\ diags' \in {diags, diags \cup {"SHA256_MISMATCH"}, diags \cup {"RESPONSE_TRUNCATED"}}
  BY DEF NoDigest, HashTooLarge, HashFails, Hash, Derive, FileFits, NamesDropped, outcomeVars, Diagnose
<1>6. /\ StatusStands' /\ fileStatus' # "error" /\ (fileStatus' = "corrupt" => fileStatus = "corrupt")
      /\ (fileStatus' = "ok" => fileStatus = "ok") /\ diags \subseteq diags'
      /\ "EXTENSION_MISMATCH" \in diags' <=> "EXTENSION_MISMATCH" \in diags
      /\ fileStatus' \in {"unsupported", "ok", "partial", "corrupt", "error"}
  <2>1. CASE UNCHANGED <<fileStatus, fileError>> /\ diags' \in {diags, diags \cup {"SHA256_MISMATCH"}, diags \cup {"RESPONSE_TRUNCATED"}}
    <3>1. diags' \cap (Shortfalls \cup Accusations) = diags \cap (Shortfalls \cup Accusations)
          /\ diags' \cap StructuredLimits = diags \cap StructuredLimits
      BY <2>1, CodesAre DEF Remarks
    <3>2. StatusStands'
      BY <1>1, <1>2, <2>1, <3>1 DEF StatusStands
    <3> QED BY <1>2, <2>1, <3>2 DEF FileTypeOK
  <2>2. CASE \E code \in {"HASH_SIZE_LIMIT", "HASH_FAILED"} : FallShort(code) /\ digest' = digest
    <3>1. PICK code \in {"HASH_SIZE_LIMIT", "HASH_FAILED"} : FallShort(code)
      BY <2>2
    <3>2. code \in Shortfalls \ StructuredLimits
      BY DEF Shortfalls, StructuredLimits
    <3>3. diags \cap StructuredLimits # {} => structure' = "unknown"
      BY <1>1, <1>2 DEF StatusStands
    <3> QED BY <1>2, <3>1, <3>2, <3>3, ShortfallStands
  <2> QED BY <1>5, <2>1, <2>2
<1>7. options.expected # "none" =>
        digest' \in {"match", "mismatch"} \/ diags' \cap {"HASH_SIZE_LIMIT", "HASH_FAILED"} # {}
  <2>1. options.expected \in {"none", "malformed", "match", "mismatch"}
    BY <1>2 DEF InputStands, AllOptions
  <2>2. CASE point # "hashing"
    <3>1. digest' = digest
      BY <2>2 DEF NoDigest, HashTooLarge, HashFails, Hash, Hashing, Derive, FileFits, NamesDropped
    <3> QED BY <1>1, <1>2, <1>6, <2>2, <3>1 DEF LateStands, Settled
  <2>3. CASE NoDigest
    BY <2>3 DEF NoDigest, Wanted
  <2>4. CASE HashTooLarge \/ HashFails
    BY <2>4 DEF HashTooLarge, HashFails, FallShort, Diagnose
  <2>5. CASE Hash
    BY <2>1, <2>5 DEF Hash, Hashing
  <2> QED BY <2>2, <2>3, <2>4, <2>5 DEF Derive, FileFits, NamesDropped
<1>8. point' \in {"fitting", "done"} => ~cutShort
  BY <1>1, <1>2 DEF LateStands, Settled, InputStands
<1>9. LateStands'
  BY <1>1, <1>2, <1>3, <1>6, <1>7, <1>8 DEF LateStands, Settled
<1>10. NameStands' /\ TextStands'
  BY <1>1, <1>2, <1>3, <1>6 DEF NameStands, TextStands, Early
<1>11. EarlyStands' /\ FamilyStands' /\ FileTypeOK'
  BY <1>1, <1>2, <1>4, <1>6 DEF EarlyStands, FamilyStands, FileTypeOK, Early
<1> QED BY <1>6, <1>9, <1>10, <1>11 DEF FileFacts, AnswerStands


(* The deadline that passes is noted by what looks at it, not before.       *)
LEMMA LapseKeeps ==
  ASSUME FileFacts, InputStands', Lapse \/ UNCHANGED fileVars PROVE FileFacts'
<1>1. UNCHANGED <<file, options, point, format, parseable, structure, scripts, match, text, fileStatus, fileError, diags,
                  digest, archive, scan, office, cutShort>>
  BY DEF Lapse, fileVars, identityVars, outcomeVars, archiveVars, scanVars
<1>2. /\ Structured' = Structured /\ (ContentBroken' <=> ContentBroken) /\ (Misjudged' <=> Misjudged)
      /\ NameVerdict' = NameVerdict /\ (Accepted' <=> Accepted)
  BY <1>1, JudgedAlike
<1>3. Undecided' = Undecided
  BY <1>1 DEF Undecided
<1>4. StatusStands' <=> StatusStands
  BY <1>1 DEF StatusStands
<1>5. EarlyStands' <=> EarlyStands
  BY <1>1, <1>2, <1>3 DEF EarlyStands, Early
<1>6. FamilyStands' <=> FamilyStands
  BY <1>1, <1>2, <1>3 DEF FamilyStands
<1>7. LateStands' <=> LateStands
  BY <1>1, <1>2 DEF LateStands, Settled
<1>8. (NameStands' <=> NameStands) /\ (TextStands' <=> TextStands)
  BY <1>1, <1>2 DEF NameStands, TextStands, Early
<1>9. FileTypeOK'
  BY <1>1 DEF FileFacts, FileTypeOK
<1> QED BY <1>1, <1>4, <1>5, <1>6, <1>7, <1>8, <1>9 DEF FileFacts, AnswerStands

(* Every step of an inspection keeps what is said of the file true. *)
LEMMA FileStep == FileFacts /\ ArchiveFacts /\ [FileNext]_fileVars => FileFacts'
<1> SUFFICES ASSUME FileFacts, ArchiveFacts, [FileNext]_fileVars PROVE FileFacts'
  OBVIOUS
<1>1. UNCHANGED <<file, options, archive>>
  BY InputStays
<1>2. InputStands'
  <2>1. cutShort \in BOOLEAN /\ expired \in BOOLEAN /\ InputStands
    BY DEF ArchiveFacts, OfficeFacts, OfficeTypeOK, FileFacts
  <2>2. cutShort' => expired'
    BY <2>1, OnlyTheDeadlineCuts DEF InputStands
  <2> QED BY <1>1, <2>1, <2>2 DEF InputStands
<1>3. \A code : code # "none" /\ AnswerError(code) => FileFacts'
  BY <1>2, ErrorKeeps
<1>4. CASE UNCHANGED fileVars
  BY <1>2, <1>4, LapseKeeps
<1>5. CASE Stages
  <2>1. CASE \E code \in {"E_INVALID_SOURCE", "E_FILE_STAT", "E_NOT_REGULAR_FILE", "E_FILE_READ"} : Unreadable(code)
    BY <1>3, <2>1 DEF Unreadable
  <2>2. CASE RefuseOptions \/ RefuseDigest \/ HashInterrupted \/ TimeOut \/ FileNeverFits
    BY <1>3, <2>2 DEF RefuseOptions, RefuseDigest, HashInterrupted, TimeOut, FileNeverFits
  <2>3. CASE Identify
    BY <1>2, <2>3, IdentifyKeeps
  <2>4. CASE SystemProbeAbsent \/ SystemProbeFails \/ SystemProbeAnswers
    BY <1>2, <2>4, SystemProbeKeeps
  <2>5. CASE NotStructured
    BY <1>2, <2>5, NotStructuredKeeps
  <2>6. CASE BeyondWindow \/ ParseLimit
    BY <1>2, <2>6, LimitKeeps
  <2>7. CASE ParseInvalid
    BY <1>2, <2>7, ParseInvalidKeeps
  <2>8. CASE \E read \in {"absent", "incomplete", "complete"} : ParseValid(read)
    BY <1>2, <2>8, ParseValidKeeps
  <2>9. CASE NoDigest \/ HashTooLarge \/ HashFails \/ Hash \/ Derive \/ FileFits \/ NamesDropped
    BY <1>1, <1>2, <2>9, SettledKeeps
  <2>10. CASE Lapse
    BY <1>2, <2>10, LapseKeeps
  <2> QED BY <1>5, <2>1, <2>2, <2>3, <2>4, <2>5, <2>6, <2>7, <2>8, <2>9, <2>10 DEF Stages
<1>6. CASE Families
  <2>1. CASE NoFamily \/ ImageParsed \/ MediaProbeAnswers \/ PdfAnswers \/ FontAnswers \/ BinaryParsed
    BY <1>2, <2>1, ParsedKeeps
  <2>2. CASE \/ ImageUnmeasured \/ ImageBeyondWindow \/ MediaProbeAbsent \/ MediaProbeFails \/ ArchiveUnknown \/ ArchiveCut
             \/ PdfProbeAbsent \/ PdfProbeFails \/ PdfTextUnknown \/ FontProbeAbsent
             \/ (FontProbeFails /\ format = "woff")
    BY <1>1, <1>2, <2>2, ShortKeeps
  <2>3. CASE ImageInvalid \/ ArchiveInvalid \/ (FontProbeFails /\ format # "woff") \/ BinaryInvalid
    BY <1>1, <1>2, <2>3, BlamedKeeps
  <2>4. CASE ScanArchive
    BY <1>1, <1>2, <2>4, ScanArchiveKeeps
  <2>5. CASE ArchiveListed
    BY <1>1, <1>2, <2>5, ArchiveListedKeeps
  <2>6. CASE ParserPanics
    BY <1>3, <2>6 DEF ParserPanics
  <2> QED BY <1>6, <2>1, <2>2, <2>3, <2>4, <2>5, <2>6 DEF Families
<1> QED BY <1>4, <1>5, <1>6 DEF FileNext

(* What is known of a file when its answer is ready makes the answer honest. *)
LEMMA AnswerIsHonest == FileFacts /\ ArchiveFacts => FileIsHonest
<1> SUFFICES ASSUME FileFacts, ArchiveFacts, point = "done" PROVE FileIsHonest
  BY DEF FileIsHonest
<1>1. CASE fileStatus = "error"
  BY <1>1 DEF FileFacts, AnswerStands, FileIsHonest
<1>2. CASE fileStatus # "error"
  <2>1. StatusStands /\ LateStands /\ NameStands /\ TextStands /\ InputStands /\ FileTypeOK
    BY <1>2 DEF FileFacts, AnswerStands
  <2>2. /\ format = "ooxml" => office.at = "done"
        /\ fileStatus = "corrupt" => ContentBroken \/ Misjudged \/ cutShort
        /\ fileStatus = "ok" =>
             /\ scan = IF archive # NoArchive /\ options.mode # "quick" THEN "complete" ELSE "idle"
             /\ options.mode # "quick" =>
                  /\ file.readable /\ format \in BuiltIn => ~ContentBroken
                  /\ file.signature # Unknown /\ match = "none" => file.extension = "none"
                  /\ file.signature = "svg" => scripts = "complete"
        /\ ~cutShort
        /\ options.expected # "none" =>
             digest \in {"match", "mismatch"} \/ diags \cap {"HASH_SIZE_LIMIT", "HASH_FAILED"} # {}
    BY <2>1 DEF LateStands, Settled
  <2>3. NameIsHonest
    BY <2>1, <2>2 DEF NameStands, Early, NameIsHonest, NameVerdict
  <2>4. Extractable =>
          /\ format \in TextTypes \cup StructuredFormats
          /\ options.mode # "quick" /\ format \notin {"json", "csv"} => file.clear \/ ~file.readable
    BY <2>1, KindIs DEF Extractable, TextStands, Early, TextTypes, StructuredFormats, FileTypeOK
  <2>5. file.signature = "pointer" => "indirect_content" \in Constraints
    BY DEF Constraints, Beware
  <2>6. ASSUME fileStatus = "ok", options.mode # "quick"
        PROVE  /\ format = "svg" /\ file.active /\ file.signature = "svg" =>
                    {"active_content", "external_references"} \subseteq Constraints
               /\ archive # NoArchive /\ Whole.links > 0 => "archive_links" \in Constraints
               /\ format = "ooxml" /\ office.complete /\ AllOutside > 0 => "external_references" \in Constraints
               /\ format = "ooxml" /\ office.kind \in MacroKinds => "active_content" \in Constraints
    <3>1. format = "svg" /\ file.active /\ file.signature = "svg" =>
            {"active_content", "external_references"} \subseteq Constraints
      BY <2>2, <2>6 DEF Constraints, Beware, ActiveSvg
    <3>2. archive # NoArchive /\ Whole.links > 0 => "archive_links" \in Constraints
      <4> SUFFICES ASSUME archive # NoArchive, Whole.links > 0 PROVE "archive_links" \in Constraints
        OBVIOUS
      <4>1. Listed /\ scan = "complete"
        BY <2>2, <2>6 DEF Listed
      <4>2. Whole.links = links
        BY <4>1 DEF ArchiveFacts, ScanFacts, ScanIsHonest
      <4> QED BY <4>1, <4>2 DEF Constraints, Beware
    <3>3. ASSUME format = "ooxml"
          PROVE  /\ office.complete /\ AllOutside > 0 => "external_references" \in Constraints
                 /\ office.kind \in MacroKinds => "active_content" \in Constraints
      <4>1. office.at = "done" /\ OfficeIsHonest /\ office.macros \in BOOLEAN
        BY <2>2, <3>3 DEF ArchiveFacts, OfficeFacts, OfficeTypeOK
      <4>2. scan = "complete"
        BY <4>1 DEF ArchiveFacts, ScanFacts, ScanStands
      <4>3. Office
        BY <4>1, <4>2 DEF Office, Listed
      <4>4. office.complete => office.outside = AllOutside
        BY <4>1 DEF OfficeIsHonest
      <4>5. office.kind \in MacroKinds => office.macros
        BY <4>1 DEF OfficeIsHonest
      <4> QED BY <4>3, <4>4, <4>5 DEF Constraints, Beware
    <3> QED BY <3>1, <3>2, <3>3
  <2>7. RoutingIsHonest
    BY <2>4, <2>5, <2>6 DEF RoutingIsHonest
  <2>8. fileStatus = "ok" =>
          /\ format # Unknown /\ diags \cap (Shortfalls \cup Accusations) = {} /\ scan # "truncated"
    BY <2>1, <2>2 DEF StatusStands
  <2> QED BY <1>2, <2>1, <2>2, <2>3, <2>7, <2>8 DEF FileIsHonest, StatusStands
<1> QED BY <1>1, <1>2

(* The answer about a file is as good as it looks, for any limits, any file *)
(* and any options, however the probes answer and whenever the deadline     *)
(* passes.                                                                  *)
THEOREM FileAnswersHonestly == FileSpec => []FileIsHonest
<1>1. FileInit => FileFacts /\ ArchiveFacts
  BY FileBegins, ArchiveBegins
<1>2. FileFacts /\ ArchiveFacts /\ [FileNext]_fileVars => FileFacts' /\ ArchiveFacts'
  BY FileStep, ArchiveStep
<1> QED BY <1>1, <1>2, AnswerIsHonest, PTL DEF FileSpec

-----------------------------------------------------------------------------
(* What a batch consists of. *)
Requested == [error : {"none", "E_OPEN"}, descriptor : Nat]
Taken == [error : {"none", "E_OPEN", "E_FILE_STAT"}, file : 0..Count]
BatchItem ==
  [index : Nat, path : Nat, file : 0..Count, status : {"ok", "partial", "error"},
   code : {"none", "E_OPEN", "E_FILE_STAT", "E_INSPECT", "E_BATCH_RESPONSE_LIMIT"}, hashed : Nat]

BatchTypeOK ==
  /\ job \in {"opening", "taking", "inspecting", "measured", "fitting", "validating", "done"}
  /\ hashing \in BOOLEAN /\ size \in [1..Count -> 0..LargestFile] /\ grown \subseteq 1..Count
  /\ descriptors \in Seq(1..Count) /\ request \in Seq(Requested) /\ sources \in Seq(Taken)
  /\ measured \in Nat /\ remaining \in Int
  /\ results \in Seq(BatchItem) /\ itemsAs \in {"array", "null"}
  /\ batchStatus \in {"ok", "partial", "error"}
  /\ batchError \in {"none", "E_INVALID_INPUT", "E_INTERNAL", "E_WORKER", "E_RESPONSE_TOO_LARGE",
                     "E_RESULT_SCHEMA"}

(* How far each list has come by each stage: what is still to be read is    *)
(* there, and an error of the whole leaves no items.                        *)
BatchProgress ==
  /\ Len(descriptors) <= Len(request) /\ Len(request) <= Count
  /\ job # "opening" => Len(request) = Count
  /\ job = "opening" => sources = <<>>
  /\ job \in {"opening", "taking"} => results = <<>>
  /\ Len(sources) <= Count /\ (job = "taking" => Len(sources) < Count)
  /\ job \in {"inspecting", "measured", "fitting", "validating"} => Len(sources) = Count
  /\ Len(results) <= Len(sources)
  /\ job = "measured" => Len(results) < Count
  /\ job = "fitting" => Len(results) = Count
  /\ job \notin {"validating", "done"} => batchError = "none"
  /\ batchError = "none" => itemsAs = "array"
  /\ job \in {"validating", "done"} /\ batchError = "none" => Len(results) = Count
  /\ batchError # "none" => results = <<>> /\ batchStatus = "error"

SourcesKeepErrors ==
  \A k \in 1..Len(sources) : request[k].error # "none" => sources[k].error = request[k].error

(* An item speaks of the file at its path, or fails for a reason of its own. *)
ItemIsOfItsPath(k) ==
  /\ results[k].index = k - 1 /\ results[k].path = k
  /\ results[k].file \in {k, NoFile}
  /\ results[k].file = NoFile => results[k].status = "error"
  /\ request[k].error # "none" =>
       results[k].code \in {request[k].error, "E_BATCH_RESPONSE_LIMIT"}

ItemsAreOfTheirPaths == \A k \in 1..Len(results) : ItemIsOfItsPath(k)

(* Between the two looks at its size a file can only have grown. *)
MeasuredBefore ==
  job = "measured" =>
    /\ sources[NextIndex].error = "none"
    /\ measured <= size[NextFile] /\ (measured < size[NextFile] => grown # {})

OkMeansAll ==
  job \in {"fitting", "validating", "done"} /\ batchStatus = "ok" => Completed = 1..Count

BatchFacts ==
  /\ BatchTypeOK /\ BatchProgress /\ DescriptorsMatch /\ SourcesKeepErrors
  /\ ItemsAreOfTheirPaths /\ MeasuredBefore /\ OkMeansAll /\ BudgetIsKept

(* What the lists of a batch hold, position by position. *)
LEMMA BatchLists ==
  ASSUME BatchTypeOK
  PROVE  /\ Len(descriptors) \in Nat /\ \A k \in 1..Len(descriptors) : descriptors[k] \in 1..Count
         /\ Len(request) \in Nat
         /\ \A k \in 1..Len(request) : request[k] \in Requested /\ request[k].descriptor \in Nat
         /\ Len(sources) \in Nat /\ \A k \in 1..Len(sources) : sources[k] \in Taken
         /\ Len(results) \in Nat /\ \A k \in 1..Len(results) : results[k] \in BatchItem
<1>1. /\ descriptors \in Seq(1..Count) /\ request \in Seq(Requested)
      /\ sources \in Seq(Taken) /\ results \in Seq(BatchItem)
  BY DEF BatchTypeOK
<1>2. \A k \in 1..Len(request) : request[k] \in Requested
  BY <1>1, ElementOfSeq
<1>3. \A r \in Requested : r.descriptor \in Nat
  BY DEF Requested
<1>4. \A k \in 1..Len(descriptors) : descriptors[k] \in 1..Count
  BY <1>1, ElementOfSeq
<1>5. \A k \in 1..Len(sources) : sources[k] \in Taken
  BY <1>1, ElementOfSeq
<1>6. \A k \in 1..Len(results) : results[k] \in BatchItem
  BY <1>1, ElementOfSeq
<1> QED BY <1>1, <1>2, <1>3, <1>4, <1>5, <1>6, LenProperties

(* No list changes: the facts about items and budget stay as they are.      *)
LEMMA BudgetStays ==
  ASSUME BudgetIsKept, UNCHANGED <<results, remaining>>, grown \subseteq grown'
  PROVE  BudgetIsKept'
<1>1. Hashed' = Hashed /\ Completed' = Completed
  BY DEF Hashed, Completed
<1> QED BY <1>1 DEF BudgetIsKept

(* The bytes hashed for the items are counted over a finite set of items.   *)
LEMMA HashedIsCounted ==
  ASSUME BatchTypeOK
  PROVE  /\ IsFiniteSet(1..Len(results)) /\ IsFiniteSet(Completed)
         /\ \A k \in 1..Len(results) : Hashed[k] = results[k].hashed /\ results[k].hashed \in Nat
         /\ SumFunctionOnSet(Hashed, Completed) \in Int /\ 0 <= SumFunctionOnSet(Hashed, Completed)
<1>1. Len(results) \in Nat /\ DOMAIN results = 1..Len(results) /\ \A k \in 1..Len(results) : results[k] \in BatchItem
  BY DEF BatchTypeOK
<1>2. IsFiniteSet(1..Len(results)) /\ Completed \in SUBSET (1..Len(results))
  BY <1>1, FS_Interval DEF Completed
<1>3. IsFiniteSet(Completed)
  BY <1>2, FS_Subset
<1>4. \A k \in 1..Len(results) : Hashed[k] = results[k].hashed /\ results[k].hashed \in Nat
  BY <1>1 DEF Hashed, BatchItem
<1>5. \A k \in Completed : Hashed[k] \in Nat /\ Hashed[k] \in Int
  BY <1>2, <1>4
<1>6. SumFunctionOnSet(Hashed, Completed) \in Int
  BY <1>3, <1>5, SumType
<1>7. 0 <= SumFunctionOnSet(Hashed, Completed)
  BY <1>3, <1>5, SumOfSubset
<1> QED BY <1>2, <1>3, <1>4, <1>6, <1>7

(* Without items nothing is charged. *)
LEMMA NothingCharged ==
  ASSUME BatchTypeOK, BudgetIsKept, results' = <<>>, UNCHANGED <<remaining, grown>>
  PROVE  BudgetIsKept'
<1>1. Completed' = {}
  BY DEF Completed
<1>2. SumFunctionOnSet(Hashed', Completed') = 0
  BY <1>1, FS_EmptySet, SumType
<1> QED BY <1>1, <1>2, HashedIsCounted, BatchAssumption DEF BudgetIsKept, BatchTypeOK

(* A batch begins without items, and with the whole budget. *)
LEMMA BatchBegins == BatchInit => BatchFacts
<1> SUFFICES ASSUME BatchInit PROVE BatchFacts
  OBVIOUS
<1>1. BatchTypeOK
  BY BatchAssumption DEF BatchInit, BatchTypeOK, Requested, Taken, BatchItem
<1>2. BudgetIsKept
  <2>1. Completed = {}
    BY DEF BatchInit, Completed
  <2>2. SumFunctionOnSet(Hashed, Completed) = 0
    BY <2>1, FS_EmptySet, SumType
  <2> QED BY <2>2, BatchAssumption DEF BatchInit, BudgetIsKept
<1>3. BatchProgress
  BY BatchAssumption DEF BatchInit, BatchProgress
<1>4. DescriptorsMatch /\ SourcesKeepErrors /\ ItemsAreOfTheirPaths /\ MeasuredBefore /\ OkMeansAll
  BY DEF BatchInit, DescriptorsMatch, SourcesKeepErrors, ItemsAreOfTheirPaths, MeasuredBefore,
         OkMeansAll
<1> QED BY <1>1, <1>2, <1>3, <1>4 DEF BatchFacts

(* handleBatchCall numbers each file that was opened by the files before it, *)
(* and its place in the request by the paths before it.                     *)
LEMMA OpeningKeeps ==
  ASSUME BatchFacts, OpenOne \/ OpenOneFails
  PROVE  BatchFacts'
<1> USE DEF BatchFacts
<1>0. UNCHANGED <<job, hashing, size, grown, sources, measured, remaining, results, itemsAs,
                  batchStatus, batchError>>
  BY DEF OpenOne, OpenOneFails, inputVars, hashVars, answerVars
<1>1. BatchTypeOK'
  <2>1. Len(request) + 1 \in 1..Count /\ Len(descriptors) \in Nat
    BY BatchAssumption, BatchLists DEF OpenOne, OpenOneFails
  <2>2. /\ [error |-> "none", descriptor |-> Len(descriptors)] \in Requested
        /\ [error |-> "E_OPEN", descriptor |-> 0] \in Requested
    BY <2>1 DEF Requested
  <2>3. descriptors \in Seq(1..Count) /\ request \in Seq(Requested)
    BY DEF BatchTypeOK
  <2>4. /\ Append(descriptors, Len(request) + 1) \in Seq(1..Count)
        /\ Append(request, [error |-> "none", descriptor |-> Len(descriptors)]) \in Seq(Requested)
        /\ Append(request, [error |-> "E_OPEN", descriptor |-> 0]) \in Seq(Requested)
    BY <2>1, <2>2, <2>3, AppendProperties
  <2>5. descriptors' \in Seq(1..Count) /\ request' \in Seq(Requested)
    BY <2>3, <2>4 DEF OpenOne, OpenOneFails
  <2> QED BY <1>0, <2>5 DEF BatchTypeOK
<1>2. BatchProgress'
  BY <1>0, BatchAssumption DEF BatchTypeOK, BatchProgress, OpenOne, OpenOneFails
<1>3. DescriptorsMatch'
  <2>1. descriptors \in Seq(1..Count) /\ request \in Seq(Requested)
    BY DEF BatchTypeOK
  <2>2. CASE OpenOne
    <3> DEFINE item == [error |-> "none", descriptor |-> Len(descriptors)]
    <3>1. request' = Append(request, item) /\ descriptors' = Append(descriptors, Len(request) + 1)
      BY <2>2 DEF OpenOne
    <3>2. item \in Requested /\ Len(request) + 1 \in 1..Count /\ Len(descriptors) \in Nat
      BY <2>2, BatchAssumption, BatchLists DEF Requested, OpenOne
    <3>3. /\ Len(request') = Len(request) + 1 /\ request'[Len(request) + 1] = item
          /\ \A k \in 1..Len(request) : request'[k] = request[k]
          /\ Len(descriptors') = Len(descriptors) + 1
          /\ descriptors'[Len(descriptors) + 1] = Len(request) + 1
          /\ \A k \in 1..Len(descriptors) : descriptors'[k] = descriptors[k]
      BY <2>1, <3>1, <3>2, AppendProperties
    <3>4. \A k \in 1..Len(sources') :
            sources'[k].file = IF sources'[k].error = "none" THEN k ELSE NoFile
      BY <1>0 DEF DescriptorsMatch
    <3>5. ASSUME NEW k \in 1..Len(request'), request'[k].error = "none"
          PROVE  /\ request'[k].descriptor < Len(descriptors')
                 /\ descriptors'[request'[k].descriptor + 1] = k
      <4>1. CASE k = Len(request) + 1
        BY <3>2, <3>3, <4>1
      <4>2. CASE k \in 1..Len(request)
        <5>1. /\ request[k].descriptor \in Nat /\ request[k].descriptor < Len(descriptors)
              /\ descriptors[request[k].descriptor + 1] = k
          BY <3>3, <3>5, <4>2, BatchLists DEF DescriptorsMatch
        <5> QED BY <3>2, <3>3, <4>2, <5>1
      <4> QED BY <3>3, <4>1, <4>2, BatchLists
    <3>6. \A k \in 1..Len(request') :
            request'[k].error = "none" => /\ request'[k].descriptor < Len(descriptors')
                                          /\ descriptors'[request'[k].descriptor + 1] = k
      BY <3>5
    <3> QED BY <3>4, <3>6 DEF DescriptorsMatch, NoFile
  <2>3. CASE OpenOneFails
    BY <1>0, <2>1, <2>3, BatchLists, AppendProperties DEF DescriptorsMatch, OpenOneFails
  <2> QED BY <2>2, <2>3
<1>4. SourcesKeepErrors' /\ ItemsAreOfTheirPaths'
  BY <1>0 DEF BatchProgress, SourcesKeepErrors, ItemsAreOfTheirPaths, OpenOne, OpenOneFails
<1>5. MeasuredBefore' /\ OkMeansAll'
  BY <1>0 DEF MeasuredBefore, OkMeansAll, OpenOne, OpenOneFails
<1>6. BudgetIsKept'
  BY <1>0, BudgetStays
<1> QED BY <1>1, <1>2, <1>3, <1>4, <1>5, <1>6

(* Sending the request, writing the answer: only the stage changes.         *)
LEMMA StagesKeep ==
  ASSUME BatchFacts, SendRequest \/ Validate
  PROVE  BatchFacts'
<1> USE DEF BatchFacts
<1>0. UNCHANGED <<hashing, size, grown, descriptors, request, sources, measured, remaining,
                  results, itemsAs, batchStatus, batchError>>
  BY DEF SendRequest, Validate, Answer, inputVars, openVars, hashVars, answerVars
<1>1. BatchTypeOK'
  BY <1>0 DEF BatchTypeOK, SendRequest, Validate, Answer
<1>2. BatchProgress'
  BY <1>0, BatchAssumption DEF BatchTypeOK, BatchProgress, SendRequest, Validate, Answer
<1>3. DescriptorsMatch' /\ SourcesKeepErrors' /\ ItemsAreOfTheirPaths'
  BY <1>0 DEF DescriptorsMatch, SourcesKeepErrors, ItemsAreOfTheirPaths, ItemIsOfItsPath
<1>4. MeasuredBefore' /\ OkMeansAll'
  BY <1>0 DEF MeasuredBefore, OkMeansAll, Completed, SendRequest, Validate, Answer
<1>5. BudgetIsKept'
  BY <1>0, BudgetStays
<1> QED BY <1>1, <1>2, <1>3, <1>4, <1>5

(* PublicBatchError leaves no items, so nothing that could be wrong of them. *)
LEMMA ReplacingKeeps ==
  ASSUME BatchFacts, RefuseRequest \/ BatchPanics \/ BatchWorkerFails \/ BatchInvalid
  PROVE  BatchFacts'
<1> USE DEF BatchFacts
<1>0. PICK code \in {"E_INVALID_INPUT", "E_INTERNAL", "E_WORKER", "E_RESULT_SCHEMA"} :
        ReplaceBatch(code)
  BY DEF RefuseRequest, BatchPanics, BatchWorkerFails, BatchInvalid
<1>1. BatchTypeOK'
  BY <1>0 DEF BatchTypeOK, ReplaceBatch, Answer, inputVars, openVars, hashVars
<1>2. BatchProgress'
  <2>1. Len(request) = Count \/ job \in {"taking", "inspecting", "measured", "fitting", "validating"}
    BY DEF RefuseRequest, BatchPanics, BatchWorkerFails, BatchInvalid
  <2> QED BY <1>0, <2>1, BatchAssumption
          DEF BatchTypeOK, BatchProgress, ReplaceBatch, Answer, inputVars, openVars, hashVars
<1>3. DescriptorsMatch' /\ SourcesKeepErrors' /\ ItemsAreOfTheirPaths'
  BY <1>0 DEF DescriptorsMatch, SourcesKeepErrors, ItemsAreOfTheirPaths, ReplaceBatch, openVars
<1>4. MeasuredBefore' /\ OkMeansAll'
  BY <1>0 DEF MeasuredBefore, OkMeansAll, ReplaceBatch, Answer
<1>5. BudgetIsKept'
  <2>1. results' = <<>> /\ UNCHANGED <<remaining, grown>>
    BY <1>0 DEF ReplaceBatch, inputVars, hashVars
  <2> QED BY <2>1, NothingCharged
<1> QED BY <1>1, <1>2, <1>3, <1>4, <1>5

(* A file that is appended to gets longer than it was measured.             *)
LEMMA GrowKeeps ==
  ASSUME BatchFacts, NEW p \in 1..Count, Grow(p)
  PROVE  BatchFacts'
<1> USE DEF BatchFacts
<1>0. /\ UNCHANGED <<job, hashing, descriptors, request, sources, measured, remaining, results,
                     itemsAs, batchStatus, batchError>>
      /\ grown' = grown \cup {p} /\ size[p] < LargestFile /\ size' = [size EXCEPT ![p] = @ + 1]
  BY DEF Grow, openVars, hashVars, answerVars
<1>1. BatchTypeOK'
  <2>1. size[p] \in Nat /\ size' \in [1..Count -> 0..LargestFile]
    BY <1>0, BatchAssumption DEF BatchTypeOK
  <2> QED BY <1>0, <2>1 DEF BatchTypeOK
<1>2. BatchProgress'
  BY <1>0 DEF BatchProgress
<1>3. DescriptorsMatch' /\ SourcesKeepErrors' /\ ItemsAreOfTheirPaths'
  BY <1>0 DEF DescriptorsMatch, SourcesKeepErrors, ItemsAreOfTheirPaths, ItemIsOfItsPath
<1>4. OkMeansAll'
  BY <1>0 DEF OkMeansAll, Completed
<1>5. MeasuredBefore'
  <2> SUFFICES ASSUME job = "measured"
               PROVE  /\ sources[NextIndex].error = "none" /\ measured <= size'[NextFile]
                      /\ grown' # {}
    BY <1>0 DEF MeasuredBefore, NextFile, NextIndex
  <2>1. NextFile \in 1..Count
    BY BatchAssumption, BatchLists DEF BatchProgress, MeasuredBefore, DescriptorsMatch, NextFile, NextIndex
  <2>2. size[NextFile] <= size'[NextFile] /\ size[NextFile] \in Int /\ size'[NextFile] \in Int
    BY <1>0, <2>1, BatchAssumption DEF BatchTypeOK
  <2>3. measured \in Int
    BY DEF BatchTypeOK
  <2> QED BY <1>0, <2>2, <2>3 DEF MeasuredBefore
<1>6. BudgetIsKept'
  BY <1>0, BudgetStays
<1> QED BY <1>1, <1>2, <1>3, <1>4, <1>5, <1>6

(* worker.RunBatch: an item's own error comes first, then its descriptor,   *)
(* which is that of the file at its path.                                   *)
LEMMA TakeSourceKeeps ==
  ASSUME BatchFacts, TakeSource
  PROVE  BatchFacts'
<1> USE DEF BatchFacts
<1> DEFINE k == Len(sources) + 1
<1>0. UNCHANGED <<hashing, size, grown, descriptors, request, measured, remaining, results,
                  itemsAs, batchStatus, batchError>>
  BY DEF TakeSource, inputVars, openVars, hashVars, answerVars
<1>k. /\ job = "taking" /\ k \in 1..Count /\ k \in 1..Len(request) /\ Len(sources) \in Nat
      /\ results = <<>> /\ batchError = "none"
  BY BatchAssumption, BatchLists DEF BatchProgress, TakeSource
<1>s. PICK source \in SourceOf(request[k]) : sources' = Append(sources, source)
  BY DEF TakeSource
<1>t. /\ source \in Taken
      /\ source.file = IF source.error = "none" THEN k ELSE NoFile
      /\ request[k].error # "none" => source.error = request[k].error
  <2>1. request[k].error \in {"none", "E_OPEN"}
    BY <1>k, BatchLists DEF Requested
  <2>2. CASE request[k].error # "none"
    BY <1>k, <1>s, <2>1, <2>2, BatchAssumption DEF SourceOf, NoFile, Taken
  <2>3. CASE request[k].error = "none" /\ source = [error |-> "E_FILE_STAT", file |-> NoFile]
    BY <1>k, <2>3, BatchAssumption DEF NoFile, Taken
  <2>4. CASE request[k].error = "none" /\ source # [error |-> "E_FILE_STAT", file |-> NoFile]
    <3>1. descriptors[request[k].descriptor + 1] = k
      BY <1>k, <2>4 DEF DescriptorsMatch
    <3>2. source = [error |-> "none", file |-> k]
      BY <1>s, <2>4, <3>1 DEF SourceOf
    <3> QED BY <1>k, <2>4, <3>2, BatchAssumption DEF NoFile, Taken
  <2> QED BY <2>2, <2>3, <2>4
<1>a. /\ sources' \in Seq(Taken) /\ Len(sources') = k /\ sources'[k] = source
      /\ \A n \in 1..Len(sources) : sources'[n] = sources[n]
  <2>1. sources \in Seq(Taken)
    BY DEF BatchTypeOK
  <2> QED BY <1>s, <1>t, <2>1, AppendProperties
<1>j. job' = IF k = Count THEN "inspecting" ELSE "taking"
  BY DEF TakeSource
<1>l. \A n \in 1..Len(sources') : n = k \/ n \in 1..Len(sources)
  BY <1>k, <1>a
<1> HIDE DEF k
<1>1. BatchTypeOK'
  BY <1>0, <1>a, <1>j DEF BatchTypeOK
<1>2. BatchProgress'
  <2>1. Len(request) = Count
    BY <1>k DEF BatchProgress
  <2> QED BY <1>0, <1>k, <1>a, <1>j, <2>1, BatchAssumption DEF BatchProgress
<1>3. DescriptorsMatch'
  BY <1>0, <1>a, <1>t, <1>l DEF DescriptorsMatch, NoFile
<1>4. SourcesKeepErrors'
  BY <1>0, <1>a, <1>t, <1>l DEF SourcesKeepErrors
<1>5. ItemsAreOfTheirPaths' /\ MeasuredBefore' /\ OkMeansAll'
  BY <1>0, <1>k, <1>j DEF ItemsAreOfTheirPaths, MeasuredBefore, OkMeansAll
<1>6. BudgetIsKept'
  BY <1>0, BudgetStays
<1> QED BY <1>1, <1>2, <1>3, <1>4, <1>5, <1>6

(* An item is added: what its path is owed, it gives, and its bytes are      *)
(* charged unless it failed. ReportError and Inspect only differ in which.   *)
LEMMA AddingKeeps ==
  ASSUME BatchFacts, job \in {"inspecting", "measured"}, Len(results) < Count,
         NEW item \in BatchItem, results' = Append(results, item),
         item.index = Len(results), item.path = NextIndex,
         item.file = sources[NextIndex].file,
         sources[NextIndex].error # "none" =>
           item.status = "error" /\ item.code = sources[NextIndex].error,
         remaining' \in Int,
         remaining' <= remaining - (IF item.status = "error" THEN 0 ELSE item.hashed),
         remaining' < 0 => grown # {},
         job' = "inspecting",
         UNCHANGED <<hashing, size, grown, descriptors, request, sources, measured, itemsAs,
                     batchStatus, batchError>>
  PROVE  BatchFacts'
<1> USE DEF BatchFacts
<1>k. /\ Len(results) \in Nat /\ NextIndex \in 1..Count /\ Len(sources) = Count /\ Len(request) = Count
      /\ NextIndex = Len(results) + 1 /\ batchError = "none"
  BY BatchAssumption, BatchLists DEF BatchProgress, NextIndex
<1>a. /\ results' \in Seq(BatchItem) /\ Len(results') = NextIndex /\ results'[NextIndex] = item
      /\ \A n \in 1..Len(results) : results'[n] = results[n]
      /\ \A n \in 1..Len(results') : n = NextIndex \/ n \in 1..Len(results)
  <2>1. results \in Seq(BatchItem)
    BY DEF BatchTypeOK
  <2>2. /\ results' \in Seq(BatchItem) /\ Len(results') = NextIndex /\ results'[NextIndex] = item
        /\ \A n \in 1..Len(results) : results'[n] = results[n]
    BY <1>k, <2>1, AppendProperties
  <2> QED BY <1>k, <2>2
<1>1. BatchTypeOK'
  BY <1>a DEF BatchTypeOK
<1>2. BatchProgress'
  BY <1>k, <1>a, BatchAssumption DEF BatchProgress
<1>3. DescriptorsMatch' /\ SourcesKeepErrors'
  BY DEF DescriptorsMatch, SourcesKeepErrors
<1>4. ItemsAreOfTheirPaths'
  <2>1. \A n \in 1..Len(results) : ItemIsOfItsPath(n)'
    BY <1>a DEF ItemsAreOfTheirPaths, ItemIsOfItsPath
  <2>2. sources[NextIndex].file = IF sources[NextIndex].error = "none" THEN NextIndex ELSE NoFile
    BY <1>k DEF DescriptorsMatch
  <2>3. request[NextIndex].error # "none" => sources[NextIndex].error = request[NextIndex].error
    BY <1>k DEF SourcesKeepErrors
  <2>4. ASSUME NEW n \in 1..Count, n = NextIndex
        PROVE  ItemIsOfItsPath(n)'
    BY <1>k, <1>a, <2>2, <2>3, <2>4 DEF ItemIsOfItsPath, NoFile
  <2> QED BY <1>k, <1>a, <2>1, <2>4 DEF ItemsAreOfTheirPaths
<1>5. MeasuredBefore' /\ OkMeansAll'
  BY DEF MeasuredBefore, OkMeansAll
<1>6. BudgetIsKept'
  <2>1. /\ IsFiniteSet(Completed) /\ Completed \subseteq 1..Len(results) /\ NextIndex \notin Completed
        /\ Completed' = IF item.status = "error" THEN Completed ELSE Completed \cup {NextIndex}
    BY <1>k, <1>a, HashedIsCounted DEF Completed
  <2>2. /\ \A n \in Completed : Hashed'[n] = Hashed[n] /\ Hashed[n] \in Int
        /\ Hashed'[NextIndex] = item.hashed /\ item.hashed \in Nat
    <3>1. /\ \A n \in 1..Len(results') : Hashed'[n] = results'[n].hashed
          /\ \A n \in 1..Len(results) : Hashed[n] = results[n].hashed /\ results[n].hashed \in Nat
      <4>1. DOMAIN results' = 1..Len(results')
        BY <1>a
      <4> QED BY <4>1, HashedIsCounted DEF Hashed
    <3>2. item.hashed \in Nat
      BY DEF BatchItem
    <3> QED BY <1>k, <1>a, <2>1, <3>1, <3>2
  <2>3. SumFunctionOnSet(Hashed', Completed) = SumFunctionOnSet(Hashed, Completed)
    BY <2>1, <2>2, SumSame
  <2>4. item.status # "error" =>
          SumFunctionOnSet(Hashed', Completed') = item.hashed + SumFunctionOnSet(Hashed', Completed)
    <3> SUFFICES ASSUME item.status # "error"
                 PROVE  SumFunctionOnSet(Hashed', Completed')
                          = item.hashed + SumFunctionOnSet(Hashed', Completed)
      OBVIOUS
    <3>1. NextIndex \in Completed' /\ Completed' \ {NextIndex} = Completed
      BY <2>1
    <3>2. IsFiniteSet(Completed') /\ \A n \in Completed' : Hashed'[n] \in Int
      BY <2>1, <2>2, FS_AddElement
    <3>3. SumFunctionOnSet(Hashed', Completed')
            = Hashed'[NextIndex] + SumFunctionOnSet(Hashed', Completed' \ {NextIndex})
      BY <3>1, <3>2, SumWithout
    <3> QED BY <2>2, <3>1, <3>3
  <2>5. SumFunctionOnSet(Hashed, Completed) \in Int /\ remaining \in Int /\ HashBudget \in Int
    BY HashedIsCounted, BatchAssumption DEF BatchTypeOK
  <2>6. SumFunctionOnSet(Hashed', Completed') + remaining' <= HashBudget
    BY <2>1, <2>2, <2>3, <2>4, <2>5 DEF BudgetIsKept
  <2> QED BY <2>6 DEF BudgetIsKept
<1> QED BY <1>1, <1>2, <1>3, <1>4, <1>5, <1>6

(* InspectBatch: a source that is an error becomes an item that is.         *)
LEMMA ReportErrorKeeps ==
  ASSUME BatchFacts, ReportError
  PROVE  BatchFacts'
<1> DEFINE item == Item(NoFile, "error", sources[NextIndex].error, 0)
<1>1. /\ job = "inspecting" /\ Len(results) < Count /\ sources[NextIndex].error # "none"
      /\ results' = Append(results, item)
      /\ UNCHANGED <<job, hashing, size, grown, descriptors, request, sources, measured, remaining,
                     itemsAs, batchStatus, batchError>>
  BY DEF ReportError, inputVars, openVars, hashVars, answerVars
<1>2. NextIndex \in 1..Len(sources) /\ Len(results) \in Nat /\ NextIndex \in Nat
  BY <1>1, BatchAssumption, BatchLists DEF BatchFacts, BatchProgress, NextIndex
<1>3. sources[NextIndex] \in Taken /\ sources[NextIndex].file = NoFile
  BY <1>1, <1>2, BatchLists DEF BatchFacts, DescriptorsMatch
<1>4. item \in BatchItem
  BY <1>2, <1>3, BatchAssumption DEF Item, BatchItem, Taken, NoFile
<1>5. remaining \in Int /\ (remaining < 0 => grown # {})
  BY DEF BatchFacts, BatchTypeOK, BudgetIsKept
<1>6. /\ item.index = Len(results) /\ item.path = NextIndex /\ item.file = NoFile
      /\ item.status = "error" /\ item.code = sources[NextIndex].error
  BY DEF Item
<1> HIDE DEF item
<1>7. /\ remaining' \in Int /\ remaining' <= remaining - (IF item.status = "error" THEN 0 ELSE item.hashed)
      /\ (remaining' < 0 => grown # {}) /\ job' = "inspecting"
  BY <1>1, <1>5, <1>6
<1> QED BY <1>1, <1>3, <1>4, <1>6, <1>7, AddingKeeps

(* InspectBatch looks at the size, and nothing else happens. *)
LEMMA MeasureKeeps ==
  ASSUME BatchFacts, Measure
  PROVE  BatchFacts'
<1> USE DEF BatchFacts
<1>0. /\ UNCHANGED <<hashing, size, grown, descriptors, request, sources, remaining, results,
                     itemsAs, batchStatus, batchError>>
      /\ job = "inspecting" /\ job' = "measured" /\ measured' = size[NextFile]
      /\ Len(results) < Count /\ sources[NextIndex].error = "none"
  BY DEF Measure, inputVars, openVars, answerVars
<1>k. NextFile \in 1..Count /\ size[NextFile] \in Nat
  <2>1. NextIndex \in 1..Len(sources) /\ NextIndex \in 1..Count
    BY <1>0, BatchAssumption, BatchLists DEF BatchProgress, NextIndex
  <2>2. NextFile \in 1..Count
    BY <1>0, <2>1 DEF DescriptorsMatch, NextFile
  <2> QED BY <2>2, BatchAssumption DEF BatchTypeOK
<1>1. BatchTypeOK'
  BY <1>0, <1>k DEF BatchTypeOK
<1>2. BatchProgress'
  BY <1>0 DEF BatchProgress
<1>3. DescriptorsMatch' /\ SourcesKeepErrors' /\ ItemsAreOfTheirPaths'
  BY <1>0 DEF DescriptorsMatch, SourcesKeepErrors, ItemsAreOfTheirPaths, ItemIsOfItsPath
<1>4. MeasuredBefore' /\ OkMeansAll'
  BY <1>0, <1>k DEF MeasuredBefore, OkMeansAll, NextFile, NextIndex
<1>5. BudgetIsKept'
  BY <1>0, BudgetStays
<1> QED BY <1>1, <1>2, <1>3, <1>4, <1>5

(* InspectBatch: what a file had when it was measured fits the budget, what  *)
(* it has more has grown since.                                             *)
LEMMA InspectKeeps ==
  ASSUME BatchFacts, NEW itemStatus \in {"ok", "partial", "error"}, NEW hashed \in 0..LargestFile,
         Inspect(itemStatus, hashed)
  PROVE  BatchFacts'
<1> DEFINE code == IF itemStatus = "error" THEN "E_INSPECT" ELSE "none"
           item == Item(NextFile, itemStatus, code, hashed)
<1>1. /\ job = "measured" /\ job' = "inspecting" /\ results' = Append(results, item)
      /\ hashed \in IF HashAdmitted /\ size[NextFile] <= HashBudget THEN {0, size[NextFile]} ELSE {0}
      /\ remaining' = IF HashAdmitted /\ itemStatus # "error" THEN remaining - size[NextFile] ELSE remaining
      /\ UNCHANGED <<hashing, size, grown, descriptors, request, sources, measured, itemsAs,
                     batchStatus, batchError>>
  BY DEF Inspect, inputVars, openVars, answerVars
<1>2. /\ NextIndex \in 1..Len(sources) /\ NextIndex \in 1..Count /\ Len(results) \in Nat
      /\ Len(results) < Count
  BY <1>1, BatchAssumption, BatchLists DEF BatchFacts, BatchProgress, NextIndex
<1>3. /\ sources[NextIndex].error = "none" /\ NextFile \in 1..Count /\ NextFile = sources[NextIndex].file
      /\ measured <= size[NextFile] /\ (measured < size[NextFile] => grown # {})
  BY <1>1, <1>2 DEF BatchFacts, MeasuredBefore, DescriptorsMatch, NextFile
<1>4. size[NextFile] \in Nat /\ measured \in Nat /\ remaining \in Int
  BY <1>3, BatchAssumption DEF BatchFacts, BatchTypeOK
<1>5. item \in BatchItem
  BY <1>2, <1>3, BatchAssumption DEF Item, BatchItem
<1>6. /\ item.index = Len(results) /\ item.path = NextIndex /\ item.file = NextFile
      /\ item.status = itemStatus /\ item.hashed = hashed
  BY DEF Item
<1> HIDE DEF item
<1>7. remaining < 0 => grown # {}
  BY DEF BatchFacts, BudgetIsKept
<1>8. /\ remaining' \in Int /\ remaining' <= remaining - (IF item.status = "error" THEN 0 ELSE item.hashed)
      /\ (remaining' < 0 => grown # {})
  <2>1. CASE HashAdmitted
    BY <1>1, <1>3, <1>4, <1>6, <1>7, <2>1 DEF HashAdmitted
  <2>2. CASE ~HashAdmitted
    BY <1>1, <1>4, <1>6, <1>7, <2>2
  <2> QED BY <2>1, <2>2
<1> QED BY <1>1, <1>2, <1>3, <1>5, <1>6, <1>8, AddingKeeps

(* collectionStatus: only a batch without a failed item is "ok".            *)
LEMMA EndBatchKeeps ==
  ASSUME BatchFacts, EndBatch
  PROVE  BatchFacts'
<1> USE DEF BatchFacts
<1>0. /\ UNCHANGED <<hashing, size, grown, descriptors, request, sources, measured, remaining,
                     results, itemsAs, batchError>>
      /\ job = "inspecting" /\ Len(results) = Count /\ job' = "fitting"
      /\ batchStatus' = CollectionStatus(Cardinality(Completed), Count)
  BY DEF EndBatch, inputVars, openVars, hashVars
<1>1. BatchTypeOK'
  BY <1>0 DEF BatchTypeOK, CollectionStatus
<1>2. BatchProgress'
  BY <1>0 DEF BatchProgress
<1>3. DescriptorsMatch' /\ SourcesKeepErrors' /\ ItemsAreOfTheirPaths'
  BY <1>0 DEF DescriptorsMatch, SourcesKeepErrors, ItemsAreOfTheirPaths, ItemIsOfItsPath
<1>4. MeasuredBefore'
  BY <1>0 DEF MeasuredBefore
<1>5. OkMeansAll'
  <2> SUFFICES ASSUME batchStatus' = "ok" PROVE Completed = 1..Count
    BY <1>0 DEF OkMeansAll, Completed
  <2>1. Completed \in SUBSET (1..Count) /\ IsFiniteSet(1..Count) /\ Cardinality(1..Count) = Count
    BY <1>0, BatchAssumption, FS_Interval DEF Completed
  <2>2. Cardinality(Completed) \in Nat /\ Cardinality(Completed) <= Count
    BY <2>1, FS_Subset, FS_CardinalityType
  <2>3. Cardinality(Completed) = Cardinality(1..Count)
    BY <1>0, <2>1, <2>2, BatchAssumption DEF CollectionStatus
  <2> QED BY <2>1, <2>3, FS_Subset
<1>6. BudgetIsKept'
  BY <1>0, BudgetStays
<1> QED BY <1>1, <1>2, <1>3, <1>4, <1>5, <1>6

(* fitBatchResponse, as long as all items stay: only the status may change, *)
(* and not to "ok".                                                         *)
LEMMA FittingKeeps ==
  ASSUME BatchFacts, FitsWhole \/ FitsWithoutNames
  PROVE  BatchFacts'
<1> USE DEF BatchFacts
<1>0. /\ UNCHANGED <<hashing, size, grown, descriptors, request, sources, measured, remaining,
                     results, itemsAs, batchError>>
      /\ job = "fitting" /\ job' = "validating" /\ batchStatus' \in {batchStatus, "partial"}
  BY DEF FitsWhole, FitsWithoutNames, inputVars, openVars, hashVars, answerVars
<1>1. BatchTypeOK'
  BY <1>0 DEF BatchTypeOK
<1>2. BatchProgress'
  BY <1>0 DEF BatchProgress
<1>3. DescriptorsMatch' /\ SourcesKeepErrors' /\ ItemsAreOfTheirPaths'
  BY <1>0 DEF DescriptorsMatch, SourcesKeepErrors, ItemsAreOfTheirPaths, ItemIsOfItsPath
<1>4. MeasuredBefore' /\ OkMeansAll'
  BY <1>0 DEF MeasuredBefore, OkMeansAll, Completed
<1>5. BudgetIsKept'
  BY <1>0, BudgetStays
<1> QED BY <1>1, <1>2, <1>3, <1>4, <1>5

(* fitBatchResponse, with the last n items replaced: each still stands at   *)
(* its path, and what it had hashed is given up with it.                    *)
LEMMA FittingErrorsKeeps ==
  ASSUME BatchFacts, NEW n \in 1..Count, FitsWithErrors(n)
  PROVE  BatchFacts'
<1> USE DEF BatchFacts
<1> DEFINE Failed(k) == [results[k] EXCEPT !.file = NoFile, !.status = "error",
                                           !.code = "E_BATCH_RESPONSE_LIMIT", !.hashed = 0]
<1>0. /\ UNCHANGED <<hashing, size, grown, descriptors, request, sources, measured, remaining,
                     itemsAs, batchError>>
      /\ job = "fitting" /\ job' = "validating" /\ batchStatus' = "partial"
      /\ results' = [k \in 1..Count |-> IF k <= Count - n THEN results[k] ELSE Failed(k)]
  BY DEF FitsWithErrors, inputVars, openVars, hashVars
<1>k. Len(results) = Count /\ batchError = "none" /\ Count \in Nat
  BY <1>0, BatchAssumption DEF BatchProgress
<1>f. \A k \in 1..Count : /\ results[k] \in BatchItem /\ Failed(k) \in BatchItem
                          /\ Failed(k).index = results[k].index /\ Failed(k).path = results[k].path
                          /\ Failed(k).file = NoFile /\ Failed(k).status = "error"
                          /\ Failed(k).code = "E_BATCH_RESPONSE_LIMIT" /\ Failed(k).hashed = 0
  <2> SUFFICES ASSUME NEW k \in 1..Count
               PROVE  /\ results[k] \in BatchItem /\ Failed(k) \in BatchItem
                      /\ Failed(k).index = results[k].index /\ Failed(k).path = results[k].path
                      /\ Failed(k).file = NoFile /\ Failed(k).status = "error"
                      /\ Failed(k).code = "E_BATCH_RESPONSE_LIMIT" /\ Failed(k).hashed = 0
    BY Zenon
  <2>1. results[k] \in BatchItem
    BY <1>k, BatchLists
  <2>2. NoFile \in 0..Count
    BY <1>k DEF NoFile
  <2>3. Failed(k) \in BatchItem
    BY <2>1, <2>2, Zenon DEF BatchItem
  <2> QED BY <2>1, <2>3 DEF BatchItem
<1> HIDE DEF Failed
<1>a. /\ results' \in Seq(BatchItem) /\ Len(results') = Count
      /\ \A k \in 1..Count : results'[k] = IF k <= Count - n THEN results[k] ELSE Failed(k)
  <2>1. results' \in [1..Count -> BatchItem]
    BY <1>0, <1>f
  <2> QED BY <1>0, <1>k, <2>1
<1>1. BatchTypeOK'
  BY <1>0, <1>a DEF BatchTypeOK
<1>2. BatchProgress'
  BY <1>0, <1>k, <1>a DEF BatchProgress
<1>3. DescriptorsMatch' /\ SourcesKeepErrors'
  BY <1>0 DEF DescriptorsMatch, SourcesKeepErrors
<1>4. ItemsAreOfTheirPaths'
  <2> SUFFICES ASSUME NEW k \in 1..Count PROVE ItemIsOfItsPath(k)'
    BY <1>a DEF ItemsAreOfTheirPaths
  <2>1. ItemIsOfItsPath(k)
    BY <1>k DEF ItemsAreOfTheirPaths
  <2> QED BY <1>0, <1>a, <1>f, <2>1 DEF ItemIsOfItsPath
<1>5. MeasuredBefore' /\ OkMeansAll'
  BY <1>0 DEF MeasuredBefore, OkMeansAll
<1>6. BudgetIsKept'
  <2>1. Completed' \in SUBSET Completed
    BY <1>k, <1>a, <1>f DEF Completed
  <2>2. \A k \in Completed' : results'[k] = results[k]
    BY <1>k, <1>a, <1>f DEF Completed
  <2>3. DOMAIN results' = 1..Count
    BY <1>0
  <2>4. \A k \in Completed' : Hashed'[k] = Hashed[k]
    BY <1>k, <1>a, <2>2, <2>3, HashedIsCounted DEF Hashed, Completed
  <2>5. IsFiniteSet(Completed) /\ \A k \in Completed : Hashed[k] \in Nat
    BY HashedIsCounted DEF Completed
  <2>6. IsFiniteSet(Completed')
    BY <2>1, <2>5, FS_Subset
  <2>7. SumFunctionOnSet(Hashed', Completed') = SumFunctionOnSet(Hashed, Completed')
    BY <2>4, <2>6, SumSame
  <2>8. SumFunctionOnSet(Hashed, Completed') <= SumFunctionOnSet(Hashed, Completed)
    BY <2>1, <2>5, SumOfSubset
  <2>9. SumFunctionOnSet(Hashed, Completed') \in Int /\ SumFunctionOnSet(Hashed, Completed) \in Int
    <3>1. \A k \in Completed' : Hashed[k] \in Int
      BY <2>1, <2>5
    <3> QED BY <2>6, <3>1, SumType, HashedIsCounted
  <2>10. SumFunctionOnSet(Hashed', Completed') + remaining' <= HashBudget
    BY <1>0, <2>7, <2>8, <2>9, BatchAssumption DEF BudgetIsKept, BatchTypeOK
  <2> QED BY <1>0, <2>10 DEF BudgetIsKept
<1> QED BY <1>1, <1>2, <1>3, <1>4, <1>5, <1>6

(* fitBatchResponse, when not even the errors fit: no items, and the error. *)
LEMMA FittingNothingKeeps ==
  ASSUME BatchFacts, FitsNever
  PROVE  BatchFacts'
<1> USE DEF BatchFacts
<1>0. /\ UNCHANGED <<hashing, size, grown, descriptors, request, sources, measured, remaining>>
      /\ job = "fitting" /\ job' = "validating" /\ results' = <<>> /\ itemsAs' = "null"
      /\ batchStatus' = "error" /\ batchError' = "E_RESPONSE_TOO_LARGE"
  BY DEF FitsNever, inputVars, openVars, hashVars
<1>1. BatchTypeOK'
  BY <1>0 DEF BatchTypeOK
<1>2. BatchProgress'
  BY <1>0, BatchAssumption DEF BatchProgress
<1>3. DescriptorsMatch' /\ SourcesKeepErrors' /\ ItemsAreOfTheirPaths'
  BY <1>0 DEF DescriptorsMatch, SourcesKeepErrors, ItemsAreOfTheirPaths
<1>4. MeasuredBefore' /\ OkMeansAll'
  BY <1>0 DEF MeasuredBefore, OkMeansAll
<1>5. BudgetIsKept'
  BY <1>0, NothingCharged
<1> QED BY <1>1, <1>2, <1>3, <1>4, <1>5

(* Every step of a batch keeps the facts. *)
LEMMA BatchStep == BatchFacts /\ [BatchNext]_batchVars => BatchFacts'
<1> SUFFICES ASSUME BatchFacts, [BatchNext]_batchVars PROVE BatchFacts'
  OBVIOUS
<1>1. CASE OpenOne \/ OpenOneFails
  BY <1>1, OpeningKeeps
<1>2. CASE SendRequest \/ Validate
  BY <1>2, StagesKeep
<1>3. CASE RefuseRequest \/ BatchPanics \/ BatchWorkerFails \/ BatchInvalid
  BY <1>3, ReplacingKeeps
<1>4. CASE TakeSource
  BY <1>4, TakeSourceKeeps
<1>5. CASE ReportError
  BY <1>5, ReportErrorKeeps
<1>6. CASE Measure
  BY <1>6, MeasureKeeps
<1>7. CASE \E itemStatus \in {"ok", "partial", "error"}, hashed \in 0..LargestFile :
             Inspect(itemStatus, hashed)
  BY <1>7, InspectKeeps
<1>8. CASE EndBatch
  BY <1>8, EndBatchKeeps
<1>9. CASE FitsWhole \/ FitsWithoutNames
  BY <1>9, FittingKeeps
<1>10. CASE \E n \in 1..Count : FitsWithErrors(n)
  BY <1>10, FittingErrorsKeeps
<1>11. CASE FitsNever
  BY <1>11, FittingNothingKeeps
<1>12. CASE \E p \in 1..Count : Grow(p)
  BY <1>12, GrowKeeps
<1>13. CASE UNCHANGED batchVars
  <2> USE DEF BatchFacts
  <2>1. UNCHANGED <<job, hashing, size, grown, descriptors, request, sources, measured, remaining,
                    results, itemsAs, batchStatus, batchError>>
    BY <1>13 DEF batchVars
  <2>2. BatchTypeOK' /\ BatchProgress'
    BY <2>1 DEF BatchTypeOK, BatchProgress
  <2>3. DescriptorsMatch' /\ SourcesKeepErrors' /\ ItemsAreOfTheirPaths'
    BY <2>1 DEF DescriptorsMatch, SourcesKeepErrors, ItemsAreOfTheirPaths, ItemIsOfItsPath
  <2>4. MeasuredBefore' /\ OkMeansAll'
    BY <2>1 DEF MeasuredBefore, OkMeansAll, Completed, NextFile, NextIndex
  <2>5. BudgetIsKept'
    BY <2>1, BudgetStays
  <2> QED BY <2>2, <2>3, <2>4, <2>5
<1> QED BY <1>1, <1>2, <1>3, <1>4, <1>5, <1>6, <1>7, <1>8, <1>9, <1>10, <1>11, <1>12, <1>13
        DEF BatchNext

(* Whatever the paths are and however many, each descriptor the worker is    *)
(* handed is that of the file opened at its item's path, and the hashed      *)
(* bytes of the items that did not fail are charged to the one budget.      *)
THEOREM BatchIsRight == BatchSpec => []BatchIInv
<1>1. BatchFacts => BatchIInv
  BY DEF BatchFacts, BatchProgress, BatchIInv
<1> QED BY BatchBegins, BatchStep, <1>1, PTL DEF BatchSpec

(* A batch is answered with an item for each path, in the order of the call, *)
(* that speaks of no other path's file, with the path's own error, with "ok" *)
(* only of a batch without a failed item, or with an error and no items.    *)
THEOREM BatchAnswersHonestly == BatchSpec => []BatchIsHonest
<1>1. BatchFacts => BatchIsHonest
  BY DEF BatchFacts, BatchProgress, ItemsAreOfTheirPaths, ItemIsOfItsPath, OkMeansAll, BatchIsHonest
<1> QED BY BatchBegins, BatchStep, <1>1, PTL DEF BatchSpec

-----------------------------------------------------------------------------
(* The inventory. Every entry the code looks at is of some kind, and its     *)
(* change may be that of a file from elsewhere.                             *)
Anything == [kind : Kinds, change : Int]
Looked == [path : Paths \cup {Top}, seen : Anything, opened : Anything]
Kept == [path : Paths, entry : Anything]

WalkTypeOK ==
  /\ changes \in Nat /\ current \in Looked /\ candidate \in Looked /\ files \in Seq(Kept)
  /\ entriesScanned \in Nat /\ directoriesScanned \in Nat
  /\ symlinksSkipped \in Nat /\ specialSkipped \in Nat

(* What stands anywhere stands in a directory. *)
TreeStands == \A p \in Paths : fs[p].kind # "absent" => fs[Parent(p)].kind = "directory"

WalkStages ==
  /\ at \in {"starting", "directory", "returned"} => entries = {}
  /\ at = "starting" => /\ queue = <<>> /\ files = <<>> /\ ~truncated
                        /\ entriesScanned = 0 /\ directoriesScanned = 0
                        /\ symlinksSkipped = 0 /\ specialSkipped = 0
  /\ at = "returned" => queue = <<>> \/ truncated
  /\ at = "listing" => directoriesScanned < MaxDirectories
  /\ \A p \in entries : Parent(p) = current.path
  /\ at \in {"opening", "checking"} => candidate.path \in Paths /\ Len(files) < MaxFiles

(* No two places the walk has yet to go lie below one another, and none of   *)
(* them leads to a file it has already: it does not come anywhere twice.    *)
ToCome == {queue[i] : i \in 1..Len(queue)} \cup entries

WaysApart ==
  /\ \A i, j \in 1..Len(queue) : queue[i] \in PathsAbove(queue[j]) => i = j
  /\ \A i \in 1..Len(queue), p \in entries :
       queue[i] \notin PathsAbove(p) /\ p \notin PathsAbove(queue[i])
  /\ \A q \in ToCome, f \in Collected : q \notin PathsAbove(f)
  /\ at \in {"opening", "checking"} => /\ candidate.path \notin Collected
                                       /\ \A q \in ToCome : q \notin PathsAbove(candidate.path)

(* The entries that were read and are not yet accounted for. *)
Unsettled ==
  Len(queue) + (IF at = "listing" THEN 1 ELSE 0)
    + (IF at \in {"entry", "opening", "checking"} THEN Cardinality(entries) ELSE 0)
    + (IF at \in {"opening", "checking"} THEN 1 ELSE 0)

(* As long as the walk missed nothing, what it read is what it has, what it  *)
(* skipped, what it went through and what it has yet to look at.            *)
Accounted ==
  at \notin {"starting", "failed"} /\ ~truncated =>
    entriesScanned + 1 = Len(files) + symlinksSkipped + specialSkipped + directoriesScanned + Unsettled

WalkIsRight ==
  /\ WalkFacts /\ WalkTypeOK /\ TreeStands /\ WalkStages /\ WaysApart /\ NothingLost /\ Accounted

Inventoried == [path : Paths, status : ItemStatuses]
Inspected == {i \in 1..Len(items) : items[i].status # "error"}

ResultTypeOK ==
  /\ stage \in {"waiting", "inspecting", "fitting", "done"} /\ lapsed \in BOOLEAN
  /\ items \in Seq(Inventoried) /\ filesScanned \in Nat /\ formats \in [Formats -> Nat]
  /\ limitsTruncated \in BOOLEAN
  /\ diagnostics \subseteq {"INVENTORY_LIMIT", "INVENTORY_RESPONSE_TRUNCATED"}
  /\ status \in {"ok", "partial", "error"}
  /\ error \in {"none", "E_WALK", "E_INVALID_INPUT", "E_INTERNAL", "E_WORKER", "E_RESULT_SCHEMA",
                "E_RESPONSE_TOO_LARGE"}

ResultStages ==
  /\ stage = "waiting" => items = <<>> /\ status = "ok" /\ error = "none" /\ diagnostics = {}
  /\ stage \in {"inspecting", "fitting"} =>
       /\ at = "returned" /\ error = "none" /\ limitsTruncated = truncated /\ status # "error"
       /\ status = "ok" => Inspected = 1..Len(items)
  /\ stage = "inspecting" => diagnostics = {}
  /\ stage = "fitting" => /\ Len(items) = Len(files)
                          /\ truncated => status = "partial" /\ "INVENTORY_LIMIT" \in diagnostics
                          /\ ~truncated => diagnostics = {}
  /\ stage = "done" => at \in {"returned", "failed"}

ItemsCounted ==
  /\ Len(items) <= Len(files)
  /\ \A i \in 1..Len(items) : items[i].path = files[i].path
  /\ filesScanned = SumFunction(formats)
  /\ error = "none" => Cardinality(Inspected) <= filesScanned

InventoryFacts ==
  /\ WalkIsRight /\ ResultTypeOK /\ ResultStages /\ ItemsCounted /\ InventoryIsHonest

(* A prefix of a path is a path that is no longer, the beginning of it.      *)
LEMMA PrefixIsPath ==
  ASSUME NEW p \in Seq(Nat)
  PROVE  /\ \A n \in 0..Len(p) : SubSeq(p, 1, n) \in PathsAbove(p) /\ Len(SubSeq(p, 1, n)) = n
         /\ \A q \in PathsAbove(p) : q \in Seq(Nat) /\ Len(q) \in 0..Len(p) /\ q = SubSeq(p, 1, Len(q))
         /\ p \in PathsAbove(p) /\ Top \in PathsAbove(p)
<1>1. ASSUME NEW n \in 0..Len(p)
      PROVE  SubSeq(p, 1, n) \in Seq(Nat) /\ Len(SubSeq(p, 1, n)) = n
  <2>1. Len(p) \in Nat /\ \A i \in 1..n : p[i] \in Nat
    BY ElementOfSeq, LenProperties
  <2> QED BY <2>1, SubSeqProperties
<1>2. SubSeq(p, 1, Len(p)) = p /\ SubSeq(p, 1, 0) = Top /\ Len(p) \in Nat
  BY SubSeqFull, SubSeqEmpty, LenProperties DEF Top
<1>3. ASSUME NEW q \in PathsAbove(p)
      PROVE  q \in Seq(Nat) /\ Len(q) \in 0..Len(p) /\ q = SubSeq(p, 1, Len(q))
  <2>1. PICK n \in 0..Len(p) : q = SubSeq(p, 1, n)
    BY DEF PathsAbove
  <2> QED BY <1>1, <2>1
<1>4. p \in PathsAbove(p) /\ Top \in PathsAbove(p)
  <2>1. Len(p) \in 0..Len(p) /\ 0 \in 0..Len(p)
    BY <1>2
  <2> QED BY <1>2, <2>1 DEF PathsAbove
<1> QED BY <1>1, <1>3, <1>4 DEF PathsAbove

(* What leads to a prefix of a path leads to the path. *)
LEMMA PrefixesOfPrefix ==
  ASSUME NEW p \in Seq(Nat), NEW q \in PathsAbove(p)
  PROVE  PathsAbove(q) = {SubSeq(p, 1, m) : m \in 0..Len(q)} /\ PathsAbove(q) \subseteq PathsAbove(p)
<1>1. Len(p) \in Nat /\ q \in Seq(Nat) /\ Len(q) \in 0..Len(p) /\ q = SubSeq(p, 1, Len(q))
  BY PrefixIsPath, LenProperties
<1>2. ASSUME NEW m \in 0..Len(q) PROVE SubSeq(q, 1, m) = SubSeq(p, 1, m)
  <2>1. CASE m = 0
    BY <2>1, SubSeqEmpty
  <2>2. CASE m # 0
    <3> DEFINE k == Len(q)
    <3>1. 1 \in 1..Len(p) /\ k \in 1..Len(p) /\ 1 \in 1..(k - 1 + 1) /\ m \in 1..(k - 1 + 1)
      BY <1>1, <2>2
    <3>2. q = SubSeq(p, 1, k)
      BY <1>1
    <3> HIDE DEF k
    <3>3. SubSeq(SubSeq(p, 1, k), 1, m) = SubSeq(p, 1 + 1 - 1, 1 + m - 1)
      BY <3>1, SubSeqOfSubSeq
    <3>4. 1 + 1 - 1 = 1 /\ 1 + m - 1 = m
      OBVIOUS
    <3> QED BY <3>2, <3>3, <3>4
  <2> QED BY <2>1, <2>2
<1>3. PathsAbove(q) = {SubSeq(p, 1, m) : m \in 0..Len(q)}
  BY <1>2 DEF PathsAbove
<1>4. 0..Len(q) \subseteq 0..Len(p)
  BY <1>1
<1> QED BY <1>3, <1>4 DEF PathsAbove

(* What leads to an entry leads to its directory, or is the entry.          *)
LEMMA PrefixesOfEntry ==
  ASSUME NEW p \in Seq(Nat), p # Top
  PROVE  /\ Parent(p) \in PathsAbove(p) /\ Parent(p) \in Seq(Nat) /\ Len(Parent(p)) = Len(p) - 1
         /\ PathsAbove(p) = PathsAbove(Parent(p)) \cup {p}
<1>1. Len(p) \in Nat \ {0} /\ Len(p) - 1 \in 0..Len(p)
  BY LenProperties, EmptySeq DEF Top
<1>2. Parent(p) \in PathsAbove(p) /\ Parent(p) \in Seq(Nat) /\ Len(Parent(p)) = Len(p) - 1
  BY <1>1, PrefixIsPath DEF Parent
<1>3. PathsAbove(Parent(p)) = {SubSeq(p, 1, m) : m \in 0..(Len(p) - 1)}
  BY <1>2, PrefixesOfPrefix
<1>4. 0..Len(p) = 0..(Len(p) - 1) \cup {Len(p)} /\ SubSeq(p, 1, Len(p)) = p
  BY <1>1, SubSeqFull
<1>5. PathsAbove(p) = PathsAbove(Parent(p)) \cup {p}
  BY <1>3, <1>4 DEF PathsAbove
<1> QED BY <1>2, <1>5

(* On the way from a directory to something below it there is an entry of   *)
(* that directory.                                                          *)
LEMMA NextOnTheWay ==
  ASSUME NEW p \in Seq(Nat), NEW q \in PathsAbove(p), q # p
  PROVE  \E c \in PathsAbove(p) : c \in Seq(Nat) /\ c # Top /\ Parent(c) = q
<1> DEFINE n == Len(q) + 1
           c == SubSeq(p, 1, n)
<1>1. q = SubSeq(p, 1, Len(q)) /\ Len(q) \in 0..Len(p) /\ SubSeq(p, 1, Len(p)) = p /\ Len(p) \in Nat
  BY PrefixIsPath, SubSeqFull, LenProperties
<1>2. n \in 1..Len(p) /\ n - 1 = Len(q)
  BY <1>1
<1>3. c \in PathsAbove(p) /\ c \in Seq(Nat) /\ Len(c) = n
  <2>1. n \in 0..Len(p)
    BY <1>1, <1>2
  <2> HIDE DEF n
  <2> QED BY <2>1, PrefixIsPath
<1>4. PathsAbove(c) = {SubSeq(p, 1, m) : m \in 0..n}
  BY <1>3, PrefixesOfPrefix
<1>5. c # Top
  BY <1>2, <1>3, LenProperties DEF Top
<1>6. Parent(c) \in PathsAbove(p) /\ Len(Parent(c)) = Len(q)
  BY <1>2, <1>3, <1>5, PrefixesOfEntry, PrefixesOfPrefix
<1>7. Parent(c) = q
  BY <1>1, <1>6, PrefixIsPath
<1> QED BY <1>3, <1>5, <1>7

(* Two entries of one directory do not lie below one another. *)
LEMMA EntriesApart ==
  ASSUME NEW p \in Seq(Nat), NEW q \in Seq(Nat), p # Top, q # Top, Parent(p) = Parent(q),
         p \in PathsAbove(q)
  PROVE  p = q
<1>1. Len(p) = Len(q)
  <2>1. Len(Parent(p)) = Len(p) - 1 /\ Len(Parent(q)) = Len(q) - 1 /\ Len(p) \in Nat /\ Len(q) \in Nat
    BY PrefixesOfEntry, LenProperties
  <2> QED BY <2>1
<1>2. p = SubSeq(q, 1, Len(q))
  BY <1>1, PrefixIsPath
<1> QED BY <1>2, SubSeqFull

-----------------------------------------------------------------------------
(* The paths of a tree are finitely many, and each lies in a directory.     *)
LEMMA PathsAre ==
  /\ IsFiniteSet(Paths) /\ Top \in Seq(Nat) /\ Len(Top) = 0
  /\ \A p \in Paths : p \in Seq(Nat) /\ p # Top /\ Parent(p) \in Paths \cup {Top}
BY WalkAssumption, EmptySeq DEF Top

(* Everything on the way to a path is a path. *)
LEMMA WaysArePaths == \A p \in Paths : PathsAbove(p) \subseteq Paths \cup {Top}
<1> DEFINE N == {n \in Nat : \A p \in Paths \cup {Top} : Len(p) <= n => PathsAbove(p) \subseteq Paths \cup {Top}}
<1>1. PathsAbove(Top) = {Top}
  <2>1. \A q \in PathsAbove(Top) : q = SubSeq(Top, 1, Len(q)) /\ Len(q) \in 0..0
    BY PathsAre, PrefixIsPath
  <2>2. SubSeq(Top, 1, 0) = Top
    BY SubSeqEmpty DEF Top
  <2>3. \A q \in PathsAbove(Top) : q = Top
    <3> SUFFICES ASSUME NEW q \in PathsAbove(Top) PROVE q = Top
      OBVIOUS
    <3>1. Len(q) = 0
      BY <2>1
    <3> QED BY <2>1, <2>2, <3>1, Zenon
  <2>4. Top \in PathsAbove(Top)
    BY PathsAre, PrefixIsPath
  <2> QED BY <2>3, <2>4
<1>2. 0 \in N
  <2>1. ASSUME NEW p \in Paths PROVE ~(Len(p) <= 0)
    BY PathsAre, EmptySeq DEF Top
  <2> QED BY <1>1, <2>1
<1>3. ASSUME NEW n \in Nat, n \in N PROVE n + 1 \in N
  <2> SUFFICES ASSUME NEW p \in Paths, Len(p) <= n + 1 PROVE PathsAbove(p) \subseteq Paths \cup {Top}
    BY <1>1
  <2>1. /\ PathsAbove(p) = PathsAbove(Parent(p)) \cup {p} /\ Len(Parent(p)) = Len(p) - 1
        /\ Parent(p) \in Paths \cup {Top} /\ Len(p) \in Nat
    BY PathsAre, PrefixesOfEntry, LenProperties
  <2>2. PathsAbove(Parent(p)) \subseteq Paths \cup {Top}
    <3>1. Len(Parent(p)) <= n
      BY <2>1
    <3> QED BY <1>3, <2>1, <3>1
  <2> QED BY <2>1, <2>2
<1>4. Nat \subseteq N
  <2> HIDE DEF N
  <2> QED BY <1>2, <1>3, NatSetInduction
<1> SUFFICES ASSUME NEW p \in Paths PROVE PathsAbove(p) \subseteq Paths \cup {Top}
  OBVIOUS
<1>5. Len(p) \in Nat
  BY PathsAre, LenProperties
<1> QED BY <1>4, <1>5

(* Everything on the way to what stands anywhere is a directory. *)
LEMMA DirectoriesAbove ==
  ASSUME TreeStands
  PROVE  \A p \in Paths : fs[p].kind # "absent" =>
           \A q \in PathsAbove(p) : q # p => fs[q].kind = "directory"
<1> DEFINE N == {n \in Nat : \A p \in Paths : Len(p) <= n /\ fs[p].kind # "absent" =>
                               \A q \in PathsAbove(p) : q # p => fs[q].kind = "directory"}
<1>1. 0 \in N
  <2>1. ASSUME NEW p \in Paths PROVE ~(Len(p) <= 0)
    BY PathsAre, EmptySeq DEF Top
  <2> QED BY <2>1
<1>2. ASSUME NEW n \in Nat, n \in N PROVE n + 1 \in N
  <2> SUFFICES ASSUME NEW p \in Paths, Len(p) <= n + 1, fs[p].kind # "absent",
                      NEW q \in PathsAbove(p), q # p
               PROVE  fs[q].kind = "directory"
    OBVIOUS
  <2>1. /\ q \in PathsAbove(Parent(p)) /\ Len(Parent(p)) = Len(p) - 1
        /\ Parent(p) \in Paths \cup {Top} /\ Len(p) \in Nat
    BY PathsAre, PrefixesOfEntry, LenProperties
  <2>2. fs[Parent(p)].kind = "directory"
    BY DEF TreeStands
  <2>3. CASE q = Parent(p)
    BY <2>2, <2>3
  <2>4. CASE q # Parent(p)
    <3>1. Parent(p) # Top
      <4>1. \A r \in PathsAbove(Top) : r = Top
        <5> SUFFICES ASSUME NEW r \in PathsAbove(Top) PROVE r = Top
          OBVIOUS
        <5>1. r \in Seq(Nat) /\ Len(r) \in 0..0
          BY PathsAre, PrefixIsPath
        <5> QED BY <5>1, EmptySeq DEF Top
      <4> QED BY <2>1, <2>4, <4>1
    <3>2. Parent(p) \in Paths /\ Len(Parent(p)) <= n
      BY <2>1, <3>1
    <3> QED BY <1>2, <2>1, <2>2, <2>4, <3>2
  <2> QED BY <2>3, <2>4
<1>3. Nat \subseteq N
  <2> HIDE DEF N
  <2> QED BY <1>1, <1>2, NatSetInduction
<1> SUFFICES ASSUME NEW p \in Paths, fs[p].kind # "absent", NEW q \in PathsAbove(p), q # p
             PROVE  fs[q].kind = "directory"
  OBVIOUS
<1>4. Len(p) \in Nat
  BY PathsAre, LenProperties
<1> QED BY <1>3, <1>4

(* What goes with a directory is what it is on the way to. *)
LEMMA BeneathIs ==
  ASSUME NEW p \in Paths
  PROVE  /\ Beneath(p) = {q \in Paths : q # p /\ p \in PathsAbove(q)}
         /\ Parent(p) # p /\ Parent(p) \notin Beneath(p)
<1>1. ASSUME NEW q \in Paths
      PROVE  (Len(q) > Len(p) /\ SubSeq(q, 1, Len(p)) = p) <=> (q # p /\ p \in PathsAbove(q))
  <2>1. p \in Seq(Nat) /\ q \in Seq(Nat) /\ Len(p) \in Nat /\ Len(q) \in Nat
    BY PathsAre, LenProperties
  <2>2. ASSUME Len(q) > Len(p), SubSeq(q, 1, Len(p)) = p PROVE q # p /\ p \in PathsAbove(q)
    <3>1. Len(p) \in 0..Len(q)
      BY <2>1, <2>2
    <3>2. SubSeq(q, 1, Len(p)) \in PathsAbove(q)
      BY <2>1, <3>1, PrefixIsPath
    <3>3. q # p
      BY <2>1, <2>2
    <3> QED BY <2>2, <3>2, <3>3
  <2>3. ASSUME q # p, p \in PathsAbove(q) PROVE Len(q) > Len(p) /\ SubSeq(q, 1, Len(p)) = p
    <3>1. Len(p) \in 0..Len(q) /\ p = SubSeq(q, 1, Len(p)) /\ SubSeq(q, 1, Len(q)) = q
      BY <2>1, <2>3, PrefixIsPath, SubSeqFull
    <3>2. Len(p) # Len(q)
      BY <2>3, <3>1, Zenon
    <3>3. Len(q) > Len(p)
      <4>1. Len(p) \in 0..Len(q) /\ Len(p) \in Nat /\ Len(q) \in Nat
        BY <2>1, <3>1
      <4> QED BY <3>2, <4>1
    <3> QED BY <3>1, <3>3, Zenon
  <2> QED BY <2>2, <2>3
<1>2. Len(Parent(p)) < Len(p)
  BY PathsAre, PrefixesOfEntry, LenProperties
<1>3. Parent(p) # p /\ Parent(p) \notin Beneath(p)
  BY <1>2, PathsAre, PrefixesOfEntry, LenProperties DEF Beneath
<1> QED BY <1>1, <1>3 DEF Beneath

(* What the lists of the walk hold, and what the tree does. *)
LEMMA WalkLists ==
  ASSUME WalkFacts, WalkTypeOK
  PROVE  /\ Len(queue) \in Nat /\ \A i \in 1..Len(queue) : queue[i] \in Paths \cup {Top} /\ queue[i] \in Seq(Nat)
         /\ Len(files) \in Nat /\ \A i \in 1..Len(files) : files[i] \in Kept /\ files[i].path \in Paths
         /\ Collected \subseteq Paths
         /\ IsFiniteSet(entries) /\ Cardinality(entries) \in Nat
         /\ DOMAIN fs = Paths \cup {Top}
         /\ \A p \in Paths \cup {Top} : fs[p] \in Anything /\ fs[p].kind \in Kinds
<1>1. Len(queue) \in Nat /\ \A i \in 1..Len(queue) : queue[i] \in Paths \cup {Top}
  BY ElementOfSeq, LenProperties DEF WalkFacts
<1>2. Len(files) \in Nat /\ \A i \in 1..Len(files) : files[i] \in Kept
  BY ElementOfSeq, LenProperties DEF WalkTypeOK
<1>3. \A i \in 1..Len(files) : files[i].path \in Paths
  BY <1>2 DEF Kept
<1>4. IsFiniteSet(entries) /\ Cardinality(entries) \in Nat
  BY PathsAre, FS_Subset, FS_CardinalityType DEF WalkFacts
<1>5. fs \in [Paths \cup {Top} -> [kind : Kinds, change : Nat]]
  BY DEF WalkFacts
<1>6. \A p \in Paths \cup {Top} : fs[p] \in Anything /\ fs[p].kind \in Kinds
  BY <1>5 DEF Anything
<1> QED BY <1>1, <1>2, <1>3, <1>4, <1>5, <1>6, PathsAre DEF Collected

(* The walk starts with nothing collected, in a tree in which nothing stands *)
(* below anything but a directory.                                          *)
LEMMA WalkBegins == WalkInit => WalkIsRight
<1> SUFFICES ASSUME WalkInit PROVE WalkIsRight
  OBVIOUS
<1>1. PICK kind \in [Paths \cup {Top} -> Kinds] :
        /\ \A p \in Paths : kind[p] # "absent" => kind[Parent(p)] = "directory"
        /\ fs = [p \in Paths \cup {Top} |-> Entry(kind[p], 0)]
  BY DEF WalkInit
<1>2. /\ fs \in [Paths \cup {Top} -> [kind : Kinds, change : Nat]]
      /\ \A p \in Paths \cup {Top} : fs[p].kind = kind[p]
  BY <1>1 DEF Entry
<1>3. TreeStands
  <2> SUFFICES ASSUME NEW p \in Paths, fs[p].kind # "absent"
               PROVE  fs[Parent(p)].kind = "directory"
    BY DEF TreeStands
  <2> QED BY <1>1, <1>2, PathsAre
<1>4. /\ changes = 0 /\ interrupted = FALSE /\ at = "starting" /\ queue = <<>> /\ entries = {}
      /\ files = <<>> /\ current = Nobody /\ candidate = Nobody
      /\ entriesScanned = 0 /\ directoriesScanned = 0 /\ symlinksSkipped = 0 /\ specialSkipped = 0
      /\ truncated = FALSE
  BY DEF WalkInit
<1>5. WalkFacts
  <2>1. /\ queue \in Seq(Paths \cup {Top}) /\ Len(queue) = 0 /\ Len(files) = 0
        /\ 0 <= MaxFiles /\ 0 <= MaxEntries /\ 0 <= MaxDirectories
        /\ 1..Len(queue) = {} /\ 1..Len(files) = {}
    BY <1>4, EmptySeq, WalkAssumption
  <2> QED BY <1>2, <1>4, <2>1, Zenon DEF WalkFacts
<1>6. WalkTypeOK
  BY <1>4 DEF WalkTypeOK, Looked, Kept, Anything, Nobody, Absent, Entry, Kinds
<1>7. WalkStages /\ Accounted
  BY <1>4 DEF WalkStages, Accounted
<1>8. WaysApart
  BY <1>4 DEF WaysApart, ToCome, Collected
<1>9. NothingLost
  <2> SUFFICES ASSUME NEW p \in Present PROVE Pending(p)
    BY DEF NothingLost
  <2>1. p \in PathsAbove(p)
    BY PathsAre, PrefixIsPath DEF Present
  <2> QED BY <1>4, <2>1 DEF Pending, Ahead
<1> QED BY <1>3, <1>5, <1>6, <1>7, <1>8, <1>9 DEF WalkIsRight

(* The end of the queue and of a directory, a limit, a file that could not   *)
(* be opened or was exchanged: only the flag is set, and the walk goes on.  *)
LEMMA MarkingKeeps ==
  ASSUME WalkIsRight, EndOfQueue \/ StopAtLimit \/ EndOfDirectory \/ OpenFails \/ DropFile
  PROVE  WalkIsRight'
<1> USE DEF WalkIsRight
<1>0. /\ UNCHANGED <<fs, changes, interrupted, queue, current, entries, candidate, files,
                     entriesScanned, directoriesScanned, symlinksSkipped, specialSkipped>>
      /\ \/ at = "directory" /\ queue = <<>> /\ at' = "returned" /\ truncated' = truncated
         \/ at = "directory" /\ at' = "returned" /\ truncated'
         \/ at = "entry" /\ entries = {} /\ at' = "directory" /\ truncated' = truncated
         \/ at \in {"opening", "checking"} /\ at' = "entry" /\ truncated'
      /\ truncated' \in BOOLEAN
  BY DEF WalkFacts, EndOfQueue, StopAtLimit, EndOfDirectory, OpenFails, DropFile, treeVars, counters
<1>1. WalkFacts'
  BY <1>0 DEF WalkFacts
<1>2. WalkTypeOK'
  BY <1>0 DEF WalkTypeOK
<1>3. TreeStands'
  BY <1>0 DEF TreeStands
<1>4. WalkStages'
  BY <1>0 DEF WalkStages
<1>5. WaysApart'
  <2>1. ToCome' = ToCome /\ Collected' = Collected
    BY <1>0 DEF ToCome, Collected
  <2> QED BY <1>0, <2>1 DEF WaysApart
<1>6. NothingLost'
  <2> SUFFICES ASSUME NEW p \in Present, ~truncated', p \notin Collected PROVE Pending(p)'
    BY <1>0 DEF NothingLost, Present, Undisturbed, Collected
  <2>1. Pending(p)
    BY <1>0 DEF NothingLost, Walking
  <2> QED BY <1>0, <2>1 DEF Pending, Ahead
<1>7. Accounted'
  <2> SUFFICES ASSUME ~truncated'
               PROVE  entriesScanned + 1 = Len(files) + symlinksSkipped + specialSkipped
                                             + directoriesScanned + Unsettled'
    BY <1>0 DEF Accounted
  <2>1. Unsettled' = Unsettled
    <3>1. \/ at = "directory" /\ at' = "returned"
          \/ at = "entry" /\ entries = {} /\ at' = "directory"
      BY <1>0
    <3>2. Len(queue) \in Nat /\ Cardinality({}) = 0
      BY WalkLists, FS_EmptySet
    <3> QED BY <1>0, <3>1, <3>2 DEF Unsettled
  <2> QED BY <1>0, <2>1 DEF Accounted
<1> QED BY <1>1, <1>2, <1>3, <1>4, <1>5, <1>6, <1>7

(* A walk that fails gives everything up. *)
LEMMA FailKeeps ==
  ASSUME WalkIsRight, Fail
  PROVE  WalkIsRight'
<1> USE DEF WalkIsRight
<1>0. /\ UNCHANGED <<fs, changes, interrupted, queue, current, entries, candidate,
                     entriesScanned, directoriesScanned, symlinksSkipped, specialSkipped, truncated>>
      /\ at' = "failed" /\ files' = <<>>
  BY DEF Fail, treeVars, counters
<1>1. WalkFacts'
  BY <1>0, WalkAssumption DEF WalkFacts
<1>2. WalkTypeOK'
  BY <1>0 DEF WalkTypeOK
<1>3. TreeStands' /\ WalkStages'
  BY <1>0 DEF TreeStands, WalkStages
<1>4. WaysApart'
  <2>1. ToCome' = ToCome /\ Collected' = {}
    BY <1>0 DEF ToCome, Collected
  <2> QED BY <1>0, <2>1 DEF WaysApart
<1>5. NothingLost' /\ Accounted'
  BY <1>0 DEF NothingLost, Walking, Accounted
<1> QED BY <1>1, <1>2, <1>3, <1>4, <1>5

(* The walk begins at the top. *)
LEMMA AcceptRootKeeps ==
  ASSUME WalkIsRight, AcceptRoot
  PROVE  WalkIsRight'
<1> USE DEF WalkIsRight
<1>0. /\ UNCHANGED <<fs, changes, interrupted, current, entries, candidate, files,
                     entriesScanned, directoriesScanned, symlinksSkipped, specialSkipped, truncated>>
      /\ at = "starting" /\ at' = "directory" /\ queue' = <<Top>>
  BY DEF AcceptRoot, treeVars, counters
<1>q. Len(queue') = 1 /\ queue'[1] = Top /\ queue' \in Seq(Paths \cup {Top})
  <2> DEFINE S == Paths \cup {Top}
  <2>1. <<>> \in Seq(S) /\ Len(<<>>) = 0 /\ Top \in S /\ <<Top>> = Append(<<>>, Top)
    BY EmptySeq
  <2> HIDE DEF S
  <2>2. <<Top>> \in Seq(S) /\ Len(<<Top>>) = 1 /\ <<Top>>[1] = Top
    BY <2>1, AppendProperties
  <2> QED BY <1>0, <2>2 DEF S
<1>s. /\ files = <<>> /\ entries = {} /\ entriesScanned = 0 /\ directoriesScanned = 0
      /\ symlinksSkipped = 0 /\ specialSkipped = 0
  BY <1>0 DEF WalkStages
<1>1. WalkFacts'
  <2>1. \A i \in 1..Len(queue') : Len(queue'[i]) <= MaxDepth
    BY <1>q, PathsAre, WalkAssumption
  <2> QED BY <1>0, <1>q, <2>1 DEF WalkFacts
<1>2. WalkTypeOK' /\ TreeStands'
  BY <1>0 DEF WalkTypeOK, TreeStands
<1>3. WalkStages'
  BY <1>0, <1>s DEF WalkStages
<1>4. WaysApart'
  <2>1. Collected' = {} /\ \A i, j \in 1..Len(queue') : i = j
    BY <1>0, <1>s, <1>q DEF Collected
  <2> QED BY <1>0, <1>s, <2>1 DEF WaysApart
<1>5. NothingLost'
  <2> SUFFICES ASSUME NEW p \in Present' PROVE Pending(p)'
    BY DEF NothingLost
  <2>1. Top \in PathsAbove(p)
    BY PathsAre, PrefixIsPath DEF Present
  <2>2. Ahead(Top)'
    BY <1>q DEF Ahead
  <2> QED BY <2>1, <2>2 DEF Pending
<1>6. Accounted'
  BY <1>0, <1>q, <1>s DEF Accounted, Unsettled
<1> QED BY <1>1, <1>2, <1>3, <1>4, <1>5, <1>6

(* Another program takes a directory away with what it holds, and what it    *)
(* puts in its place holds nothing; what it disturbs it marks.              *)
LEMMA ChangeKeeps ==
  ASSUME WalkIsRight, NEW p \in Paths, NEW kind \in Kinds, Change(p, kind)
  PROVE  WalkIsRight'
<1> USE DEF WalkIsRight
<1>0. /\ UNCHANGED <<interrupted, at, queue, current, entries, candidate, files, entriesScanned,
                     directoriesScanned, symlinksSkipped, specialSkipped, truncated>>
      /\ changes' = changes + 1 /\ fs[Parent(p)].kind = "directory"
      /\ fs' = [q \in DOMAIN fs |->
                  IF q = p THEN Entry(kind, changes + 1)
                  ELSE IF q \in Beneath(p) THEN Entry("absent", changes + 1)
                  ELSE fs[q]]
  BY DEF Change, counters
<1>d. DOMAIN fs = Paths \cup {Top} /\ changes + 1 \in Nat /\ changes + 1 # 0
  BY WalkLists DEF WalkTypeOK
<1>f. \A q \in Paths \cup {Top} :
        /\ q = p => fs'[q] = Entry(kind, changes + 1)
        /\ q # p /\ q \in Beneath(p) => fs'[q] = Entry("absent", changes + 1)
        /\ q # p /\ q \notin Beneath(p) => fs'[q] = fs[q]
  BY <1>0, <1>d
<1>e. \A k \in Kinds : /\ Entry(k, changes + 1) \in [kind : Kinds, change : Nat]
                       /\ Entry(k, changes + 1).kind = k /\ Entry(k, changes + 1).change # 0
  BY <1>d DEF Entry
<1>1. WalkFacts'
  <2>1. fs \in [Paths \cup {Top} -> [kind : Kinds, change : Nat]]
    BY DEF WalkFacts
  <2>2. \A q \in Paths \cup {Top} : fs'[q] \in [kind : Kinds, change : Nat]
    BY <1>f, <1>e, <2>1, Zenon DEF Kinds
  <2>3. fs' \in [Paths \cup {Top} -> [kind : Kinds, change : Nat]]
    BY <1>0, <1>d, <2>2, Zenon
  <2> QED BY <1>0, <2>3 DEF WalkFacts
<1>2. WalkTypeOK'
  BY <1>0, <1>d DEF WalkTypeOK
<1>3. TreeStands'
  <2> SUFFICES ASSUME NEW q \in Paths, fs'[q].kind # "absent"
               PROVE  fs'[Parent(q)].kind = "directory"
    BY DEF TreeStands
  <2>1. q \notin Beneath(p)
    BY <1>f, <1>e, BeneathIs DEF Kinds
  <2>2. CASE q = p
    <3>1. Parent(p) \in Paths \cup {Top} /\ Parent(p) # p /\ Parent(p) \notin Beneath(p)
      BY PathsAre, BeneathIs
    <3> QED BY <1>0, <1>f, <2>2, <3>1
  <2>3. CASE q # p
    <3>1. fs'[q] = fs[q]
      BY <1>f, <2>1, <2>3
    <3>2. /\ Parent(q) \in Paths \cup {Top} /\ q \in Seq(Nat) /\ Parent(q) \in PathsAbove(q)
          /\ PathsAbove(Parent(q)) \subseteq PathsAbove(q)
      BY PathsAre, PrefixesOfEntry, PrefixesOfPrefix
    <3>3. Parent(q) # p /\ Parent(q) \notin Beneath(p)
      BY <2>1, <2>3, <3>2, BeneathIs
    <3> QED BY <1>f, <3>1, <3>2, <3>3 DEF TreeStands
  <2> QED BY <2>2, <2>3
<1>4. WalkStages'
  BY <1>0 DEF WalkStages
<1>5. WaysApart'
  <2>1. ToCome' = ToCome /\ Collected' = Collected
    BY <1>0 DEF ToCome, Collected
  <2> QED BY <1>0, <2>1 DEF WaysApart
<1>6. NothingLost'
  <2> SUFFICES ASSUME NEW q \in Present', Walking' \/ at' = "returned"
               PROVE  q \in Collected' \/ Pending(q)' \/ truncated'
    BY DEF NothingLost
  <2>1. q \in Paths /\ fs'[q].kind = "regular" /\ \A r \in PathsAbove(q) : fs'[r].change = 0
    BY DEF Present, Undisturbed
  <2>2. \A r \in PathsAbove(q) : r \in Paths \cup {Top} /\ fs'[r] = fs[r]
    BY <1>f, <1>e, <2>1, WaysArePaths DEF Kinds
  <2>3. q \in Present
    BY <2>1, <2>2, PathsAre, PrefixIsPath DEF Present, Undisturbed
  <2>4. q \in Collected \/ Pending(q) \/ truncated
    BY <1>0, <2>3 DEF NothingLost, Walking
  <2> QED BY <1>0, <2>4 DEF Collected, Pending, Ahead
<1>7. Accounted'
  BY <1>0 DEF Accounted, Unsettled
<1> QED BY <1>1, <1>2, <1>3, <1>4, <1>5, <1>6, <1>7

(* The context ends, or nothing happens to the walk. *)
LEMMA WaitingKeeps ==
  ASSUME WalkIsRight, ContextEnds \/ UNCHANGED walkVars
  PROVE  WalkIsRight'
<1> USE DEF WalkIsRight
<1>0. /\ UNCHANGED <<fs, changes, at, queue, current, entries, candidate, files, entriesScanned,
                     directoriesScanned, symlinksSkipped, specialSkipped, truncated>>
      /\ interrupted' \in BOOLEAN
  BY DEF WalkFacts, ContextEnds, walkVars, treeVars, counters
<1>1. WalkFacts'
  BY <1>0 DEF WalkFacts
<1>2. WalkTypeOK' /\ TreeStands'
  BY <1>0 DEF WalkTypeOK, TreeStands
<1>3. WalkStages'
  BY <1>0 DEF WalkStages
<1>4. WaysApart'
  <2>1. ToCome' = ToCome /\ Collected' = Collected
    BY <1>0 DEF ToCome, Collected
  <2> QED BY <1>0, <2>1 DEF WaysApart
<1>5. NothingLost'
  BY <1>0 DEF NothingLost, Walking, Present, Undisturbed, Collected, Pending, Ahead
<1>6. Accounted'
  BY <1>0 DEF Accounted, Unsettled
<1> QED BY <1>1, <1>2, <1>3, <1>4, <1>5, <1>6

(* A directory leaves the queue, and its entries take its place: they lie    *)
(* below it and nothing else that is still to come does.                    *)
LEMMA ReadDirectoryKeeps ==
  ASSUME WalkIsRight, ReadDirectory
  PROVE  WalkIsRight'
<1> USE DEF WalkIsRight
<1> DEFINE h == Head(queue)
           n == Len(queue)
<1>0. /\ UNCHANGED <<fs, changes, interrupted, candidate, files, entriesScanned,
                     directoriesScanned, symlinksSkipped, specialSkipped, truncated>>
      /\ at = "directory" /\ at' = "listing" /\ queue # <<>> /\ queue' = Tail(queue)
      /\ fs[h].kind = "directory" /\ entries' = Names(h)
      /\ current' = [Nobody EXCEPT !.path = h, !.seen = fs[h]]
      /\ ~OverLimit
  BY DEF ReadDirectory, treeVars, counters
<1>q. /\ n \in Nat \ {0} /\ h = queue[1] /\ h \in Paths \cup {Top} /\ h \in Seq(Nat)
      /\ Len(queue') = n - 1 /\ \A i \in 1..(n - 1) : queue'[i] = queue[i + 1]
      /\ queue' \in Seq(Paths \cup {Top})
  <2> DEFINE S == Paths \cup {Top}
  <2>1. queue \in Seq(S) /\ S \subseteq Seq(Nat)
    BY PathsAre DEF WalkFacts
  <2> HIDE DEF S
  <2>2. n \in Nat \ {0}
    BY <1>0, <2>1, EmptySeq
  <2>3. h \in S /\ queue' \in Seq(S) /\ Len(queue') = n - 1 /\ \A i \in 1..Len(queue') : queue'[i] = queue[i + 1]
    BY <1>0, <2>1, HeadTailProperties
  <2>4. h = queue[1]
    BY <1>0, <2>1
  <2> QED BY <2>1, <2>2, <2>3, <2>4 DEF S
<1>e. /\ entries = {}
      /\ \A p \in entries' : /\ p \in Paths /\ p \in Seq(Nat) /\ p # Top /\ Parent(p) = h
                             /\ h \in PathsAbove(p) /\ PathsAbove(p) = PathsAbove(h) \cup {p}
  BY <1>0, PathsAre, PrefixesOfEntry DEF WalkStages, Names
<1>l. \A i \in 1..n : queue[i] \in Seq(Nat) /\ queue[i] \in ToCome
  BY WalkLists DEF ToCome
<1> HIDE DEF h, n
<1>1. WalkFacts'
  <2>1. ASSUME NEW i \in 1..Len(queue') PROVE Len(queue'[i]) <= MaxDepth
    <3>1. i + 1 \in 1..n /\ queue'[i] = queue[i + 1]
      BY <1>q
    <3>2. Len(queue[i + 1]) <= MaxDepth
      BY <3>1 DEF WalkFacts, n
    <3> QED BY <3>1, <3>2
  <2> QED BY <1>0, <1>q, <1>e, <2>1 DEF WalkFacts
<1>2. WalkTypeOK'
  <2>1. Absent \in Anything
    BY DEF Anything, Absent, Entry, Kinds
  <2>2. fs[h] \in Anything
    BY <1>q, WalkLists
  <2>3. current' \in Looked
    BY <1>0, <1>q, <2>1, <2>2 DEF Nobody, Looked
  <2> QED BY <1>0, <2>3 DEF WalkTypeOK
<1>3. TreeStands'
  BY <1>0 DEF TreeStands
<1>4. WalkStages'
  <2>1. current'.path = h
    BY <1>0 DEF Nobody
  <2>2. directoriesScanned < MaxDirectories
    BY <1>0, WalkAssumption DEF OverLimit, WalkTypeOK
  <2> QED BY <1>0, <1>e, <2>1, <2>2 DEF WalkStages
<1>5. WaysApart'
  <2>1. ASSUME NEW i \in 1..(n - 1), NEW j \in 1..(n - 1), queue'[i] \in PathsAbove(queue'[j]) PROVE i = j
    <3>1. i + 1 \in 1..n /\ j + 1 \in 1..n /\ queue[i + 1] \in PathsAbove(queue[j + 1])
      BY <1>q, <2>1
    <3> QED BY <3>1 DEF WaysApart, n
  <2>2. ASSUME NEW i \in 1..(n - 1), NEW p \in entries'
        PROVE  queue'[i] \notin PathsAbove(p) /\ p \notin PathsAbove(queue'[i])
    <3> DEFINE q == queue[i + 1]
    <3>1. i + 1 \in 1..n /\ 1 \in 1..n /\ i + 1 # 1 /\ q = queue'[i]
      BY <1>q
    <3>2. q \in Seq(Nat) /\ q \notin PathsAbove(h) /\ h \notin PathsAbove(q)
      BY <1>q, <1>l, <3>1 DEF WaysApart, n
    <3> HIDE DEF q
    <3>3. q # p
      BY <1>e, <3>2
    <3>4. q \notin PathsAbove(p)
      BY <1>e, <3>2, <3>3
    <3>5. p \notin PathsAbove(q)
      BY <1>e, <3>2, PrefixesOfPrefix
    <3> QED BY <3>1, <3>4, <3>5
  <2>3. ASSUME NEW q \in ToCome', NEW f \in Collected PROVE q \notin PathsAbove(f)
    <3>1. f \in Seq(Nat)
      BY WalkLists, PathsAre
    <3>2. CASE q \in entries'
      <4>1. h \notin PathsAbove(f)
        BY <1>q, <1>l DEF WaysApart
      <4> QED BY <1>e, <3>1, <3>2, <4>1, PrefixesOfPrefix
    <3>3. ASSUME NEW i \in 1..(n - 1), q = queue'[i] PROVE q \notin PathsAbove(f)
      <4>1. i + 1 \in 1..n /\ q = queue[i + 1]
        BY <1>q, <3>3
      <4> QED BY <1>l, <4>1 DEF WaysApart
    <3> QED BY <1>q, <3>2, <3>3 DEF ToCome
  <2>4. Collected' = Collected
    BY <1>0 DEF Collected
  <2> QED BY <1>0, <1>q, <2>1, <2>2, <2>3, <2>4 DEF WaysApart
<1>6. NothingLost'
  <2> SUFFICES ASSUME NEW p \in Present, p \notin Collected, ~truncated PROVE Pending(p)'
    BY <1>0 DEF NothingLost, Present, Undisturbed, Collected
  <2>1. PICK q \in PathsAbove(p) : Ahead(q)
    BY <1>0 DEF NothingLost, Walking, Pending
  <2>2. PICK i \in 1..n : queue[i] = q
    BY <1>0, <2>1 DEF Ahead, n
  <2>3. CASE i = 1
    <3>1. q = h /\ p \in Paths /\ p \in Seq(Nat) /\ fs[p].kind = "regular"
      BY <1>q, <2>2, <2>3, PathsAre DEF Present
    <3>2. PICK c \in PathsAbove(p) : c \in Seq(Nat) /\ c # Top /\ Parent(c) = q
      BY <1>0, <3>1, NextOnTheWay
    <3>3. c \in Paths /\ fs[c].kind # "absent"
      BY <3>1, <3>2, WaysArePaths, DirectoriesAbove
    <3>4. c \in entries'
      BY <1>0, <3>1, <3>2, <3>3 DEF Names
    <3> QED BY <1>0, <3>4 DEF Pending, Ahead
  <2>4. CASE i # 1
    <3>1. i - 1 \in 1..Len(queue') /\ queue'[i - 1] = q
      BY <1>q, <2>2, <2>4
    <3> QED BY <3>1 DEF Pending, Ahead
  <2> QED BY <2>3, <2>4
<1>7. Accounted'
  <2>1. Unsettled = n /\ Unsettled' = n
    BY <1>0, <1>q DEF Unsettled, n
  <2> QED BY <1>0, <2>1 DEF Accounted
<1> QED BY <1>1, <1>2, <1>3, <1>4, <1>5, <1>6, <1>7

(* Of more names than the budget has left the first ones are kept, and the   *)
(* flag says so; otherwise all of them are.                                 *)
LEMMA ConfirmListingKeeps ==
  ASSUME WalkIsRight, ConfirmListing
  PROVE  WalkIsRight'
<1> USE DEF WalkIsRight
<1>0. /\ UNCHANGED <<fs, changes, interrupted, current, candidate, files, symlinksSkipped,
                     specialSkipped>>
      /\ at = "listing" /\ at' = "entry" /\ directoriesScanned' = directoriesScanned + 1
      /\ queue' = IF OverEntries(entries) THEN <<>> ELSE queue
      /\ truncated' = (truncated \/ OverEntries(entries))
  BY DEF ConfirmListing, treeVars
<1>p. /\ entries' \in SUBSET entries
      /\ IF OverEntries(entries) THEN Cardinality(entries') = RemainingEntries ELSE entries' = entries
      /\ entriesScanned' = entriesScanned + Cardinality(entries')
  BY DEF ConfirmListing
<1>c. /\ Cardinality(entries') \in Nat /\ Cardinality(entries') <= RemainingEntries
      /\ RemainingEntries = MaxEntries - entriesScanned /\ MaxEntries \in Nat /\ entriesScanned \in Nat
  <2>1. IsFiniteSet(entries) /\ IsFiniteSet(entries') /\ Cardinality(entries') \in Nat
    BY <1>p, WalkLists, FS_Subset, FS_CardinalityType
  <2>2. MaxEntries \in Nat /\ entriesScanned \in Nat
    BY WalkAssumption DEF WalkTypeOK
  <2>3. Cardinality(entries') <= RemainingEntries
    BY <1>p, <2>1, <2>2 DEF OverEntries, RemainingEntries
  <2> QED BY <2>1, <2>2, <2>3 DEF RemainingEntries
<1>t. truncated \in BOOLEAN /\ truncated' \in BOOLEAN
  BY <1>0 DEF WalkFacts, OverEntries
<1>q. /\ queue' \in Seq(Paths \cup {Top}) /\ Len(queue') <= Len(queue)
      /\ \A i \in 1..Len(queue') : i \in 1..Len(queue) /\ queue'[i] = queue[i]
  BY <1>0, WalkLists DEF WalkFacts
<1>1. WalkFacts'
  <2>1. entriesScanned' <= MaxEntries
    BY <1>p, <1>c
  <2>2. directoriesScanned' <= MaxDirectories
    BY <1>0, WalkAssumption DEF WalkStages, WalkTypeOK
  <2>3. \A i \in 1..Len(queue') : Len(queue'[i]) <= MaxDepth
    BY <1>q DEF WalkFacts
  <2> QED BY <1>0, <1>p, <1>t, <1>q, <2>1, <2>2, <2>3 DEF WalkFacts
<1>2. WalkTypeOK'
  BY <1>0, <1>p, <1>c DEF WalkTypeOK
<1>3. TreeStands' /\ WalkStages'
  BY <1>0, <1>p DEF TreeStands, WalkStages
<1>4. WaysApart'
  <2>1. ToCome' \subseteq ToCome /\ Collected' = Collected
    BY <1>0, <1>p, <1>q DEF ToCome, Collected
  <2> QED BY <1>0, <1>p, <1>q, <2>1 DEF WaysApart
<1>5. NothingLost'
  <2> SUFFICES ASSUME NEW p \in Present, ~truncated', p \notin Collected PROVE Pending(p)'
    BY <1>0 DEF NothingLost, Present, Undisturbed, Collected
  <2>1. ~truncated /\ entries' = entries /\ queue' = queue
    BY <1>0, <1>p
  <2>2. Pending(p)
    BY <1>0, <2>1 DEF NothingLost, Walking
  <2> QED BY <1>0, <2>1, <2>2 DEF Pending, Ahead
<1>6. Accounted'
  <2> SUFFICES ASSUME ~truncated'
               PROVE  entriesScanned' + 1 = Len(files) + symlinksSkipped + specialSkipped
                                              + directoriesScanned' + Unsettled'
    BY <1>0 DEF Accounted
  <2>1. ~truncated /\ entries' = entries /\ queue' = queue
    BY <1>0, <1>p
  <2>2. /\ Unsettled = Len(queue) + 1 /\ Unsettled' = Len(queue) + Cardinality(entries')
        /\ Len(queue) \in Nat /\ Len(files) \in Nat
    BY <1>0, <1>c, <2>1, WalkLists DEF Unsettled
  <2> QED BY <1>0, <1>p, <1>c, <2>1, <2>2 DEF Accounted, WalkTypeOK
<1> QED BY <1>1, <1>2, <1>3, <1>4, <1>5, <1>6

(* Looking at an entry takes it off the list. *)
LEMMA EntryTaken ==
  ASSUME WalkIsRight, NEW p \in Paths, LookAt(p)
  PROVE  /\ at = "entry" /\ p \in entries /\ p \in Seq(Nat) /\ p # Top /\ Parent(p) = current.path
         /\ Cardinality(entries) \in Nat /\ Cardinality(entries \ {p}) = Cardinality(entries) - 1
         /\ \A q \in entries \ {p} : q \notin PathsAbove(p) /\ p \notin PathsAbove(q)
<1>1. at = "entry" /\ p \in entries
  BY DEF LookAt
<1>2. Cardinality(entries) \in Nat /\ Cardinality(entries \ {p}) = Cardinality(entries) - 1
  BY <1>1, WalkLists, FS_RemoveElement DEF WalkIsRight
<1>3. \A q \in entries : q \in Seq(Nat) /\ q # Top /\ Parent(q) = current.path
  BY PathsAre DEF WalkIsRight, WalkFacts, WalkStages
<1> QED BY <1>1, <1>2, <1>3, EntriesApart

(* A symlink or a special file is counted, an entry that has gone sets the   *)
(* flag; nothing that stays in place is below any of them.                  *)
LEMMA SkippingKeeps ==
  ASSUME WalkIsRight, NEW p \in Paths, EntryVanished(p) \/ SkipSymlink(p) \/ SkipSpecial(p)
  PROVE  WalkIsRight'
<1> USE DEF WalkIsRight
<1>0. /\ UNCHANGED <<fs, changes, interrupted, queue, current, candidate, files, entriesScanned,
                     directoriesScanned>>
      /\ LookAt(p) /\ at' = "entry" /\ entries' = entries \ {p}
      /\ \/ truncated' = TRUE /\ UNCHANGED <<symlinksSkipped, specialSkipped>>
         \/ /\ fs[p].kind \in {"symlink", "special"} /\ truncated' = truncated
            /\ \/ symlinksSkipped' = symlinksSkipped + 1 /\ specialSkipped' = specialSkipped
               \/ symlinksSkipped' = symlinksSkipped /\ specialSkipped' = specialSkipped + 1
  BY DEF EntryVanished, SkipSymlink, SkipSpecial, NextEntry, treeVars, counters
<1>1. WalkFacts'
  <2>1. truncated' \in BOOLEAN /\ entries' \subseteq Paths
    BY <1>0 DEF WalkFacts
  <2> QED BY <1>0, <2>1 DEF WalkFacts
<1>2. WalkTypeOK' /\ TreeStands'
  BY <1>0 DEF WalkTypeOK, TreeStands
<1>3. WalkStages'
  BY <1>0 DEF WalkStages
<1>4. WaysApart'
  <2>1. ToCome' \subseteq ToCome /\ Collected' = Collected
    BY <1>0 DEF ToCome, Collected
  <2> QED BY <1>0, <2>1 DEF WaysApart
<1>5. NothingLost'
  <2> SUFFICES ASSUME NEW x \in Present, ~truncated', x \notin Collected PROVE Pending(x)'
    BY <1>0 DEF NothingLost, Present, Undisturbed, Collected
  <2>1. ~truncated /\ fs[p].kind \in {"symlink", "special"}
    BY <1>0
  <2>2. PICK q \in PathsAbove(x) : Ahead(q)
    BY <1>0, <2>1, EntryTaken DEF NothingLost, Walking, Pending
  <2>3. q # p
    BY <2>1, DirectoriesAbove DEF Present
  <2>4. Ahead(q)'
    BY <1>0, <2>2, <2>3, EntryTaken DEF Ahead
  <2> QED BY <2>4 DEF Pending
<1>6. Accounted'
  <2> SUFFICES ASSUME ~truncated'
               PROVE  entriesScanned + 1 = Len(files) + symlinksSkipped' + specialSkipped'
                                             + directoriesScanned + Unsettled'
    BY <1>0 DEF Accounted
  <2>1. /\ ~truncated
        /\ \/ symlinksSkipped' = symlinksSkipped + 1 /\ specialSkipped' = specialSkipped
           \/ symlinksSkipped' = symlinksSkipped /\ specialSkipped' = specialSkipped + 1
    BY <1>0
  <2>2. Len(queue) \in Nat /\ Len(files) \in Nat
    BY WalkLists
  <2>3. Unsettled = Len(queue) + Cardinality(entries) /\ Unsettled' = Unsettled - 1 /\ Unsettled \in Nat
    <3>1. at = "entry" /\ Cardinality(entries) \in Nat /\ Cardinality(entries \ {p}) = Cardinality(entries) - 1
      BY <1>0, EntryTaken
    <3>2. Cardinality(entries \ {p}) \in Nat
      BY WalkLists, FS_RemoveElement, FS_CardinalityType
    <3>3. Unsettled = Len(queue) + Cardinality(entries) /\ Unsettled' = Len(queue) + Cardinality(entries \ {p})
      BY <1>0, <2>2, <3>1, <3>2 DEF Unsettled
    <3> QED BY <2>2, <3>1, <3>2, <3>3
  <2>4. entriesScanned + 1 = Len(files) + symlinksSkipped + specialSkipped + directoriesScanned + Unsettled
    BY <1>0, <2>1, EntryTaken DEF Accounted
  <2> QED BY <2>1, <2>2, <2>3, <2>4 DEF WalkTypeOK
<1> QED BY <1>1, <1>2, <1>3, <1>4, <1>5, <1>6

(* A directory that is not too deep joins the queue, where nothing is on the *)
(* way to it; one that is too deep sets the flag.                           *)
LEMMA QueueDirectoryKeeps ==
  ASSUME WalkIsRight, NEW p \in Paths, QueueDirectory(p)
  PROVE  WalkIsRight'
<1> USE DEF WalkIsRight
<1> DEFINE n == Len(queue)
<1>0. /\ UNCHANGED <<fs, changes, interrupted, current, candidate, files, entriesScanned,
                     directoriesScanned, symlinksSkipped, specialSkipped>>
      /\ LookAt(p) /\ at' = "entry" /\ entries' = entries \ {p}
      /\ \/ truncated' = TRUE /\ queue' = queue
         \/ truncated' = truncated /\ queue' = Append(queue, p) /\ ~(Len(current.path) >= MaxDepth)
  BY DEF QueueDirectory, NextEntry, treeVars, counters
<1>p. /\ at = "entry" /\ p \in entries /\ p \in Seq(Nat) /\ Parent(p) = current.path
      /\ Len(Parent(p)) = Len(p) - 1 /\ Len(p) \in Nat
      /\ Cardinality(entries) \in Nat /\ Cardinality(entries \ {p}) = Cardinality(entries) - 1
      /\ \A q \in entries \ {p} : q \notin PathsAbove(p) /\ p \notin PathsAbove(q)
  BY <1>0, EntryTaken, PrefixesOfEntry, LenProperties
<1>n. n \in Nat
  BY WalkLists
<1>q. /\ queue' \in Seq(Paths \cup {Top})
      /\ \A i \in 1..n : i \in 1..Len(queue') /\ queue'[i] = queue[i]
      /\ \A i \in 1..Len(queue') :
           i \in 1..n \/ (i = n + 1 /\ queue'[i] = p /\ ~(Len(current.path) >= MaxDepth))
  <2> DEFINE S == Paths \cup {Top}
  <2>1. queue \in Seq(S) /\ p \in S
    BY DEF WalkFacts
  <2> HIDE DEF S
  <2>2. CASE queue' = queue
    BY <1>n, <2>1, <2>2 DEF S
  <2>3. CASE queue' = Append(queue, p) /\ ~(Len(current.path) >= MaxDepth)
    <3>1. /\ queue' \in Seq(S) /\ Len(queue') = n + 1 /\ queue'[n + 1] = p
          /\ \A i \in 1..n : queue'[i] = queue[i]
      BY <2>1, <2>3, AppendProperties
    <3> QED BY <1>n, <2>3, <3>1 DEF S
  <2> QED BY <1>0, <2>2, <2>3
<1> HIDE DEF n
<1>1. WalkFacts'
  <2>1. truncated' \in BOOLEAN /\ entries' \subseteq Paths
    BY <1>0 DEF WalkFacts
  <2>2. \A i \in 1..n : Len(queue[i]) <= MaxDepth
    BY DEF WalkFacts, n
  <2>3. ~(Len(current.path) >= MaxDepth) => Len(p) <= MaxDepth
    BY <1>p, WalkAssumption
  <2>4. \A i \in 1..Len(queue') : Len(queue'[i]) <= MaxDepth
    BY <1>q, <2>2, <2>3
  <2> QED BY <1>0, <1>q, <2>1, <2>4 DEF WalkFacts
<1>2. WalkTypeOK' /\ TreeStands'
  BY <1>0 DEF WalkTypeOK, TreeStands
<1>3. WalkStages'
  BY <1>0, <1>p DEF WalkStages
<1>4. WaysApart'
  <2>1. ToCome' \subseteq ToCome /\ Collected' = Collected
    BY <1>0, <1>p, <1>q DEF ToCome, Collected, n
  <2>2. \A i, j \in 1..Len(queue') : queue'[i] \in PathsAbove(queue'[j]) => i = j
    BY <1>p, <1>q DEF WaysApart, n
  <2>3. \A i \in 1..Len(queue'), q \in entries' :
          queue'[i] \notin PathsAbove(q) /\ q \notin PathsAbove(queue'[i])
    BY <1>0, <1>p, <1>q DEF WaysApart, n
  <2> QED BY <1>0, <2>1, <2>2, <2>3 DEF WaysApart
<1>5. NothingLost'
  <2> SUFFICES ASSUME NEW x \in Present, ~truncated', x \notin Collected PROVE Pending(x)'
    BY <1>0 DEF NothingLost, Present, Undisturbed, Collected
  <2>1. ~truncated /\ queue' = Append(queue, p)
    BY <1>0
  <2>2. PICK q \in PathsAbove(x) : Ahead(q)
    BY <1>p, <2>1 DEF NothingLost, Walking, Pending
  <2>3. CASE q = p
    <3>1. n + 1 \in 1..Len(queue') /\ queue'[n + 1] = q
      <4>1. Len(queue') = n + 1
        BY <2>1, AppendProperties DEF WalkFacts, n
      <4> QED BY <1>n, <1>q, <2>3, <4>1
    <3> QED BY <3>1 DEF Pending, Ahead
  <2>4. CASE q # p
    <3>1. Ahead(q)'
      BY <1>0, <1>p, <1>q, <2>2, <2>4 DEF Ahead, n
    <3> QED BY <3>1 DEF Pending
  <2> QED BY <2>3, <2>4
<1>6. Accounted'
  <2> SUFFICES ASSUME ~truncated'
               PROVE  entriesScanned + 1 = Len(files) + symlinksSkipped + specialSkipped
                                             + directoriesScanned + Unsettled'
    BY <1>0 DEF Accounted
  <2>1. ~truncated /\ Len(queue') = n + 1
    BY <1>0, AppendProperties DEF WalkFacts, n
  <2>2. Unsettled = n + Cardinality(entries) /\ Unsettled' = (n + 1) + Cardinality(entries \ {p})
    BY <1>0, <1>p, <1>n, <2>1 DEF Unsettled, n
  <2>3. Unsettled' = Unsettled
    BY <1>p, <1>n, <2>2
  <2> QED BY <1>p, <2>1, <2>3 DEF Accounted
<1> QED BY <1>1, <1>2, <1>3, <1>4, <1>5, <1>6

(* With as many files as there may be the walk stops, and says so.          *)
LEMMA StopAtFilesKeeps ==
  ASSUME WalkIsRight, NEW p \in Paths, StopAtFiles(p)
  PROVE  WalkIsRight'
<1> USE DEF WalkIsRight
<1>0. /\ UNCHANGED <<fs, changes, interrupted, current, candidate, files, entriesScanned,
                     directoriesScanned, symlinksSkipped, specialSkipped>>
      /\ at' = "directory" /\ entries' = {} /\ queue' = <<>> /\ truncated' = TRUE
  BY DEF StopAtFiles, treeVars, counters
<1>1. WalkFacts'
  <2>1. queue' \in Seq(Paths \cup {Top}) /\ 1..Len(queue') = {}
    BY <1>0, EmptySeq
  <2> QED BY <1>0, <2>1 DEF WalkFacts
<1>2. WalkTypeOK' /\ TreeStands'
  BY <1>0 DEF WalkTypeOK, TreeStands
<1>3. WalkStages' /\ NothingLost' /\ Accounted'
  BY <1>0 DEF WalkStages, NothingLost, Accounted
<1>4. WaysApart'
  <2>1. ToCome' = {} /\ 1..Len(queue') = {}
    BY <1>0 DEF ToCome
  <2> QED BY <1>0, <2>1 DEF WaysApart
<1> QED BY <1>1, <1>2, <1>3, <1>4

(* A file is looked at: it is not one the walk has, and nothing that is      *)
(* still to come lies on the way to it.                                     *)
LEMMA ChooseFileKeeps ==
  ASSUME WalkIsRight, NEW p \in Paths, ChooseFile(p)
  PROVE  WalkIsRight'
<1> USE DEF WalkIsRight
<1>0. /\ UNCHANGED <<fs, changes, interrupted, queue, current, files, entriesScanned,
                     directoriesScanned, symlinksSkipped, specialSkipped, truncated>>
      /\ LookAt(p) /\ at' = "opening" /\ entries' = entries \ {p} /\ Len(files) < MaxFiles
      /\ candidate' = [Nobody EXCEPT !.path = p, !.seen = fs[p]]
  BY DEF ChooseFile, treeVars, counters
<1>p. /\ at = "entry" /\ p \in entries /\ p \in Seq(Nat) /\ candidate'.path = p
      /\ Cardinality(entries) \in Nat /\ Cardinality(entries \ {p}) = Cardinality(entries) - 1
      /\ \A q \in entries \ {p} : q \notin PathsAbove(p) /\ p \notin PathsAbove(q)
  BY <1>0, EntryTaken DEF Nobody
<1>1. WalkFacts'
  <2>1. entries' \subseteq Paths
    BY <1>0 DEF WalkFacts
  <2> QED BY <1>0, <2>1 DEF WalkFacts
<1>2. WalkTypeOK'
  <2>1. Absent \in Anything /\ fs[p] \in Anything
    BY WalkLists DEF Anything, Absent, Entry, Kinds
  <2>2. candidate' \in Looked
    BY <1>0, <2>1 DEF Nobody, Looked
  <2> QED BY <1>0, <2>2 DEF WalkTypeOK
<1>3. TreeStands' /\ WalkStages'
  BY <1>0, <1>p DEF TreeStands, WalkStages
<1>4. WaysApart'
  <2>1. ToCome' \subseteq ToCome /\ Collected' = Collected
    BY <1>0 DEF ToCome, Collected
  <2>2. p \notin Collected
    <3>1. p \in ToCome /\ p \in PathsAbove(p)
      BY <1>p, PrefixIsPath DEF ToCome
    <3> QED BY <3>1 DEF WaysApart
  <2>3. \A q \in ToCome' : q \notin PathsAbove(p)
    BY <1>0, <1>p DEF ToCome, WaysApart
  <2> QED BY <1>0, <1>p, <2>1, <2>2, <2>3 DEF WaysApart
<1>5. NothingLost'
  <2> SUFFICES ASSUME NEW x \in Present, ~truncated, x \notin Collected PROVE Pending(x)'
    BY <1>0 DEF NothingLost, Present, Undisturbed, Collected
  <2>1. PICK q \in PathsAbove(x) : Ahead(q)
    BY <1>p DEF NothingLost, Walking, Pending
  <2>2. Ahead(q)'
    BY <1>0, <1>p, <2>1 DEF Ahead
  <2> QED BY <2>2 DEF Pending
<1>6. Accounted'
  <2>1. Len(queue) \in Nat
    BY WalkLists
  <2>2. Unsettled = Len(queue) + Cardinality(entries) /\ Unsettled' = Len(queue) + Cardinality(entries \ {p}) + 1
    BY <1>0, <1>p, <2>1 DEF Unsettled
  <2>3. Unsettled' = Unsettled
    BY <1>p, <2>1, <2>2
  <2> QED BY <1>0, <1>p, <2>3 DEF Accounted
<1> QED BY <1>1, <1>2, <1>3, <1>4, <1>5, <1>6

(* The open finds something else at most, at the same path. *)
LEMMA OpenFileKeeps ==
  ASSUME WalkIsRight, OpenFile
  PROVE  WalkIsRight'
<1> USE DEF WalkIsRight
<1>0. /\ UNCHANGED <<fs, changes, interrupted, queue, current, entries, files, entriesScanned,
                     directoriesScanned, symlinksSkipped, specialSkipped, truncated>>
      /\ at = "opening" /\ at' = "checking" /\ candidate.path \in Paths
      /\ candidate' = [candidate EXCEPT !.opened =
                         IF fs[candidate.path].kind = "symlink" THEN Entry("regular", -1)
                         ELSE fs[candidate.path]]
  BY DEF OpenFile, WalkStages, treeVars, counters
<1>p. candidate' \in Looked /\ candidate'.path = candidate.path
  <2>1. Entry("regular", -1) \in Anything /\ fs[candidate.path] \in Anything
    BY <1>0, WalkLists DEF Anything, Entry, Kinds
  <2>2. candidate \in Looked
    BY DEF WalkTypeOK
  <2> QED BY <1>0, <2>1, <2>2 DEF Looked
<1>1. WalkFacts'
  BY <1>0 DEF WalkFacts
<1>2. WalkTypeOK' /\ TreeStands'
  BY <1>0, <1>p DEF WalkTypeOK, TreeStands
<1>3. WalkStages'
  BY <1>0, <1>p DEF WalkStages
<1>4. WaysApart'
  <2>1. ToCome' = ToCome /\ Collected' = Collected
    BY <1>0 DEF ToCome, Collected
  <2> QED BY <1>0, <1>p, <2>1 DEF WaysApart
<1>5. NothingLost'
  BY <1>0, <1>p DEF NothingLost, Walking, Present, Undisturbed, Collected, Pending, Ahead
<1>6. Accounted'
  BY <1>0 DEF Accounted, Unsettled
<1> QED BY <1>1, <1>2, <1>3, <1>4, <1>5, <1>6

(* A file that is still what was looked at is collected, once.              *)
LEMMA KeepFileKeeps ==
  ASSUME WalkIsRight, KeepFile
  PROVE  WalkIsRight'
<1> USE DEF WalkIsRight
<1> DEFINE n == Len(files)
           kept == [path |-> candidate.path, entry |-> candidate.opened]
<1>0. /\ UNCHANGED <<fs, changes, interrupted, queue, current, entries, candidate, entriesScanned,
                     directoriesScanned, symlinksSkipped, specialSkipped, truncated>>
      /\ at = "checking" /\ at' = "entry" /\ Validated /\ files' = Append(files, kept)
  BY DEF KeepFile, treeVars, counters
<1>c. candidate.path \in Paths /\ candidate.path \notin Collected /\ n < MaxFiles
  BY <1>0 DEF WalkStages, WaysApart
<1>k. /\ kept \in Kept /\ kept.path = candidate.path /\ kept.entry.kind = "regular"
      /\ fs[candidate.path].kind = "regular"
  BY <1>0, <1>c DEF Validated, WalkTypeOK, Looked, Kept
<1>n. n \in Nat /\ MaxFiles \in Nat
  BY WalkLists, WalkAssumption
<1> HIDE DEF n, kept
<1>a. /\ files' \in Seq(Kept) /\ Len(files') = n + 1 /\ files'[n + 1] = kept
      /\ \A i \in 1..n : files'[i] = files[i]
      /\ \A i \in 1..Len(files') : i \in 1..n \/ i = n + 1
  <2>1. files \in Seq(Kept)
    BY DEF WalkTypeOK
  <2>2. /\ files' \in Seq(Kept) /\ Len(files') = n + 1 /\ files'[n + 1] = kept
        /\ \A i \in 1..n : files'[i] = files[i]
    BY <1>0, <1>k, <2>1, AppendProperties DEF n
  <2> QED BY <1>n, <2>2
<1>f. Collected' = Collected \cup {candidate.path}
  <2>1. \A i \in 1..n : i \in 1..Len(files') /\ files'[i].path = files[i].path
    BY <1>n, <1>a
  <2>2. n + 1 \in 1..Len(files') /\ files'[n + 1].path = candidate.path
    BY <1>n, <1>k, <1>a
  <2> QED BY <1>a, <2>1, <2>2 DEF Collected, n
<1>1. WalkFacts'
  <2>1. Len(files') <= MaxFiles
    BY <1>c, <1>n, <1>a
  <2>2. \A i \in 1..n : files[i].path # candidate.path /\ files[i].entry.kind = "regular"
    BY <1>c DEF Collected, WalkFacts, n
  <2>3. \A i \in 1..Len(files') : files'[i].entry.kind = "regular"
    BY <1>k, <1>a, <2>2
  <2>4. \A i, j \in 1..n : files[i].path = files[j].path => i = j
    BY DEF WalkFacts, n
  <2>5. \A i, j \in 1..Len(files') : files'[i].path = files'[j].path => i = j
    BY <1>k, <1>a, <2>2, <2>4
  <2> QED BY <1>0, <2>1, <2>3, <2>5 DEF WalkFacts
<1>2. WalkTypeOK' /\ TreeStands'
  BY <1>0, <1>a DEF WalkTypeOK, TreeStands
<1>3. WalkStages'
  BY <1>0 DEF WalkStages
<1>4. WaysApart'
  <2>1. ToCome' = ToCome
    BY <1>0 DEF ToCome
  <2> QED BY <1>0, <1>f, <2>1 DEF WaysApart
<1>5. NothingLost'
  <2> SUFFICES ASSUME NEW x \in Present, ~truncated, x \notin Collected, x # candidate.path
               PROVE  Pending(x)'
    BY <1>0, <1>f DEF NothingLost, Present, Undisturbed
  <2>1. PICK q \in PathsAbove(x) : Ahead(q)
    BY <1>0 DEF NothingLost, Walking, Pending
  <2>2. q # candidate.path
    BY <1>k, DirectoriesAbove DEF Present
  <2>3. Ahead(q)'
    BY <1>0, <2>1, <2>2 DEF Ahead
  <2> QED BY <2>3 DEF Pending
<1>6. Accounted'
  <2>1. Len(queue) \in Nat /\ Cardinality(entries) \in Nat
    BY WalkLists
  <2>2. Unsettled = Len(queue) + Cardinality(entries) + 1 /\ Unsettled' = Len(queue) + Cardinality(entries)
    BY <1>0, <2>1 DEF Unsettled
  <2> SUFFICES ASSUME ~truncated
               PROVE  entriesScanned + 1 = Len(files') + symlinksSkipped + specialSkipped
                                             + directoriesScanned + Unsettled'
    BY <1>0 DEF Accounted
  <2>3. entriesScanned + 1 = n + symlinksSkipped + specialSkipped + directoriesScanned + Unsettled
    BY <1>0 DEF Accounted, n
  <2> QED BY <1>n, <1>a, <2>1, <2>2, <2>3 DEF WalkTypeOK
<1> QED BY <1>1, <1>2, <1>3, <1>4, <1>5, <1>6

(* Every step of the walk keeps the facts, and so does every change of the  *)
(* tree.                                                                    *)
LEMMA WalkKeeps ==
  ASSUME WalkIsRight, WalkNext \/ UNCHANGED walkVars
  PROVE  WalkIsRight'
<1>1. CASE EndOfQueue \/ StopAtLimit \/ EndOfDirectory \/ OpenFails \/ DropFile
  BY <1>1, MarkingKeeps
<1>2. CASE RefuseRoot \/ Abandon \/ DirectoryFails
  BY <1>2, FailKeeps DEF RefuseRoot, Abandon, DirectoryFails
<1>3. CASE AcceptRoot
  BY <1>3, AcceptRootKeeps
<1>4. CASE ReadDirectory
  BY <1>4, ReadDirectoryKeeps
<1>5. CASE ConfirmListing
  BY <1>5, ConfirmListingKeeps
<1>6. ASSUME NEW p \in Paths, LookAtEntry(p) PROVE WalkIsRight'
  BY <1>6, SkippingKeeps, QueueDirectoryKeeps, StopAtFilesKeeps, ChooseFileKeeps DEF LookAtEntry
<1>7. CASE OpenFile
  BY <1>7, OpenFileKeeps
<1>8. CASE KeepFile
  BY <1>8, KeepFileKeeps
<1>9. CASE ContextEnds \/ UNCHANGED walkVars
  BY <1>9, WaitingKeeps
<1>10. ASSUME NEW p \in Paths, NEW kind \in Kinds, Change(p, kind) PROVE WalkIsRight'
  BY <1>10, ChangeKeeps
<1> QED BY <1>1, <1>2, <1>3, <1>4, <1>5, <1>6, <1>7, <1>8, <1>9, <1>10 DEF WalkNext, WalkStep

-----------------------------------------------------------------------------
(* A walk that is over stays as it is: nobody looks at the tree any more.    *)
LEMMA WalkIsOver == at \in {"returned", "failed"} => ~WalkNext
BY DEF WalkNext, WalkStep, Walking, RefuseRoot, AcceptRoot, EndOfQueue, Abandon, StopAtLimit,
       ReadDirectory, ConfirmListing, DirectoryFails, EndOfDirectory, LookAtEntry, LookAt,
       EntryVanished, SkipSymlink, SkipSpecial, QueueDirectory, StopAtFiles, ChooseFile,
       OpenFile, OpenFails, KeepFile, DropFile, ContextEnds, Change

(* The items are listed, and those that did not fail can be counted.        *)
LEMMA ItemLists ==
  ASSUME ResultTypeOK
  PROVE  /\ Len(items) \in Nat /\ \A i \in 1..Len(items) : items[i] \in Inventoried
         /\ Inspected \subseteq 1..Len(items) /\ IsFiniteSet(Inspected) /\ Cardinality(Inspected) \in Nat
<1>1. Len(items) \in Nat /\ \A i \in 1..Len(items) : items[i] \in Inventoried
  BY ElementOfSeq, LenProperties DEF ResultTypeOK
<1>2. Inspected \in SUBSET (1..Len(items))
  BY DEF Inspected
<1>3. IsFiniteSet(1..Len(items))
  <2>1. 1 \in Int /\ Len(items) \in Int
    BY <1>1
  <2> QED BY <2>1, FS_Interval, Zenon
<1> QED BY <1>1, <1>2, <1>3, FS_Subset, FS_CardinalityType

(* Nothing has been counted yet. *)
LEMMA NothingCounted ==
  ASSUME NEW f, f = [x \in Formats |-> 0]
  PROVE  f \in [Formats -> Nat] /\ SumFunction(f) = 0
<1>1. IsFiniteSet(Formats) /\ DOMAIN f = Formats /\ \A x \in Formats : f[x] = 0
  BY FormatsAssumption, FS_AddElement DEF Formats
<1>2. SumFunctionOnSet(f, Formats) = 0
  BY <1>1, SumOfZeros
<1>3. SumFunction(f) = SumFunctionOnSet(f, DOMAIN f)
  BY DEF SumFunction
<1>4. f \in [Formats -> Nat]
  OBVIOUS
<1> QED BY <1>1, <1>2, <1>3, <1>4, Zenon

(* An inventory begins without items, and with all counts at 0.             *)
LEMMA InventoryBegins == InventoryInit => InventoryFacts
<1> SUFFICES ASSUME InventoryInit PROVE InventoryFacts
  OBVIOUS
<1>0. /\ stage = "waiting" /\ lapsed = FALSE /\ items = <<>> /\ filesScanned = 0
      /\ limitsTruncated = FALSE /\ diagnostics = {} /\ status = "ok" /\ error = "none"
  BY DEF InventoryInit
<1>1. WalkIsRight
  BY WalkBegins DEF InventoryInit
<1>2. formats \in [Formats -> Nat] /\ filesScanned = SumFunction(formats)
  BY NothingCounted DEF InventoryInit
<1>3. ResultTypeOK
  <2>1. items \in Seq(Inventoried) /\ filesScanned \in Nat
    BY <1>0
  <2> QED BY <1>0, <1>2, <2>1, Zenon DEF ResultTypeOK
<1>4. ResultStages /\ InventoryIsHonest
  BY <1>0 DEF ResultStages, InventoryIsHonest
<1>5. ItemsCounted
  <2>1. Len(items) = 0 /\ Len(files) \in Nat /\ 1..Len(items) = {}
    BY <1>0, <1>1, WalkLists DEF WalkIsRight
  <2>2. Inspected = {} /\ Cardinality({}) = 0
    BY <2>1, FS_EmptySet DEF Inspected
  <2> QED BY <1>0, <1>2, <2>1, <2>2 DEF ItemsCounted
<1> QED BY <1>1, <1>3, <1>4, <1>5 DEF InventoryFacts

(* As long as the walk goes on there is no result. *)
LEMMA WalkingKeepsResult ==
  ASSUME InventoryFacts, WalkNext \/ UNCHANGED walkVars, UNCHANGED resultVars
  PROVE  InventoryFacts'
<1>0. UNCHANGED <<stage, lapsed, items, filesScanned, formats, limitsTruncated, diagnostics, status,
                  error>>
  BY DEF resultVars
<1>1. WalkIsRight'
  BY WalkKeeps DEF InventoryFacts
<1>2. ResultTypeOK'
  BY <1>0 DEF InventoryFacts, ResultTypeOK
<1>3. CASE UNCHANGED walkVars
  <2>1. UNCHANGED <<fs, changes, interrupted, at, queue, current, entries, candidate, files,
                    entriesScanned, directoriesScanned, symlinksSkipped, specialSkipped, truncated>>
    BY <1>3 DEF walkVars, treeVars, counters
  <2>2. ResultStages' /\ ItemsCounted'
    BY <1>0, <2>1 DEF InventoryFacts, ResultStages, ItemsCounted, Inspected
  <2>3. InventoryIsHonest'
    BY <1>0, <2>1 DEF InventoryFacts, InventoryIsHonest, Replaced, Present, Undisturbed
  <2> QED BY <1>1, <1>2, <2>2, <2>3 DEF InventoryFacts
<1>4. CASE WalkNext
  <2>1. stage = "waiting" /\ items = <<>>
    BY <1>4, WalkIsOver DEF InventoryFacts, ResultTypeOK, ResultStages
  <2>2. ResultStages' /\ InventoryIsHonest'
    BY <1>0, <2>1 DEF InventoryFacts, ResultStages, InventoryIsHonest
  <2>3. ItemsCounted'
    <3>1. Len(items') = 0 /\ 1..Len(items') = {} /\ Len(files') \in Nat
      <4>1. files' \in Seq(Kept)
        BY <1>1 DEF WalkIsRight, WalkTypeOK
      <4> QED BY <1>0, <2>1, <4>1, LenProperties
    <3>2. Inspected' = Inspected
      BY <1>0 DEF Inspected
    <3> QED BY <1>0, <3>1, <3>2 DEF InventoryFacts, ItemsCounted
  <2> QED BY <1>1, <1>2, <2>2, <2>3 DEF InventoryFacts
<1> QED BY <1>3, <1>4

(* PublicInventoryError leaves nothing that could be wrong. *)
LEMMA ReplacedKeeps ==
  ASSUME InventoryFacts,
         AnswerFailure \/ RefuseInventory \/ InventoryPanics \/ InventoryWorkerFails \/ InventoryInvalid
  PROVE  InventoryFacts'
<1>0. PICK code \in {"E_WALK", "E_INVALID_INPUT", "E_INTERNAL", "E_WORKER", "E_RESULT_SCHEMA"} :
        ReplaceInventory(code)
  BY DEF AnswerFailure, RefuseInventory, InventoryPanics, InventoryWorkerFails, InventoryInvalid
<1>1. /\ UNCHANGED walkVars /\ stage' = "done" /\ status' = "error" /\ error' = code /\ items' = <<>>
      /\ filesScanned' = 0 /\ limitsTruncated' = FALSE /\ diagnostics' = {} /\ lapsed' = lapsed
  BY <1>0 DEF ReplaceInventory
<1>2. UNCHANGED <<at, files>> /\ at \in {"returned", "failed"}
  BY <1>1 DEF InventoryFacts, ResultStages, AnswerFailure, RefuseInventory, InventoryPanics,
              InventoryWorkerFails, InventoryInvalid, walkVars
<1>3. WalkIsRight'
  BY <1>1, WalkKeeps DEF InventoryFacts
<1>4. formats' \in [Formats -> Nat] /\ filesScanned' = SumFunction(formats')
  BY <1>0, NothingCounted DEF ReplaceInventory
<1>5. ResultTypeOK'
  <2>1. items' \in Seq(Inventoried) /\ filesScanned' \in Nat /\ lapsed' \in BOOLEAN
    BY <1>1 DEF InventoryFacts, ResultTypeOK
  <2> QED BY <1>1, <1>4, <2>1, Zenon DEF ResultTypeOK
<1>6. ResultStages'
  BY <1>1, <1>2 DEF ResultStages
<1>7. ItemsCounted'
  <2>1. Len(items') = 0 /\ 1..Len(items') = {} /\ Len(files) \in Nat
    BY <1>1, WalkLists DEF InventoryFacts, WalkIsRight
  <2> QED BY <1>1, <1>2, <1>4, <2>1 DEF ItemsCounted
<1>8. InventoryIsHonest'
  BY <1>1 DEF InventoryIsHonest, Replaced
<1> QED BY <1>3, <1>5, <1>6, <1>7, <1>8 DEF InventoryFacts

(* The inspection starts; its deadline passes. *)
LEMMA StartingKeeps ==
  ASSUME InventoryFacts, StartInspection \/ DeadlineLapses
  PROVE  InventoryFacts'
<1>0. /\ UNCHANGED walkVars
      /\ UNCHANGED <<items, filesScanned, formats, diagnostics, status, error>>
      /\ stage' = "inspecting"
      /\ \/ stage = "waiting" /\ at = "returned" /\ limitsTruncated' = truncated /\ lapsed' = lapsed
         \/ stage = "inspecting" /\ lapsed' = TRUE /\ limitsTruncated' = limitsTruncated
  BY DEF StartInspection, DeadlineLapses
<1>1. UNCHANGED <<at, files, truncated>>
  BY <1>0 DEF walkVars
<1>2. WalkIsRight'
  BY <1>0, WalkKeeps DEF InventoryFacts
<1>3. Inspected' = Inspected
  BY <1>0 DEF Inspected
<1>4. ResultTypeOK'
  BY <1>0 DEF InventoryFacts, ResultTypeOK, WalkIsRight, WalkFacts
<1>5. ResultStages'
  <2>1. CASE stage = "waiting"
    <3>1. items = <<>> /\ status = "ok" /\ error = "none" /\ diagnostics = {}
      BY <2>1 DEF InventoryFacts, ResultStages
    <3>2. Inspected = 1..Len(items)
      <4>1. 1..Len(items) = {}
        BY <3>1
      <4> QED BY <4>1 DEF Inspected
    <3> QED BY <1>0, <1>1, <1>3, <2>1, <3>1, <3>2 DEF ResultStages
  <2>2. CASE stage = "inspecting"
    BY <1>0, <1>1, <1>3, <2>2 DEF InventoryFacts, ResultStages
  <2> QED BY <1>0, <2>1, <2>2
<1>6. ItemsCounted'
  BY <1>0, <1>1, <1>3 DEF InventoryFacts, ItemsCounted
<1>7. InventoryIsHonest'
  BY <1>0 DEF InventoryIsHonest
<1> QED BY <1>2, <1>4, <1>5, <1>6, <1>7 DEF InventoryFacts

(* An item is added for the next file, scanned or not. *)
LEMMA AddItemKeeps ==
  ASSUME InventoryFacts, stage = "inspecting", Len(items) < Len(files),
         NEW itemStatus \in ItemStatuses, AddItem(itemStatus),
         UNCHANGED <<walkVars, stage, lapsed, limitsTruncated, diagnostics, error>>,
         formats' \in [Formats -> Nat], filesScanned' \in Nat,
         filesScanned' = SumFunction(formats'),
         filesScanned' >= filesScanned + (IF itemStatus = "error" THEN 0 ELSE 1)
  PROVE  InventoryFacts'
<1> DEFINE n == Len(items)
           item == [path |-> Uninspected.path, status |-> itemStatus]
<1>0. /\ UNCHANGED <<at, files, truncated>> /\ UNCHANGED walkVars
      /\ items' = Append(items, item)
      /\ status' = IF itemStatus = "error" /\ status = "ok" THEN "partial" ELSE status
  BY DEF walkVars, AddItem
<1>n. n \in Nat /\ n + 1 \in 1..Len(files) /\ Len(files) \in Nat
  BY ItemLists, WalkLists DEF InventoryFacts, WalkIsRight
<1>i. item \in Inventoried /\ item.path = files[n + 1].path /\ item.status = itemStatus
  <2>1. files[n + 1].path \in Paths
    BY <1>n, WalkLists DEF InventoryFacts, WalkIsRight
  <2> QED BY <2>1 DEF Inventoried, Uninspected
<1> HIDE DEF item, n
<1>a. /\ items' \in Seq(Inventoried) /\ Len(items') = n + 1 /\ items'[n + 1] = item
      /\ \A i \in 1..n : items'[i] = items[i]
      /\ \A i \in 1..Len(items') : i \in 1..n \/ i = n + 1
  <2>1. items \in Seq(Inventoried)
    BY DEF InventoryFacts, ResultTypeOK
  <2>2. /\ items' \in Seq(Inventoried) /\ Len(items') = n + 1 /\ items'[n + 1] = item
        /\ \A i \in 1..n : items'[i] = items[i]
    BY <1>0, <1>i, <2>1, AppendProperties DEF n
  <2> QED BY <1>n, <2>2
<1>s. /\ IsFiniteSet(Inspected) /\ Cardinality(Inspected) \in Nat /\ n + 1 \notin Inspected
      /\ Inspected' = IF itemStatus = "error" THEN Inspected ELSE Inspected \cup {n + 1}
  <2>1. IsFiniteSet(Inspected) /\ Cardinality(Inspected) \in Nat
    BY ItemLists DEF InventoryFacts
  <2>2. n + 1 \notin Inspected
    BY <1>n DEF Inspected, n
  <2>3. \A i \in 1..n : i \in 1..Len(items')
    BY <1>n, <1>a
  <2>4. n + 1 \in 1..Len(items')
    BY <1>n, <1>a
  <2>5. Inspected' = {i \in 1..Len(items') : items'[i].status # "error"} /\ Inspected = {i \in 1..n : items[i].status # "error"}
    BY DEF Inspected, n
  <2> QED BY <1>i, <1>a, <2>1, <2>2, <2>3, <2>4, <2>5
<1>c. Cardinality(Inspected') = Cardinality(Inspected) + (IF itemStatus = "error" THEN 0 ELSE 1)
  <2>1. CASE itemStatus = "error"
    BY <1>s, <2>1
  <2>2. CASE itemStatus # "error"
    <3>1. Cardinality(Inspected \cup {n + 1}) = Cardinality(Inspected) + 1
      BY <1>s, FS_AddElement
    <3>2. Inspected' = Inspected \cup {n + 1}
      BY <1>s, <2>2
    <3> QED BY <2>2, <3>1, <3>2, Zenon
  <2> QED BY <2>1, <2>2
<1>1. WalkIsRight'
  BY <1>0, WalkKeeps DEF InventoryFacts
<1>2. ResultTypeOK'
  BY <1>0, <1>a DEF InventoryFacts, ResultTypeOK
<1>3. ResultStages'
  <2>1. /\ at = "returned" /\ error = "none" /\ limitsTruncated = truncated /\ status # "error"
        /\ diagnostics = {} /\ (status = "ok" => Inspected = 1..n)
    BY DEF InventoryFacts, ResultStages, n
  <2>2. status' = "ok" => Inspected' = 1..Len(items')
    <3> SUFFICES ASSUME status' = "ok" PROVE Inspected' = 1..(n + 1)
      BY <1>a
    <3>1. itemStatus # "error" /\ status = "ok"
      BY <1>0
    <3> QED BY <1>n, <1>s, <2>1, <3>1
  <2> QED BY <1>0, <2>1, <2>2 DEF ResultStages
<1>4. ItemsCounted'
  <2>1. Cardinality(Inspected) <= filesScanned /\ filesScanned \in Nat
    BY DEF InventoryFacts, ItemsCounted, ResultTypeOK, ResultStages
  <2>2. Cardinality(Inspected') <= filesScanned'
    BY <1>s, <1>c, <2>1
  <2>3. \A i \in 1..n : items[i].path = files[i].path
    BY DEF InventoryFacts, ItemsCounted, n
  <2>4. \A i \in 1..Len(items') : items'[i].path = files[i].path
    BY <1>i, <1>a, <2>3
  <2>5. Len(items') <= Len(files)
    BY <1>n, <1>a
  <2> QED BY <1>0, <2>2, <2>4, <2>5 DEF ItemsCounted
<1>5. InventoryIsHonest'
  BY DEF InventoryIsHonest
<1> QED BY <1>1, <1>2, <1>3, <1>4, <1>5 DEF InventoryFacts

(* A descriptor that cannot be used is an item and not a scanned file; a     *)
(* file that is inspected is counted once, under its format.                *)
LEMMA InspectingKeeps ==
  ASSUME InventoryFacts,
         SourceFails \/ \E s \in ItemStatuses, f \in Formats : InspectFile(s, f)
  PROVE  InventoryFacts'
<1>0. /\ formats \in [Formats -> Nat] /\ filesScanned \in Nat
      /\ filesScanned = SumFunction(formats)
  BY DEF InventoryFacts, ResultTypeOK, ItemsCounted
<1>1. CASE SourceFails
  <2>1. /\ stage = "inspecting" /\ Len(items) < Len(files) /\ AddItem("error")
        /\ UNCHANGED <<walkVars, stage, lapsed, limitsTruncated, diagnostics, error>>
        /\ UNCHANGED <<filesScanned, formats>>
    BY <1>1 DEF SourceFails
  <2>2. "error" \in ItemStatuses
    BY DEF ItemStatuses
  <2> QED BY <1>0, <2>1, <2>2, AddItemKeeps
<1>2. ASSUME NEW s \in ItemStatuses, NEW f \in Formats, InspectFile(s, f)
      PROVE  InventoryFacts'
  <2>1. /\ stage = "inspecting" /\ Len(items) < Len(files) /\ AddItem(s)
        /\ UNCHANGED <<walkVars, stage, lapsed, limitsTruncated, diagnostics, error>>
        /\ filesScanned' = filesScanned + 1 /\ formats' = [formats EXCEPT ![f] = @ + 1]
    BY <1>2 DEF InspectFile
  <2>2. formats' \in [Formats -> Nat] /\ filesScanned' \in Nat
    BY <1>0, <2>1
  <2>3. /\ IsFiniteSet(Formats) /\ DOMAIN formats = Formats /\ DOMAIN formats' = Formats
        /\ \A x \in Formats : formats[x] \in Int /\ formats'[x] \in Int
        /\ \A x \in Formats : x # f => formats'[x] = formats[x]
        /\ formats'[f] = formats[f] + 1
    BY <1>0, <2>1, <2>2, FormatsAssumption, FS_AddElement DEF Formats
  <2>4. SumFunctionOnSet(formats', Formats) = SumFunctionOnSet(formats, Formats) + formats'[f] - formats[f]
    BY <2>3, SumMoves
  <2>5. SumFunctionOnSet(formats, Formats) \in Int
    BY <2>3, SumType
  <2>6. /\ SumFunction(formats) = SumFunctionOnSet(formats, Formats)
        /\ SumFunction(formats') = SumFunctionOnSet(formats', Formats)
    <3>1. /\ SumFunction(formats) = SumFunctionOnSet(formats, DOMAIN formats)
          /\ SumFunction(formats') = SumFunctionOnSet(formats', DOMAIN formats')
      BY DEF SumFunction
    <3> QED BY <2>3, <3>1, Zenon
  <2>7. SumFunction(formats') = SumFunction(formats) + 1
    <3>1. formats[f] \in Int
      BY <2>3
    <3> QED BY <2>3, <2>4, <2>5, <2>6, <3>1
  <2>8. filesScanned' = SumFunction(formats')
    BY <1>0, <2>1, <2>7
  <2>9. filesScanned' >= filesScanned + (IF s = "error" THEN 0 ELSE 1)
    BY <1>0, <2>1
  <2> QED BY <2>1, <2>2, <2>8, <2>9, AddItemKeeps
<1> QED BY <1>1, <1>2

(* The end of the list: a walk that was cut makes the result partial.       *)
LEMMA EndingKeeps ==
  ASSUME InventoryFacts, EndInspection
  PROVE  InventoryFacts'
<1>0. /\ UNCHANGED walkVars /\ UNCHANGED <<lapsed, items, filesScanned, formats, limitsTruncated, error>>
      /\ stage = "inspecting" /\ stage' = "fitting" /\ Len(items) = Len(files)
      /\ truncated => status' = "partial" /\ diagnostics' = diagnostics \cup {"INVENTORY_LIMIT"}
      /\ ~truncated => status' = status /\ diagnostics' = diagnostics
  BY DEF EndInspection
<1>1. UNCHANGED <<at, files, truncated>> /\ truncated \in BOOLEAN
  BY <1>0 DEF walkVars, InventoryFacts, WalkIsRight, WalkFacts
<1>2. WalkIsRight'
  BY <1>0, WalkKeeps DEF InventoryFacts
<1>3. Inspected' = Inspected
  BY <1>0 DEF Inspected
<1>4. /\ at = "returned" /\ error = "none" /\ limitsTruncated = truncated /\ status # "error"
      /\ diagnostics = {} /\ (status = "ok" => Inspected = 1..Len(items))
  BY <1>0 DEF InventoryFacts, ResultStages
<1>5. ResultTypeOK'
  <2>1. CASE truncated
    BY <1>0, <1>4, <2>1 DEF InventoryFacts, ResultTypeOK
  <2>2. CASE ~truncated
    BY <1>0, <1>4, <2>2 DEF InventoryFacts, ResultTypeOK
  <2> QED BY <2>1, <2>2
<1>6. ResultStages'
  <2>1. CASE truncated
    BY <1>0, <1>1, <1>3, <1>4, <2>1 DEF ResultStages
  <2>2. CASE ~truncated
    BY <1>0, <1>1, <1>3, <1>4, <2>2 DEF ResultStages
  <2> QED BY <2>1, <2>2
<1>7. ItemsCounted'
  BY <1>0, <1>1, <1>3 DEF InventoryFacts, ItemsCounted
<1>8. InventoryIsHonest'
  BY <1>0 DEF InventoryIsHonest
<1> QED BY <1>2, <1>5, <1>6, <1>7, <1>8 DEF InventoryFacts

(* A walk that returned and missed nothing has collected all that stays in   *)
(* place, and accounts for what it read.                                    *)
LEMMA WalkIsComplete ==
  ASSUME WalkIsRight
  PROVE  /\ EntriesAddUp
         /\ at = "returned" /\ ~truncated => Present \subseteq Collected
<1> SUFFICES ASSUME at = "returned", ~truncated
             PROVE  /\ entriesScanned = Len(files) + symlinksSkipped + specialSkipped + directoriesScanned - 1
                    /\ Present \subseteq Collected
  BY DEF EntriesAddUp
<1>1. queue = <<>> /\ Len(queue) = 0
  BY DEF WalkIsRight, WalkStages
<1>2. entriesScanned + 1 = Len(files) + symlinksSkipped + specialSkipped + directoriesScanned + Unsettled
  BY DEF WalkIsRight, Accounted
<1>3. Unsettled = 0 /\ Len(files) \in Nat
  BY <1>1, WalkLists DEF Unsettled, WalkIsRight
<1>4. \A p \in Present : ~Pending(p)
  BY <1>1 DEF Pending, Ahead
<1> QED BY <1>2, <1>3, <1>4 DEF WalkIsRight, WalkTypeOK, NothingLost

(* fitInventoryResponse: what it leaves out it says, and what it says "ok"   *)
(* of is all there is.                                                      *)
LEMMA FittingInventoryKeeps ==
  ASSUME InventoryFacts, Fits
  PROVE  InventoryFacts'
<1>0. /\ UNCHANGED walkVars
      /\ UNCHANGED <<lapsed, items, filesScanned, formats, limitsTruncated, diagnostics, status, error>>
      /\ stage = "fitting" /\ stage' = "done"
  BY DEF Fits
<1>1. UNCHANGED <<fs, at, files, truncated, entriesScanned, directoriesScanned, symlinksSkipped, specialSkipped>>
  BY <1>0 DEF walkVars, treeVars, counters
<1>2. WalkIsRight'
  BY <1>0, WalkKeeps DEF InventoryFacts
<1>3. Inspected' = Inspected /\ Present' = Present
  BY <1>0, <1>1 DEF Inspected, Present, Undisturbed
<1>4. /\ at = "returned" /\ error = "none" /\ limitsTruncated = truncated /\ status # "error"
      /\ status = "ok" => Inspected = 1..Len(items)
      /\ Len(items) = Len(files) /\ (truncated => status = "partial" /\ "INVENTORY_LIMIT" \in diagnostics)
      /\ ~truncated => diagnostics = {}
  BY <1>0 DEF InventoryFacts, ResultStages
<1>5. ResultTypeOK'
  BY <1>0 DEF InventoryFacts, ResultTypeOK
<1>6. ResultStages'
  BY <1>0, <1>1, <1>4 DEF ResultStages
<1>7. ItemsCounted'
  BY <1>0, <1>1, <1>3 DEF InventoryFacts, ItemsCounted
<1>8. InventoryIsHonest'
  <2>1. Len(items) \in Nat /\ Len(files) \in Nat /\ filesScanned >= Cardinality(Inspected)
    BY <1>4, ItemLists, WalkLists DEF InventoryFacts, WalkIsRight, ItemsCounted, ResultTypeOK
  <2>2. ASSUME status = "ok"
        PROVE  /\ diagnostics = {} /\ ~limitsTruncated
               /\ Present \subseteq {items[i].path : i \in 1..Len(items)}
               /\ \A i \in 1..Len(items) : items[i].status # "error"
               /\ entriesScanned = Len(items) + symlinksSkipped + specialSkipped + directoriesScanned - 1
    <3>1. ~truncated /\ diagnostics = {} /\ ~limitsTruncated
      BY <1>4, <2>2
    <3>2. Collected = {items[i].path : i \in 1..Len(items)}
      BY <1>4 DEF InventoryFacts, ItemsCounted, Collected
    <3>3. \A i \in 1..Len(items) : items[i].status # "error"
      BY <1>4, <2>2 DEF Inspected
    <3>4. /\ Present \subseteq Collected
          /\ entriesScanned = Len(items) + symlinksSkipped + specialSkipped + directoriesScanned - 1
      BY <1>4, <3>1, WalkIsComplete DEF InventoryFacts, EntriesAddUp
    <3> QED BY <3>1, <3>2, <3>3, <3>4
  <2>3. Inspected = {i \in 1..Len(items) : items[i].status # "error"}
    BY DEF Inspected
  <2>4. ~(Len(items) < Len(files))
    BY <1>4, <2>1
  <2> HIDE DEF Inspected
  <2> QED BY <1>0, <1>1, <1>3, <1>4, <2>1, <2>2, <2>3, <2>4 DEF InventoryIsHonest
<1> QED BY <1>2, <1>5, <1>6, <1>7, <1>8 DEF InventoryFacts

(* fitInventoryResponse, with the last n items left out. *)
LEMMA FittingWithoutKeeps ==
  ASSUME InventoryFacts, NEW n \in 1..MaxFiles, FitsWithout(n)
  PROVE  InventoryFacts'
<1> DEFINE m == Len(items) - n
<1>0. /\ UNCHANGED walkVars /\ UNCHANGED <<lapsed, filesScanned, formats, error>>
      /\ stage = "fitting" /\ stage' = "done" /\ n \in 1..Len(items)
      /\ items' = SubSeq(items, 1, m)
      /\ diagnostics' = diagnostics \cup {"INVENTORY_RESPONSE_TRUNCATED"}
      /\ limitsTruncated' = TRUE /\ status' = "partial"
  BY DEF FitsWithout
<1>1. UNCHANGED <<at, files, truncated>>
  BY <1>0 DEF walkVars
<1>2. WalkIsRight'
  BY <1>0, WalkKeeps DEF InventoryFacts
<1>3. /\ at = "returned" /\ error = "none" /\ Len(items) = Len(files)
      /\ truncated => "INVENTORY_LIMIT" \in diagnostics
  BY <1>0 DEF InventoryFacts, ResultStages
<1>n. Len(items) \in Nat /\ m \in Nat /\ m < Len(items)
  BY <1>0, ItemLists DEF InventoryFacts
<1>a. /\ items' \in Seq(Inventoried) /\ Len(items') = m
      /\ \A i \in 1..m : i \in 1..Len(items) /\ items'[i] = items[i]
  <2>1. items \in Seq(Inventoried) /\ \A i \in 1..m : i \in 1..Len(items) /\ items[i] \in Inventoried
    BY <1>n, ItemLists DEF InventoryFacts, ResultTypeOK
  <2> HIDE DEF m
  <2>2. /\ SubSeq(items, 1, m) \in Seq(Inventoried) /\ Len(SubSeq(items, 1, m)) = IF 1 <= m THEN m - 1 + 1 ELSE 0
        /\ \A i \in 1..(m - 1 + 1) : SubSeq(items, 1, m)[i] = items[1 + i - 1]
    BY <1>n, <2>1, SubSeqProperties
  <2>3. m - 1 + 1 = m /\ \A i \in 1..m : 1 + i - 1 = i
    BY <1>n
  <2>4. Len(items') = m
    BY <1>0, <1>n, <2>2, <2>3
  <2> QED BY <1>0, <2>1, <2>2, <2>3, <2>4
<1> HIDE DEF m
<1>s. Cardinality(Inspected') <= Cardinality(Inspected)
  <2>1. Inspected' \in SUBSET Inspected
    <3>1. Inspected' = {i \in 1..m : items[i].status # "error"}
      BY <1>a DEF Inspected
    <3> QED BY <1>a, <3>1 DEF Inspected
  <2>2. IsFiniteSet(Inspected)
    BY ItemLists DEF InventoryFacts
  <2> QED BY <2>1, <2>2, FS_Subset
<1>c. Cardinality(Inspected') <= filesScanned
  <2>1. Cardinality(Inspected) <= filesScanned /\ filesScanned \in Nat
    BY <1>3 DEF InventoryFacts, ItemsCounted, ResultTypeOK
  <2>2. Cardinality(Inspected) \in Nat /\ Cardinality(Inspected') \in Nat
    <3>1. IsFiniteSet(Inspected) /\ Cardinality(Inspected) \in Nat
      BY ItemLists DEF InventoryFacts
    <3>2. IsFiniteSet(Inspected')
      <4>1. IsFiniteSet(1..m) /\ Inspected' \in SUBSET (1..m)
        BY <1>n, <1>a, FS_Interval DEF Inspected
      <4> QED BY <4>1, FS_Subset
    <3> QED BY <3>1, <3>2, FS_CardinalityType
  <2> QED BY <1>s, <2>1, <2>2
<1>4. ResultTypeOK'
  BY <1>0, <1>a DEF InventoryFacts, ResultTypeOK
<1>5. ResultStages'
  BY <1>0, <1>1, <1>3 DEF ResultStages
<1>6. ItemsCounted'
  <2>1. Len(items') <= Len(files')
    BY <1>1, <1>3, <1>n, <1>a
  <2>2. \A i \in 1..Len(items') : items'[i].path = files'[i].path
    BY <1>1, <1>a DEF InventoryFacts, ItemsCounted
  <2> QED BY <1>0, <1>c, <2>1, <2>2 DEF InventoryFacts, ItemsCounted
<1>7. InventoryIsHonest'
  <2>1. filesScanned' >= Cardinality({i \in 1..Len(items') : items'[i].status # "error"})
    <3>1. Inspected' = {i \in 1..Len(items') : items'[i].status # "error"}
      BY DEF Inspected
    <3>2. filesScanned' >= Cardinality(Inspected')
      BY <1>0, <1>c
    <3> QED BY <3>1, <3>2, Zenon
  <2> QED BY <1>0, <1>1, <1>3, <2>1 DEF InventoryIsHonest
<1> QED BY <1>2, <1>4, <1>5, <1>6, <1>7 DEF InventoryFacts

(* fitInventoryResponse, when not even the counts fit: no items, and the     *)
(* error.                                                                   *)
LEMMA NeverFittingKeeps ==
  ASSUME InventoryFacts, NeverFits
  PROVE  InventoryFacts'
<1>0. /\ UNCHANGED walkVars /\ UNCHANGED <<lapsed, filesScanned, formats>>
      /\ stage = "fitting" /\ stage' = "done" /\ items' = <<>>
      /\ diagnostics' = diagnostics \cup {"INVENTORY_RESPONSE_TRUNCATED"}
      /\ limitsTruncated' = (limitsTruncated \/ items # <<>>)
      /\ status' = "error" /\ error' = "E_RESPONSE_TOO_LARGE"
  BY DEF NeverFits
<1>1. UNCHANGED <<at, files, truncated>> /\ truncated \in BOOLEAN
  BY <1>0 DEF walkVars, InventoryFacts, WalkIsRight, WalkFacts
<1>2. WalkIsRight'
  BY <1>0, WalkKeeps DEF InventoryFacts
<1>3. /\ at = "returned" /\ limitsTruncated = truncated /\ Len(items) = Len(files)
      /\ truncated => "INVENTORY_LIMIT" \in diagnostics
  BY <1>0 DEF InventoryFacts, ResultStages
<1>4. Len(items') = 0 /\ 1..Len(items') = {} /\ items' \in Seq(Inventoried) /\ Len(files) \in Nat
  BY <1>0, WalkLists DEF InventoryFacts, WalkIsRight
<1>5. ResultTypeOK'
  <2>1. limitsTruncated' \in BOOLEAN
    BY <1>0 DEF InventoryFacts, ResultTypeOK
  <2> QED BY <1>0, <1>4, <2>1 DEF InventoryFacts, ResultTypeOK
<1>6. ResultStages'
  BY <1>0, <1>1, <1>3 DEF ResultStages
<1>7. ItemsCounted'
  BY <1>0, <1>1, <1>4 DEF InventoryFacts, ItemsCounted
<1>8. InventoryIsHonest'
  <2>1. ASSUME truncated' PROVE "INVENTORY_LIMIT" \in diagnostics' /\ limitsTruncated'
    BY <1>0, <1>1, <1>3, <2>1
  <2>2. ASSUME Len(items') < Len(files')
        PROVE  "INVENTORY_RESPONSE_TRUNCATED" \in diagnostics' /\ limitsTruncated'
    <3>1. items # <<>>
      BY <1>1, <1>3, <1>4, <2>2
    <3> QED BY <1>0, <3>1
  <2> QED BY <1>0, <2>1, <2>2 DEF InventoryIsHonest
<1> QED BY <1>2, <1>5, <1>6, <1>7, <1>8 DEF InventoryFacts

(* Every step of an inventory keeps the facts. *)
LEMMA InventoryStep == InventoryFacts /\ [InventoryNext]_inventoryVars => InventoryFacts'
<1> SUFFICES ASSUME InventoryFacts, [InventoryNext]_inventoryVars PROVE InventoryFacts'
  OBVIOUS
<1>1. CASE (WalkNext /\ UNCHANGED resultVars) \/ UNCHANGED inventoryVars
  BY <1>1, WalkingKeepsResult DEF inventoryVars
<1>2. CASE StartInspection \/ DeadlineLapses
  BY <1>2, StartingKeeps
<1>3. CASE AnswerFailure \/ RefuseInventory \/ InventoryPanics \/ InventoryWorkerFails \/ InventoryInvalid
  BY <1>3, ReplacedKeeps
<1>4. CASE SourceFails \/ \E s \in ItemStatuses, f \in Formats : InspectFile(s, f)
  BY <1>4, InspectingKeeps
<1>5. CASE EndInspection
  BY <1>5, EndingKeeps
<1>6. CASE Fits
  BY <1>6, FittingInventoryKeeps
<1>7. CASE \E n \in 1..MaxFiles : FitsWithout(n)
  BY <1>7, FittingWithoutKeeps
<1>8. CASE NeverFits
  BY <1>8, NeverFittingKeeps
<1> QED BY <1>1, <1>2, <1>3, <1>4, <1>5, <1>6, <1>7, <1>8 DEF InventoryNext, InspectionStep

(* Whatever the tree is and however other programs change it while it is     *)
(* walked: the walk keeps its limits, comes nowhere twice, loses nothing     *)
(* that stays in place unless the flag says so, and accounts for every       *)
(* entry it read; the items are those of the files it collected, and the     *)
(* counts by format add up to the files that were scanned.                  *)
THEOREM InventoryIsRight == InventorySpec => []InventoryIInv
<1>1. InventoryFacts => InventoryIInv
  BY WalkIsComplete DEF InventoryFacts, WalkIsRight, ItemsCounted, InventoryIInv
<1> QED BY InventoryBegins, InventoryStep, <1>1, PTL DEF InventorySpec

(* What an inventory answers as "ok" lists every regular file that stood in  *)
(* place from beginning to end; what it lacks, it says which limit cut.     *)
THEOREM InventoryAnswersHonestly == InventorySpec => []InventoryIsHonest
<1>1. InventoryFacts => InventoryIsHonest
  BY DEF InventoryFacts
<1> QED BY InventoryBegins, InventoryStep, <1>1, PTL DEF InventorySpec

-----------------------------------------------------------------------------
(* A worker serves one request; the others stand still. *)
WorkerFacts == InventoryFacts /\ BatchFacts /\ FileFacts /\ ArchiveFacts

(* A request that arrives, and those that stand still, are in order. *)
LEMMA WorkerBegins == WorkerInit => WorkerFacts
<1>1. NoInventory => InventoryInit
  BY DEF NoInventory
<1>2. NoBatch => BatchInit
  BY DEF NoBatch
<1>3. NoFileRequest => FileInit
  BY DEF NoFileRequest
<1>4. WorkerInit => InventoryInit /\ BatchInit /\ FileInit
  BY <1>1, <1>2, <1>3 DEF WorkerInit
<1> QED BY <1>4, InventoryBegins, BatchBegins, FileBegins, ArchiveBegins DEF WorkerFacts

(* A step of a worker is one of the request it serves, or its answer is     *)
(* already there.                                                           *)
LEMMA WorkerStep == WorkerFacts /\ [WorkerNext]_workerVars => WorkerFacts'
<1>1. [WorkerNext]_workerVars => [InventoryNext]_inventoryVars /\ [BatchNext]_batchVars /\ [FileNext]_fileVars
  BY DEF WorkerNext, workerVars, Answered
<1> QED BY <1>1, InventoryStep, BatchStep, FileStep, ArchiveStep DEF WorkerFacts

(* Whatever a worker is asked, the invariants of its requests hold.         *)
THEOREM WorkerIsRight == WorkerSpec => []WorkerIInv
<1>1. WorkerFacts => WorkerIInv
  BY WalkIsComplete DEF WorkerFacts, WorkerIInv, BatchFacts, BatchProgress, BatchIInv, InventoryFacts, WalkIsRight,
    ItemsCounted, InventoryIInv, FileFacts
<1> QED BY WorkerBegins, WorkerStep, <1>1, PTL DEF WorkerSpec

(* Whatever a worker is asked, what it answers is so.                       *)
THEOREM WorkerAnswersHonestly ==
  WorkerSpec => [](InventoryIsHonest /\ BatchIsHonest /\ ArchiveIsHonest /\ FileIsHonest)
<1>1. WorkerFacts => InventoryIsHonest /\ FileIsHonest /\ ArchiveIsHonest
  BY AnswerIsHonest, ArchiveIsSo DEF WorkerFacts, InventoryFacts
<1>2. WorkerFacts => BatchIsHonest
  BY DEF WorkerFacts, BatchFacts, BatchProgress, ItemsAreOfTheirPaths, ItemIsOfItsPath, OkMeansAll, BatchIsHonest
<1> QED BY WorkerBegins, WorkerStep, <1>1, <1>2, PTL DEF WorkerSpec
=============================================================================
