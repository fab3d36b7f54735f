---------------------------- MODULE ArchiveScan ----------------------------
(***************************************************************************)
(* inspectArchive: the entries of an archive are counted under a cap on    *)
(* the headers and, for a stream, a cap on the bytes. A stream is read in  *)
(* blocks: an entry announces its size and is followed by its data, two    *)
(* zero blocks end the archive. A ZIP file is its directory of entries.    *)
(***************************************************************************)
EXTENDS OfficePackage, FiniteSetsExt

CONSTANTS MaxHeaders,    \* MaxArchiveHeaders
          ScanBlocks,    \* MaxArchiveScanBytes, in blocks
          LargestTotal,  \* math.MaxInt64
          LongestStream, \* bound: blocks in an archive
          Packages       \* bound: the packages of ZIP files

ASSUME ArchiveAssumption ==
  /\ MaxHeaders \in Nat \ {0} /\ ScanBlocks \in Nat \ {0}
  /\ LargestTotal \in Nat /\ LongestStream \in Nat
  /\ \A k \in Packages : IsPackage(k)

VARIABLES scan,      \* where the scan stands
          position,  \* blocks read
          pending,   \* data blocks of the last entry, not read yet
          scanned, total, links

scanVars == <<scan, position, pending, scanned, total, links, office>>
archiveVars == <<archive, expired, cutShort, scanVars>>

Header(size, data) == [is |-> "entry", size |-> size, data |-> data]
File1 == Header(1, 1)
Link  == Header(2, 0)   \* a link has no data, whatever size it announces
Empty == Header(0, 0)
Zero  == [is |-> "zero", size |-> 0, data |-> 0]
Other == [is |-> "other", size |-> 0, data |-> 0]

Streams == UNION {[1..n -> {File1, Link, Empty, Zero, Other}] : n \in 0..LongestStream}
Directories == UNION {[1..n -> {File1, Link, Empty}] : n \in 0..LongestStream}

(* An archive: its format, its blocks, how reading past them ends and, of a *)
(* ZIP file of one entry (bound), the package it is.                        *)
Archives ==
  [format : {"tar", "gzip"}, blocks : Streams, ending : {"eof", "error"}, package : {NoPackage}]
  \cup [format : {"zip"}, blocks : Directories, ending : {"eof", "error"}, package : {NoPackage}]
  \cup [format : {"zip"}, blocks : {<<File1>>}, ending : {"eof"}, package : Packages]

NoArchive == [format |-> "other", blocks |-> <<>>, ending |-> "eof", package |-> NoPackage]

ScanInit ==
  /\ expired = FALSE /\ cutShort = FALSE
  /\ scan = "idle" /\ position = 0 /\ pending = 0
  /\ scanned = 0 /\ total = 0 /\ links = 0
  /\ OfficeInit

-----------------------------------------------------------------------------
(* The two countingReaders. The gzip branch reads one block ahead of the    *)
(* TAR reader, which has a limit of its own.                                *)
Length == Len(archive.blocks)

Left(p) == ScanBlocks - p
OuterLeft(p) == ScanBlocks - IF p = 0 THEN 1 ELSE p

(* Reading on after p blocks: the next block, the limit (an end of file     *)
(* that raises hitLimit), or the end of the stream itself.                  *)
ReadAfter(p) ==
  IF Left(p) <= 0 THEN "limit"
  ELSE IF archive.format = "gzip" /\ p > 0 /\ OuterLeft(p) <= 0 THEN "eof"
  ELSE IF p >= Length THEN archive.ending
  ELSE "block"

Stop(got, p) == [got |-> got, at |-> p, hitLimit |-> ReadAfter(p) = "limit"]
EndAt(p) == Stop(IF ReadAfter(p) = "error" THEN "error" ELSE "eof", p)

(* A header: an entry, or the end of the archive, or neither. *)
HeaderAt(p) ==
  IF ReadAfter(p) # "block" THEN EndAt(p)
  ELSE LET block == archive.blocks[p + 1]
       IN  IF block.is # "zero"
           THEN [got |-> IF block.is = "entry" THEN "entry" ELSE "error",
                 at |-> p + 1, hitLimit |-> FALSE]
           ELSE IF ReadAfter(p + 1) # "block" THEN EndAt(p + 1)
           ELSE [got |-> IF archive.blocks[p + 2].is = "zero" THEN "eof" ELSE "error",
                 at |-> p + 2, hitLimit |-> FALSE]

(* tar.Reader.Next: the data of the last entry has to be there in full.     *)
NextHeader ==
  LET missing == {p \in position..(position + pending - 1) : ReadAfter(p) # "block"}
  IN  IF missing # {} THEN Stop("error", Min(missing)) ELSE HeaderAt(position + pending)

SizeFits(entry) == entry.size <= LargestTotal - total

CountEntry(entry) ==
  /\ scanned' = scanned + 1
  /\ total' = total + entry.size
  /\ links' = links + IF entry = Link THEN 1 ELSE 0

-----------------------------------------------------------------------------
(* A compressed stream that begins with an entry is a compressed TAR.       *)
FirstLook ==
  [tar   |-> "tar",
   zip   |-> IF archive.ending = "error" THEN "failed" ELSE "zip",
   gzip  |-> IF Length = 0 THEN IF archive.ending = "error" THEN "failed" ELSE "gzip"
             ELSE IF archive.blocks[1].is = "entry" THEN "tar" ELSE "gzip",
   other |-> "unavailable"][archive.format]

BeginScan ==
  /\ scan = "idle"
  /\ scan' = FirstLook
  /\ UNCHANGED <<archive, expired, cutShort, position, pending, scanned, total, links, office>>

(* The loops look at the deadline before each entry. *)
InterruptScan ==
  /\ expired
  /\ \/ scan = "tar" /\ scanned < MaxHeaders
     \/ scan = "zip" /\ scanned < Length /\ scanned < MaxHeaders
  /\ scan' = "failed" /\ cutShort' = TRUE
  /\ UNCHANGED <<archive, expired, position, pending, scanned, total, links, office>>

ReadTarHeader ==
  /\ scan = "tar" /\ ~expired /\ scanned < MaxHeaders
  /\ position' = NextHeader.at

TarEntry ==
  /\ ReadTarHeader /\ NextHeader.got = "entry"
  /\ LET entry == archive.blocks[NextHeader.at]
     IN  IF SizeFits(entry)
         THEN CountEntry(entry) /\ pending' = entry.data /\ UNCHANGED scan
         ELSE scan' = "truncated" /\ UNCHANGED <<pending, scanned, total, links>>
  /\ UNCHANGED <<archive, expired, cutShort, office>>

(* Mutant of TarEnds: the end of the bounded reader ends the archive.       *)
TarEndsAtAnyEof ==
  /\ ReadTarHeader /\ NextHeader.got = "eof"
  /\ scan' = "complete"
  /\ UNCHANGED <<archive, expired, cutShort, pending, scanned, total, links, office>>

TarEnds ==
  /\ ReadTarHeader /\ NextHeader.got = "eof"
  /\ scan' = IF NextHeader.hitLimit THEN "truncated" ELSE "complete"
  /\ UNCHANGED <<archive, expired, cutShort, pending, scanned, total, links, office>>

(* An error behind the limit is the limit's. *)
TarBreaks ==
  /\ ReadTarHeader /\ NextHeader.got = "error"
  /\ scan' = IF NextHeader.hitLimit \/ Left(NextHeader.at) <= 0 THEN "truncated" ELSE "failed"
  /\ UNCHANGED <<archive, expired, cutShort, pending, scanned, total, links, office>>

(* At the cap, one more header tells whether the archive ended there.       *)
TarCapped ==
  /\ scan = "tar" /\ scanned = MaxHeaders
  /\ position' = NextHeader.at
  /\ scan' = IF NextHeader.got = "eof" /\ ~NextHeader.hitLimit THEN "complete" ELSE "truncated"
  /\ UNCHANGED <<archive, expired, cutShort, pending, scanned, total, links, office>>

(* Any other compressed stream is only measured. *)
MeasureGzip ==
  /\ scan = "gzip"
  /\ LET reach == Min({Length, ScanBlocks})
     IN  /\ position' = reach
         /\ total' = reach
         /\ scan' = IF ReadAfter(reach) = "limit" THEN "truncated"
                    ELSE IF archive.ending = "error" THEN "failed" ELSE "complete"
  /\ UNCHANGED <<archive, expired, cutShort, pending, scanned, links, office>>

ZipEntry ==
  /\ scan = "zip" /\ ~expired /\ scanned < Length /\ scanned < MaxHeaders
  /\ LET entry == archive.blocks[scanned + 1]
     IN  IF SizeFits(entry)
         THEN CountEntry(entry) /\ UNCHANGED scan
         ELSE /\ links' = links + IF entry = Link THEN 1 ELSE 0
              /\ scan' = "truncated"
              /\ UNCHANGED <<scanned, total>>
  /\ UNCHANGED <<archive, expired, cutShort, position, pending, office>>

ZipEnds ==
  /\ scan = "zip" /\ (scanned = Length \/ scanned = MaxHeaders)
  /\ scan' = IF Length > MaxHeaders THEN "truncated" ELSE "package"
  /\ UNCHANGED <<archive, expired, cutShort, position, pending, scanned, total, links, office>>

(* Of a directory that was read completely the package is inspected.        *)
InspectPackage ==
  /\ scan = "package" /\ OfficeStep
  /\ scan' = IF office'.at \in {"none", "done"} THEN "complete" ELSE scan
  /\ UNCHANGED <<archive, expired, position, pending, scanned, total, links>>

ScanStep ==
  \/ InterruptScan \/ TarEntry \/ TarEnds \/ TarBreaks \/ TarCapped
  \/ MeasureGzip \/ ZipEntry \/ ZipEnds \/ InspectPackage

Scanned == scan \in {"complete", "truncated", "failed", "unavailable"}

-----------------------------------------------------------------------------
(* The whole archive, read without any limit: how it ends, and what is in   *)
(* it from a block on.                                                      *)
Nothing(end) == [end |-> end, count |-> 0, total |-> 0, links |-> 0]

Onward[p \in 0..(LongestStream + 1)] ==
  IF p > Length THEN Nothing("error")
  ELSE IF p = Length THEN Nothing(archive.ending)
  ELSE LET block == archive.blocks[p + 1]
       IN  IF block.is = "entry"
           THEN LET rest == Onward[p + 1 + block.data]
                IN  [end |-> rest.end, count |-> rest.count + 1,
                     total |-> rest.total + block.size,
                     links |-> rest.links + IF block = Link THEN 1 ELSE 0]
           ELSE IF block.is = "other" THEN Nothing("error")
           ELSE IF p + 1 = Length THEN Nothing(archive.ending)
           ELSE Nothing(IF archive.blocks[p + 2].is = "zero" THEN "eof" ELSE "error")

Sizes == [i \in 1..Length |-> archive.blocks[i].size]
LinksAmong(positions) == {i \in positions : archive.blocks[i] = Link}
Measured == archive.format = "gzip" /\ (Length = 0 \/ archive.blocks[1].is # "entry")

Whole ==
  CASE Measured -> [Nothing(archive.ending) EXCEPT !.total = Length]
    [] archive.format = "zip" /\ archive.ending = "error" -> Nothing("error")
    [] archive.format = "zip" /\ archive.ending = "eof" ->
         [end |-> "eof", count |-> Length, total |-> SumFunction(Sizes),
          links |-> Cardinality(LinksAmong(1..Length))]
    [] OTHER -> Onward[0]

(* What a bounded scan says is true of the whole archive: "complete" means  *)
(* the same count, sum and links as reading it without any limit, a scan    *)
(* that fails met a broken archive or the deadline, never a limit, and one  *)
(* that gave up at a limit counted no more than there is. The same holds of *)
(* the package inside a ZIP file, which is only looked at in a whole one.   *)
ArchiveIsHonest ==
  /\ OfficeIsHonest
  /\ office.at # "idle" => archive.format = "zip" /\ Whole.count = scanned
  /\ scan = "complete" =>
       Whole = [end |-> "eof", count |-> scanned, total |-> total, links |-> links]
  /\ scan = "failed" => cutShort \/ Whole.end = "error"
  /\ scan = "truncated" =>
       /\ scanned <= Whole.count /\ total <= Whole.total /\ links <= Whole.links
       /\ \/ Left(position) <= 0 \/ scanned = MaxHeaders
          \/ Whole.total > LargestTotal
=============================================================================
