---------------------------- MODULE ImageFacts -----------------------------
(***************************************************************************)
(* What is read off an image beyond its header: whether it has an alpha    *)
(* channel, whether a WebP container holds a picture, and the size of an   *)
(* SVG image. The walks go from one announced length to the next, over     *)
(* data that may look like a chunk, inside a window that may end anywhere. *)
(*                                                                         *)
(* A file is a sequence of cells. A cell that is met as a header has a tag *)
(* and a length, one that is met as a length has the length alone.         *)
(***************************************************************************)
EXTENDS Integers, SequencesExt

CONSTANTS LongestImage,  \* bound: chunks of an image
          LargestSide    \* maxSVGDimension, in quarters of a pixel

ASSUME ImageAssumption == LongestImage \in Nat /\ LargestSide \in Nat /\ LargestSide % 4 = 0

Cell(tag, n) == [tag |-> tag, n |-> n]
Cells(blocks) == FlattenSeq(blocks)
Windowed(cells, cut) == SubSeq(cells, 1, Len(cells) - cut)

-----------------------------------------------------------------------------
(* pngAlpha, over chunks: a header cell and as many data cells as it says.  *)
(* The data of a text chunk reads like the end of the image.                *)
PngChunks ==
  {<<Cell("IDAT", 1), Cell("x", 9)>>, <<Cell("tEXt", 2), Cell("IEND", 0), Cell("tRNS", 0)>>,
   <<Cell("tRNS", 1), Cell("IEND", 0)>>, <<Cell("IEND", 0)>>, <<>>}

PngAlpha(cells, colorAlpha) ==
  LET At[o \in 0..Len(cells)] ==
        IF o = Len(cells) THEN "unknown"
        ELSE LET next == o + 1 + cells[o + 1].n
             IN  IF next > Len(cells) THEN "unknown"
                 ELSE IF cells[o + 1].tag = "tRNS" THEN "yes"
                 ELSE IF cells[o + 1].tag = "IEND" THEN IF colorAlpha THEN "yes" ELSE "no"
                 ELSE At[next]
  IN  At[0]

-----------------------------------------------------------------------------
(* gifAlpha. A block is an introducer and what it introduces; sub-blocks    *)
(* are a length and as many cells, until a length of zero. Any cell may be  *)
(* met as a length: a number says one, any other character a long one.      *)
Byte(tag) == Cell(tag, 9)
SubBlocks == <<Cell("1", 1), Byte("trailer"), Cell("2", 2), Byte("extension"), Byte("control"), Cell("0", 0)>>
GifBlocks ==
  {<<Byte("extension"), Byte("control"), Byte("clear")>>, <<Byte("extension"), Byte("control"), Byte("opaque")>>,
   <<Byte("extension"), Byte("control"), Byte("odd")>>,
   <<Byte("extension"), Byte("comment")>> \o SubBlocks,
   <<Byte("image"), Byte("codesize")>> \o SubBlocks,
   <<Byte("tabled"), Byte("trailer"), Byte("codesize")>> \o SubBlocks,
   <<Byte("trailer")>>, <<Byte("other")>>, <<>>}

(* Where the sub-blocks from an offset on end, or -1. *)
SkipSubBlocks(cells, from) ==
  LET At[o \in 0..Len(cells)] ==
        IF o = Len(cells) THEN -1
        ELSE LET next == o + 1 + cells[o + 1].n
             IN  IF cells[o + 1].n = 0 THEN next ELSE IF next > Len(cells) THEN -1 ELSE At[next]
  IN  At[from]

GifAlpha(cells) ==
  LET At[o \in 0..Len(cells)] ==
        LET sub(from) ==
              LET next == IF from > Len(cells) THEN -1 ELSE SkipSubBlocks(cells, from)
              IN  IF next < 0 THEN "unknown" ELSE At[next]
        IN  IF o = Len(cells) THEN "unknown"
            ELSE CASE cells[o + 1].tag = "trailer" -> "no"
                   [] cells[o + 1].tag = "extension" /\ o + 2 <= Len(cells) ->
                        IF cells[o + 2].tag # "control" THEN sub(o + 2)
                        ELSE IF o + 3 > Len(cells) THEN "unknown"
                        ELSE IF cells[o + 3].tag = "clear" THEN "yes"
                        ELSE IF cells[o + 3].tag = "opaque" THEN At[o + 3]
                        ELSE "unknown"
                   [] cells[o + 1].tag = "image" -> sub(o + 2)
                   [] cells[o + 1].tag = "tabled" -> sub(o + 3)
                   [] OTHER -> "unknown"
  IN  At[0]

-----------------------------------------------------------------------------
(* inspectWebP behind the "RIFF" cells. A chunk is a type and a length, its *)
(* data and, if the length is odd, a padding of zero.                       *)
Pad(zero) == Cell(IF zero THEN "zero" ELSE "x", 9)
Chunk(type, data, zero) ==
  <<Cell(type, 9), Cell("length", Len(data))>> \o data \o IF Len(data) % 2 = 1 THEN <<Pad(zero)>> ELSE <<>>
Frame(good) == <<Cell(IF good THEN "frame" ELSE "x", 9), Cell("VP8", 9), Cell("length", 2), Cell("frame", 9)>>
Profile(zero) == Chunk("ICCP", <<Cell("VP8", 9), Cell("length", 2), Cell("frame", 9)>>, zero)
Picture(good) == Chunk("VP8", Frame(good), TRUE)

(* An animation frame has a header of its own, two cells long, before the   *)
(* chunks it holds.                                                         *)
Animation(held) == Chunk("ANMF", <<Cell("x", 9), Cell("x", 9)>> \o held, TRUE)

Held == {<<>>, Picture(TRUE), Picture(FALSE), Profile(TRUE), Profile(FALSE) \o Picture(TRUE), Profile(TRUE) \o Picture(TRUE)}
WebPChunks ==
  {Picture(TRUE), Picture(FALSE), Profile(TRUE), Profile(FALSE), <<>>} \cup {Animation(h) : h \in Held}

(* The end of the chunk at an offset with its padding, or -1 when it does   *)
(* not end where it should.                                                 *)
PaddedEnd(cells, o, end) ==
  LET n == cells[o + 2].n
      padded == o + 2 + n + (n % 2)
  IN  IF padded > end \/ padded > Len(cells) \/ (n % 2 = 1 /\ cells[padded].tag # "zero") THEN -1
      ELSE padded

ValidFrame(cells, o) == cells[o + 2].n >= 2 /\ cells[o + 3].tag = "frame"

(* Is there a picture between an offset and the end of what holds it? *)
HasImageChunk(cells, from, riffEnd) ==
  LET At[p \in (0..Len(cells)) \X (0..Len(cells))] ==
        LET o == p[1]
            end == p[2]
        IN  IF o + 2 > end \/ PaddedEnd(cells, o, end) < 0 THEN FALSE
            ELSE IF cells[o + 1].tag = "VP8" THEN ValidFrame(cells, o)
            ELSE \/ /\ cells[o + 1].tag = "ANMF" /\ cells[o + 2].n > 2
                    /\ At[<<o + 4, o + 2 + cells[o + 2].n>>]
                 \/ At[<<PaddedEnd(cells, o, end), end>>]
  IN  At[<<from, riffEnd>>]

(* An extended file announces whether it has alpha and must hold a picture; *)
(* a simple one is a picture without alpha.                                 *)
WebP(cells, riffSize) ==
  IF Len(cells) < 2 \/ riffSize > Len(cells) \/ riffSize < 2 \/ riffSize % 2 = 1 \/ PaddedEnd(cells, 0, riffSize) < 0
  THEN "invalid"
  ELSE CASE cells[1].tag = "VP8X" /\ cells[2].n = 2 /\ HasImageChunk(cells, PaddedEnd(cells, 0, riffSize), riffSize) ->
              IF cells[3].tag = "alpha" THEN "yes" ELSE "no"
         [] cells[1].tag = "VP8" /\ ValidFrame(cells, 0) -> "no"
         [] OTHER -> "invalid"

-----------------------------------------------------------------------------
(* inspectSVG: the attributes of the root element in their order, lengths   *)
(* in quarters of a pixel. Relative is a length that is no number of pixels.*)
Relative == -1
Lengths == {Relative, 0, 1, 4, 6, LargestSide, LargestSide + 1}
NoBox == <<>>
Attributes ==
  [name : {"width", "height"}, value : Lengths]
    \cup [name : {"viewBox"}, value : {NoBox, <<4, 8>>, <<0, 4>>, <<4, LargestSide + 4>>}]

(* The last absolute value of an attribute counts. A box is appended to the *)
(* ones before it, unless it cannot be read: then none of them is left.     *)
Value(attributes, name) ==
  LET set == {i \in DOMAIN attributes : attributes[i].name = name /\ attributes[i].value # Relative}
  IN  IF set = {} THEN 0 ELSE attributes[Max(set)].value

Boxes(attributes) == {i \in DOMAIN attributes : attributes[i].name = "viewBox"}
Box(attributes) ==
  LET unreadable == {i \in Boxes(attributes) : attributes[i].value = NoBox}
  IN  FlattenSeq([i \in DOMAIN attributes |->
                    IF i \in Boxes(attributes) /\ \A j \in unreadable : i > j
                    THEN attributes[i].value ELSE NoBox])

Round(quarters) == (quarters + 2) \div 4

Unsized == <<0, 0>>

SvgSize(attributes) ==
  LET own == <<Value(attributes, "width"), Value(attributes, "height")>>
      size == IF (own[1] <= 0 \/ own[2] <= 0) /\ Len(Box(attributes)) = 2 THEN Box(attributes) ELSE own
  IN  IF \E i \in 1..2 : size[i] > LargestSide \/ Round(size[i]) <= 0 THEN Unsized
      ELSE <<Round(size[1]), Round(size[2])>>
-----------------------------------------------------------------------------
(* The images: a window of all cells but the last few, or an announced size *)
(* that is off.                                                             *)
Lists(blocks) == BoundedSeq(blocks \ {<<>>}, LongestImage)

Extended(alpha) == Chunk("VP8X", <<Cell(IF alpha THEN "alpha" ELSE "x", 9), Cell("x", 9)>>, TRUE)
FirstChunks == {Extended(TRUE), Extended(FALSE), Picture(TRUE), Picture(FALSE), Profile(TRUE)}

Images ==
  [kind : {"png"}, alpha : BOOLEAN, chunks : Lists(PngChunks), cut : 0..4]
  \cup [kind : {"gif"}, blocks : Lists(GifBlocks), cut : 0..4]
  \cup [kind : {"webp"}, first : FirstChunks, chunks : Lists(WebPChunks), cut : 0..4, off : {0}]
  \cup [kind : {"webp"}, first : FirstChunks, chunks : Lists(WebPChunks), cut : {0}, off : {-2, -1, 2}]
  \cup [kind : {"svg"}, attributes : Lists(Attributes)]

ImageCells(image) ==
  CASE image.kind = "png" -> Cells(image.chunks)
    [] image.kind = "gif" -> Cells(image.blocks)
    [] image.kind = "webp" -> image.first \o Cells(image.chunks)

(* inspectImage: what is said of the cells that were read. *)
InspectImage(image) ==
  IF image.kind = "svg" THEN SvgSize(image.attributes)
  ELSE LET read == Windowed(ImageCells(image), image.cut)
       IN  CASE image.kind = "png" -> PngAlpha(read, image.alpha)
             [] image.kind = "gif" -> GifAlpha(read)
             [] image.kind = "webp" -> WebP(read, Len(ImageCells(image)) + image.off)

-----------------------------------------------------------------------------
(* The same, of the chunks the cells were made from: the first of them that *)
(* settles it.                                                              *)
First(list, settling, answer(_), otherwise) ==
  LET settled == {i \in DOMAIN list : list[i] \in settling}
  IN  IF settled = {} THEN otherwise ELSE answer(list[Min(settled)])

PngTruth(image) ==
  First(image.chunks, {c \in PngChunks : c # <<>> /\ c[1].tag \in {"tRNS", "IEND"}},
        LAMBDA c : IF c[1].tag = "tRNS" \/ image.alpha THEN "yes" ELSE "no", "unknown")

GifTruth(image) ==
  First(image.blocks, {b \in GifBlocks : b # <<>> /\ b[Len(b)].tag \in {"clear", "odd", "trailer", "other"}},
        LAMBDA b : [clear |-> "yes", odd |-> "unknown", trailer |-> "no", other |-> "unknown"][b[Len(b)].tag],
        "unknown")

HoldsPicture == {Picture(TRUE), Animation(Picture(TRUE)), Animation(Profile(TRUE) \o Picture(TRUE))}
WebPTruth(image) ==
  IF image.first \in {Extended(TRUE), Extended(FALSE)}
  THEN First(image.chunks, HoldsPicture \cup {Picture(FALSE), Profile(FALSE)},
             LAMBDA c : IF c \notin HoldsPicture THEN "invalid"
                        ELSE IF image.first = Extended(TRUE) THEN "yes" ELSE "no", "invalid")
  ELSE IF image.first = Picture(TRUE) THEN "no" ELSE "invalid"

(* What is said of a whole image is what its chunks say, whatever their data *)
(* look like, and what is said of a window is that, or nothing. The size of  *)
(* an SVG image is no mixture: it is an absolute width and height, or the    *)
(* box where one of them is missing, and a single box that fits is enough.   *)
SizeIsHonest(image, size) ==
  LET values(name) == {a \in ToSet(image.attributes) : a.name = name}
      missing == \E name \in {"width", "height"} : Value(image.attributes, name) <= 0
      fits(b) == \A i \in 1..2 : b[i] <= LargestSide /\ Round(b[i]) > 0
  IN  /\ size # Unsized =>
           \/ missing /\ \E b \in values("viewBox") :
                 b.value # NoBox /\ fits(b.value) /\ size = <<Round(b.value[1]), Round(b.value[2])>>
           \/ \E w \in values("width"), h \in values("height") :
                 fits(<<w.value, h.value>>) /\ size = <<Round(w.value), Round(h.value)>>
      /\ missing /\ Cardinality(Boxes(image.attributes)) = 1 =>
           \A b \in values("viewBox") : b.value # NoBox /\ fits(b.value) => size # Unsized

Truth(image) ==
  CASE image.kind = "png" -> PngTruth(image)
    [] image.kind = "gif" -> GifTruth(image)
    [] image.kind = "webp" -> WebPTruth(image)

ImageIsHonest(image, answer) ==
  IF image.kind = "svg" THEN SizeIsHonest(image, answer)
  ELSE /\ answer \in {"unknown", "invalid", Truth(image)}
       /\ image.cut = 0 /\ (image.kind = "webp" => image.off = 0) => answer = Truth(image)
=============================================================================
