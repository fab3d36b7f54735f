----------------------------- MODULE TextFacts -----------------------------
(***************************************************************************)
(* What is said of a text: that it is one, how it is encoded, how its      *)
(* lines end and how many there are. Identity is read off the header of a  *)
(* file, the rest off a larger window, and both may end in the middle of a *)
(* character or of a line end.                                             *)
(*                                                                         *)
(* A text is its characters and the encoding that makes them bytes; the    *)
(* bytes are told apart as far as the code does. A wide character is two   *)
(* bytes of UTF-8 and, in the other encodings, a character whose bytes all *)
(* look like a line feed; a stray one is no character of its encoding.     *)
(***************************************************************************)
EXTENDS Integers, SequencesExt

CONSTANTS HeaderBytes,  \* the header, 64 KiB
          WindowBytes,  \* MaxTextBytes
          Paddings, LongestText,    \* bounds: plain characters, and any characters behind them
          LongestPointer            \* bound: lines of a Git LFS pointer

(* The header holds the longest byte order mark. *)
ASSUME TextAssumption ==
  /\ HeaderBytes \in Nat /\ HeaderBytes >= 4 /\ WindowBytes \in Nat /\ HeaderBytes <= WindowBytes
  /\ Paddings \subseteq Nat /\ LongestText \in Nat /\ LongestPointer \in Nat

Characters == {"t", "lf", "cr", "wide", "ctl", "nul", "stray"}

(* The byte order marks, in the order of decodeText. *)
Marks ==
  <<[encoding |-> "utf-8",    mark |-> <<"ef", "bb", "bf">>,         width |-> 1, little |-> FALSE],
    [encoding |-> "utf-32le", mark |-> <<"ff", "fe", "nul", "nul">>, width |-> 4, little |-> TRUE],
    [encoding |-> "utf-32be", mark |-> <<"nul", "nul", "fe", "ff">>, width |-> 4, little |-> FALSE],
    [encoding |-> "utf-16le", mark |-> <<"ff", "fe">>,               width |-> 2, little |-> TRUE],
    [encoding |-> "utf-16be", mark |-> <<"fe", "ff">>,               width |-> 2, little |-> FALSE]>>

Unmarked == [encoding |-> "utf-8", mark |-> <<>>, width |-> 1, little |-> FALSE]

(* The bytes of a character: of UTF-8, or of a unit of the given width.     *)
Bytes1 == [t |-> <<"t">>, lf |-> <<"lf">>, cr |-> <<"cr">>, wide |-> <<"lead", "cont">>,
           ctl |-> <<"ctl">>, nul |-> <<"nul">>, stray |-> <<"cont">>]
Unit(c, form) ==
  LET lowest == IF form.little THEN 1 ELSE form.width
      fill == CASE c = "wide" -> "lf" [] c = "stray" -> "cont" [] OTHER -> "nul"
  IN  [i \in 1..form.width |-> IF i = lowest /\ c \notin {"wide", "stray"} THEN c ELSE fill]
Encode(chars, form) ==
  form.mark \o FlattenSeq([i \in DOMAIN chars |->
                             IF form.width = 1 THEN Bytes1[chars[i]] ELSE Unit(chars[i], form)])

Padded(n, chars) == [i \in 1..n |-> "t"] \o chars

(* The texts, and whether the system's "file" program takes them for text.  *)
Texts ==
  [kind : {"text"}, form : {Unmarked} \cup {Marks[i] : i \in DOMAIN Marks},
   chars : {Padded(n, s) : n \in Paddings, s \in BoundedSeq(Characters, LongestText)},
   system : BOOLEAN]

Size(text) == Len(Encode(text.chars, text.form))
Prefix(s, n) == SubSeq(s, 1, IF n < Len(s) THEN n ELSE Len(s))
FileHeader(text) == Prefix(Encode(text.chars, text.form), HeaderBytes)
Window(text) == Prefix(Encode(text.chars, text.form), WindowBytes)

-----------------------------------------------------------------------------
ValidUtf8(b) ==
  \A i \in DOMAIN b :
    /\ b[i] \notin {"ff", "fe"}
    /\ b[i] = "lead" => i < Len(b) /\ b[i + 1] = "cont"
    /\ b[i] = "cont" => i > 1 /\ b[i - 1] = "lead"
    /\ b[i] = "ef" => i + 1 < Len(b) /\ b[i + 1] = "bb" /\ b[i + 2] = "bf"

Has(b, byte) == \E i \in DOMAIN b : b[i] = byte

(* Two bytes are enough for an MP3 frame. *)
LooksLikeMP3Frame(b) == Len(b) >= 2 /\ b[1] = "ff" /\ b[2] \in {"ff", "fe"}

(* Less than two of a hundred characters are control characters. *)
ProbablyText(b) ==
  /\ b # <<>> /\ ~Has(b, "nul") /\ ValidUtf8(b)
  /\ LET count(class) == Cardinality({i \in DOMAIN b : b[i] \in class})
     IN  (count({"ctl"}) * 100) \div (Len(b) - count({"cont", "bb", "bf"})) < 2

(* Its kind: from the header or, where that says nothing, from the system.  *)
Sniff(text) ==
  IF LooksLikeMP3Frame(FileHeader(text)) THEN "audio"
  ELSE IF ProbablyText(FileHeader(text)) THEN "text"
  ELSE "unknown"

Identified(text) == IF Sniff(text) = "unknown" /\ text.system THEN "text" ELSE Sniff(text)

-----------------------------------------------------------------------------
(* The mark a window begins with, or 0. *)
MarkOf(b) == SelectInSeq(Marks, LAMBDA m : IsPrefix(m.mark, b))

(* The characters of whole units, as far as line ends tell them apart.      *)
DecodeUnits(b, form) ==
  [k \in 1..(Len(b) \div form.width) |->
     LET unit == SubSeq(b, (k - 1) * form.width + 1, k * form.width)
         lowest == IF form.little THEN 1 ELSE form.width
     IN  IF \A i \in DOMAIN unit \ {lowest} : unit[i] = "nul" THEN unit[lowest] ELSE "other"]

Unread == [encoding |-> "unknown", certainty |-> "unknown", decoded |-> <<>>]

DecodeText(b) ==
  IF MarkOf(b) > 0
  THEN LET form == Marks[MarkOf(b)]
           rest == SubSeq(b, Len(form.mark) + 1, Len(b))
       IN  [encoding |-> form.encoding, certainty |-> "exact",
            decoded |-> DecodeUnits(rest, form)]
  ELSE IF ValidUtf8(b) /\ ~Has(b, "nul")
  THEN [encoding |-> "utf-8", certainty |-> "probable", decoded |-> b]
  ELSE Unread

(* countLineEndings. *)
Positions(d, c) == {i \in DOMAIN d : d[i] = c}
CrLf(d) == {i \in Positions(d, "cr") : i < Len(d) /\ d[i + 1] = "lf"}

EndsLine(d) == d # <<>> /\ d[Len(d)] \in {"lf", "cr"}

LineEnding(d) ==
  LET crlf == Cardinality(CrLf(d))
      lf == Cardinality(Positions(d, "lf")) - crlf
      cr == Cardinality(Positions(d, "cr")) - crlf
  IN  IF Cardinality({k \in 1..3 : <<crlf, lf, cr>>[k] > 0}) > 1 THEN "mixed"
      ELSE CASE crlf > 0 -> "crlf" [] lf > 0 -> "lf" [] cr > 0 -> "cr" [] OTHER -> "none"

Lines(d) ==
  IF d = <<>> THEN 0
  ELSE Cardinality(Positions(d, "lf")) + Cardinality(Positions(d, "cr")) - Cardinality(CrLf(d))
         + IF EndsLine(d) THEN 0 ELSE 1

Unclaimed == -1

(* Mutant of InspectTextBytes: the count of a sample passes for the count.  *)
InspectTextBytesOfSample(b, truncated) ==
  LET d == DecodeText(b)
  IN  [encoding |-> d.encoding, certainty |-> d.certainty,
       ending |-> IF d.certainty = "unknown" THEN "" ELSE LineEnding(d.decoded),
       lines |-> IF d.certainty = "unknown" THEN Unclaimed ELSE Lines(d.decoded),
       final |-> IF d.certainty = "unknown" THEN {} ELSE {EndsLine(d.decoded)}]

(* A sample has neither a line count nor a final newline. *)
InspectTextBytes(b, truncated) ==
  LET d == DecodeText(b)
      counted == d.certainty # "unknown" /\ ~truncated
  IN  [encoding |-> d.encoding, certainty |-> d.certainty,
       ending |-> IF d.certainty = "unknown" THEN "" ELSE LineEnding(d.decoded),
       lines |-> IF counted THEN Lines(d.decoded) ELSE Unclaimed,
       final |-> IF counted THEN {EndsLine(d.decoded)} ELSE {}]

Truncated(text) == Size(text) > WindowBytes
TextInfo(text) == InspectTextBytes(Window(text), Truncated(text))

-----------------------------------------------------------------------------
(* inspectIndirection. The lines of a pointer, "ext" lines by the spelling  *)
(* of their priority; a line that is no such thing is another.              *)
Priority == [x \in {"ext-0", "ext-00", "ext-1"} |-> IF x = "ext-1" THEN 1 ELSE 0]
PointerLines == {"version", "oid", "size", "", "other"} \cup DOMAIN Priority

Pointers ==
  [kind : {"pointer"}, short : BOOLEAN, lines : BoundedSeq(PointerLines, LongestPointer)]

IsPointer(file) ==
  LET n == Len(file.lines)
  IN  /\ file.short /\ n >= 3 /\ file.lines[1] = "version"
      /\ \A i \in 2..(n - 2) :
           /\ file.lines[i] \in DOMAIN Priority
           /\ \A j \in 2..(i - 1) : Priority[file.lines[j]] # Priority[file.lines[i]]
      /\ file.lines[n - 1] = "oid" /\ file.lines[n] = "size"

-----------------------------------------------------------------------------
(* The text as its author sees it: a line ends at a line feed, and at a     *)
(* carriage return that no line feed follows.                               *)
LineEnds(c) == {i \in DOMAIN c : c[i] = "lf" \/ (c[i] = "cr" /\ i \notin CrLf(c))}
Endings(c) ==
  {IF c[i] = "cr" THEN "cr" ELSE IF i > 1 /\ c[i - 1] = "cr" THEN "crlf" ELSE "lf" : i \in LineEnds(c)}
AllLines(c) == Cardinality({0} \cup LineEnds(c)) - IF c = <<>> \/ Len(c) \in LineEnds(c) THEN 1 ELSE 0

(* The window, or the header, ends inside a character or a line end.        *)
CutsCharacter(bytes, n) == n < Len(bytes) /\ bytes[n] = "lead"
CutsLineEnd(text) ==
  (WindowBytes - Len(text.form.mark)) \div text.form.width
    \in CrLf(DecodeUnits(Encode(text.chars, [text.form EXCEPT !.mark = <<>>]), text.form))

Proper(text) == text.chars # <<>> /\ \A i \in DOMAIN text.chars : text.chars[i] \in {"t", "lf", "cr", "wide"}

(* Proper UTF-8 text is taken for text, but where the header ends inside a   *)
(* character; and what the header shows to be text can be read as text,      *)
(* unless something behind the header is none or the window ends inside a    *)
(* character.                                                               *)
IdentityIsHonest(text, kind, info) ==
  LET bytes == Encode(text.chars, text.form)
  IN  /\ Proper(text) /\ text.form.encoding = "utf-8" /\ ~CutsCharacter(bytes, HeaderBytes) =>
           kind = "text"
      /\ kind = "text" /\ ~text.system /\ info.certainty = "unknown" =>
           \/ Has(text.chars, "nul") \/ Has(text.chars, "stray")
           \/ CutsCharacter(bytes, WindowBytes)

(* A text that was read whole has the lines, the line endings and the final  *)
(* newline its author sees; a sample has no count, and shows no line ending  *)
(* the text does not have, unless it ends between CR and LF. (FF FE 00 00    *)
(* begins a UTF-32 text and a UTF-16 text whose first character is NUL.)     *)
ReadingIsHonest(text, info) ==
  LET c == text.chars
      ambiguous == text.form.encoding = "utf-16le" /\ c # <<>> /\ c[1] = "nul"
  IN  info.certainty # "unknown" /\ ~ambiguous =>
        /\ info.encoding = text.form.encoding
        /\ ~Truncated(text) =>
             /\ info.lines = AllLines(c)
             /\ info.final = {c # <<>> /\ Len(c) \in LineEnds(c)}
             /\ info.ending = CASE Endings(c) = {} -> "none"
                                [] Cardinality(Endings(c)) > 1 -> "mixed"
                                [] OTHER -> CHOOSE e \in Endings(c) : TRUE
        /\ Truncated(text) =>
             /\ info.lines = Unclaimed /\ info.final = {}
             /\ \/ CutsLineEnd(text)
                \/ info.ending \in {"none"} \cup Endings(c)
                \/ info.ending = "mixed" /\ Cardinality(Endings(c)) > 1

(* A pointer is a version, extensions of distinct priority, an object and a  *)
(* size, and nothing else is one.                                           *)
PointerIsHonest(file, found) ==
  found <=>
    /\ file.short
    /\ \E extensions \in BoundedSeq(DOMAIN Priority, LongestPointer) :
         /\ file.lines = <<"version">> \o extensions \o <<"oid", "size">>
         /\ Cardinality({Priority[extensions[i]] : i \in DOMAIN extensions}) = Len(extensions)
=============================================================================
