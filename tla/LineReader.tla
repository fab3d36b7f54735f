----------------------------- MODULE LineReader -----------------------------
(***************************************************************************)
(* ReadRequestLine: one line of input, read in buffer-sized pieces against *)
(* a budget. Both line-oriented servers read their requests through it. A  *)
(* byte is text, a carriage return or a line feed; the specification that  *)
(* composes this module says when a line is wanted.                        *)
(***************************************************************************)
EXTENDS Integers, Sequences

CONSTANTS Limit,        \* bytes a request may have, without its line ending
          BufferBytes,  \* bytes the buffered reader hands over at most
          LongestLine   \* bound: bytes before the last piece of a line

ASSUME ReaderAssumption ==
  Limit \in Nat /\ BufferBytes \in Nat \ {0} /\ LongestLine \in Nat

VARIABLES kept,         \* the line so far
          overflow,     \* the line is over the budget, its rest is drained
          raw,          \* every byte read since the line began
          inputEnded,   \* end of file has been seen
          got           \* what the last call returned

readerVars == <<kept, overflow, raw, inputEnded, got>>

Text  == {"x", "cr"}
Bytes == Text \cup {"lf"}
TooLarge == <<"tooLarge">>

UpTo(n) == UNION {[1..k -> Text] : k \in 0..n}

(* What ReadSlice('\n') can return: a piece up to the delimiter, a full     *)
(* buffer without one, or the rest of the input with io.EOF.                *)
Delimited == {Append(s, "lf") : s \in UpTo(BufferBytes - 1)}
FullBuffer == [1..BufferBytes -> Text]
LastPiece == IF inputEnded THEN {<<>>} ELSE UpTo(BufferBytes)

TrimSuffix(s, b) ==
  IF s # <<>> /\ s[Len(s)] = b THEN SubSeq(s, 1, Len(s) - 1) ELSE s

TrimLineEnding(s) == TrimSuffix(TrimSuffix(s, "lf"), "cr")

(* Mutant of OverflowWith: the budget applies to the line ending as well.  *)
OverflowOfWholeLine(chunk) == overflow \/ Len(kept) + Len(chunk) > Limit

(* The two extra bytes leave room for a CRLF, so that the budget applies to *)
(* the request alone.                                                       *)
OverflowWith(chunk) == overflow \/ Len(kept) + Len(chunk) > Limit + 2

KeptWith(chunk) == IF OverflowWith(chunk) THEN <<>> ELSE kept \o chunk

LineWith(chunk) ==
  LET line == TrimLineEnding(KeptWith(chunk))
  IN  IF OverflowWith(chunk) \/ Len(line) > Limit THEN TooLarge ELSE line

ReaderInit ==
  /\ kept = <<>> /\ overflow = FALSE /\ raw = <<>>
  /\ inputEnded = FALSE
  /\ got = <<>>

(* The buffer is full and holds no delimiter: keep or drop the piece, read on. *)
ReadOn ==
  /\ ~inputEnded /\ Len(raw) + BufferBytes <= LongestLine
  /\ \E chunk \in FullBuffer :
       /\ kept' = KeptWith(chunk)
       /\ overflow' = OverflowWith(chunk)
       /\ raw' = raw \o chunk
  /\ UNCHANGED <<inputEnded, got>>

(* A delimiter or the end of the input ends the line; the call returns. The *)
(* next call starts with a line of its own.                                 *)
ReturnLine(chunk) ==
  /\ got' = LineWith(chunk)
  /\ raw' = raw \o chunk
  /\ kept' = <<>> /\ overflow' = FALSE

ReadToDelimiter ==
  /\ ~inputEnded
  /\ \E chunk \in Delimited : ReturnLine(chunk)
  /\ UNCHANGED inputEnded

ReadToEnd ==
  /\ \E chunk \in LastPiece : ReturnLine(chunk)
  /\ inputEnded' = TRUE

(* Nothing but white space (bytes.TrimSpace): such a line asks for nothing. *)
Blank(line) == \A i \in 1..Len(line) : line[i] = "cr"

(* The line the bytes since the last delimiter make, read without pieces.   *)
WholeLine ==
  LET line == TrimLineEnding(raw) IN IF Len(line) > Limit THEN TooLarge ELSE line
=============================================================================
