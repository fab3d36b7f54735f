--------------------------- MODULE AdapterProofs ---------------------------
(***************************************************************************)
(* Proofs about the line reader and the capability adapter, for every      *)
(* budget, buffer size, number of requests, tokens and slots.              *)
(***************************************************************************)
EXTENDS AdapterProps, Counting, SequenceTheorems

-----------------------------------------------------------------------------
(* TrimLineEnding takes at most two bytes off a line.                       *)
LEMMA TrimShortens ==
  ASSUME NEW s \in Seq(Bytes)
  PROVE  /\ TrimLineEnding(s) \in Seq(Bytes)
         /\ Len(TrimLineEnding(s)) \in Nat
         /\ Len(s) - 2 <= Len(TrimLineEnding(s)) /\ Len(TrimLineEnding(s)) <= Len(s)
<1>1. ASSUME NEW t \in Seq(Bytes), NEW b
      PROVE  /\ TrimSuffix(t, b) \in Seq(Bytes)
             /\ Len(t) - 1 <= Len(TrimSuffix(t, b)) /\ Len(TrimSuffix(t, b)) <= Len(t)
  <2>1. CASE t # <<>> /\ t[Len(t)] = b
    <3>1. Len(t) \in Nat /\ Len(t) # 0
      BY <2>1
    <3>2. SubSeq(t, 1, Len(t) - 1) \in Seq(Bytes) /\ Len(SubSeq(t, 1, Len(t) - 1)) = Len(t) - 1
      <4>1. 1 \in Int /\ Len(t) - 1 \in Int /\ \A i \in 1..(Len(t) - 1) : t[i] \in Bytes
        BY <3>1
      <4> DEFINE m == Len(t) - 1
      <4>2. SubSeq(t, 1, m) \in Seq(Bytes) /\ Len(SubSeq(t, 1, m)) = IF 1 <= m THEN m - 1 + 1 ELSE 0
        <5> HIDE DEF m
        <5>1. m \in Int /\ \A i \in 1..m : t[i] \in Bytes
          BY <4>1 DEF m
        <5> QED BY <4>1, <5>1, SubSeqProperties
      <4>3. m \in Nat
        BY <3>1
      <4>4. \A n \in Nat : (IF 1 <= n THEN n - 1 + 1 ELSE 0) = n
        OBVIOUS
      <4> HIDE DEF m
      <4>5. SubSeq(t, 1, m) \in Seq(Bytes) /\ Len(SubSeq(t, 1, m)) = m
        BY <4>2, <4>3, <4>4
      <4> QED BY <4>5 DEF m
    <3> QED BY <2>1, <3>1, <3>2 DEF TrimSuffix
  <2>2. CASE ~(t # <<>> /\ t[Len(t)] = b)
    BY <2>2 DEF TrimSuffix
  <2> QED BY <2>1, <2>2
<1>2. TrimSuffix(s, "lf") \in Seq(Bytes)
  BY <1>1
<1> QED BY <1>1, <1>2 DEF TrimLineEnding

(* Every piece is a sequence of bytes.                                      *)
LEMMA PiecesAreBytes ==
  /\ FullBuffer \subseteq Seq(Bytes)
  /\ Delimited \subseteq Seq(Bytes)
  /\ LastPiece \subseteq Seq(Bytes)
<1>1. ASSUME NEW k \in Nat, NEW s \in [1..k -> Text]
      PROVE  s \in Seq(Bytes)
  <2>1. s \in [1..k -> Bytes]
    BY DEF Bytes
  <2> QED BY <2>1
<1>2. ASSUME NEW n \in Nat PROVE UpTo(n) \subseteq Seq(Bytes)
  BY <1>1 DEF UpTo
<1>3. BufferBytes \in Nat /\ BufferBytes - 1 \in Nat /\ "lf" \in Bytes
  BY ReaderAssumption DEF Bytes
<1>4. FullBuffer \subseteq Seq(Bytes)
  BY <1>1, <1>3 DEF FullBuffer
<1>5. Delimited \subseteq Seq(Bytes)
  BY <1>2, <1>3 DEF Delimited
<1>6. LastPiece \subseteq Seq(Bytes)
  <2>1. <<>> \in Seq(Bytes)
    OBVIOUS
  <2> QED BY <1>2, <1>3, <2>1 DEF LastPiece
<1> QED BY <1>4, <1>5, <1>6

(* A line that was dropped is over the budget even without its ending, and  *)
(* one that was kept is the whole of its bytes: the last piece decides as   *)
(* the whole line would.                                                    *)
LEMMA LineReturnedIsWhole ==
  ASSUME IInv, server = "reading", NEW chunk \in Seq(Bytes), ReturnLine(chunk)
  PROVE  /\ got' = WholeLine' /\ raw' \in Seq(Bytes) /\ got' \in Seq(Bytes) \cup {TooLarge}
         /\ kept' = <<>> /\ ~overflow'
<1>1. kept \in Seq(Bytes) /\ raw \in Seq(Bytes) /\ Limit \in Nat /\ overflow \in BOOLEAN
  BY ReaderAssumption DEF IInv, TypeOK
<1>2. raw' = raw \o chunk /\ raw' \in Seq(Bytes) /\ Len(raw') = Len(raw) + Len(chunk)
      /\ Len(chunk) \in Nat /\ Len(raw) \in Nat
  BY <1>1 DEF ReturnLine
<1>3. CASE OverflowWith(chunk)
  <2>1. Len(raw') > Limit + 2
    <3>1. CASE overflow
      BY <1>1, <1>2, <3>1 DEF IInv, ReaderFacts
    <3>2. CASE ~overflow
      <4>1. kept = raw
        BY <3>2 DEF IInv, ReaderFacts
      <4> QED BY <1>2, <1>3, <3>2, <4>1 DEF OverflowWith
    <3> QED BY <3>1, <3>2
  <2>2. Len(TrimLineEnding(raw')) > Limit
    <3>1. Len(TrimLineEnding(raw')) \in Nat /\ Len(raw') - 2 <= Len(TrimLineEnding(raw'))
      BY <1>2, TrimShortens
    <3> QED BY <1>1, <1>2, <2>1, <3>1
  <2>3. WholeLine' = TooLarge
    BY <2>2 DEF WholeLine
  <2>4. got' = TooLarge
    BY <1>3 DEF ReturnLine, LineWith
  <2> QED BY <1>2, <2>3, <2>4 DEF ReturnLine
<1>4. CASE ~OverflowWith(chunk)
  <2>1. KeptWith(chunk) = raw'
    BY <1>2, <1>4 DEF KeptWith, OverflowWith, IInv, ReaderFacts
  <2>2. got' = WholeLine'
    BY <1>4, <2>1 DEF ReturnLine, LineWith, WholeLine
  <2>3. WholeLine' \in Seq(Bytes) \cup {TooLarge}
    BY <1>2, TrimShortens DEF WholeLine
  <2> QED BY <1>2, <2>2, <2>3 DEF ReturnLine
<1> QED BY <1>3, <1>4

-----------------------------------------------------------------------------
(* The invariant's conjuncts about the reader.                              *)
ReaderPart ==
  /\ server \in {"reading", "dispatching", "draining", "returned"}
  /\ eof \in BOOLEAN /\ inputEnded \in BOOLEAN /\ overflow \in BOOLEAN
  /\ kept \in Seq(Bytes) /\ raw \in Seq(Bytes) /\ got \in Seq(Bytes) \cup {TooLarge}
  /\ ReaderFacts /\ FramingExact
  /\ server = "returned" => wg = 0

(* The invariant's conjuncts about the requests.                            *)
RequestPart ==
  /\ admission \in 0..MaxAdmitted /\ slots \in 0..MaxConcurrent /\ wg \in Nat
  /\ phase \in [Requests -> Phases]
  /\ expired \subseteq Requests /\ open \subseteq Requests
  /\ reply \in [Requests -> Codes \cup {"none"}]
  /\ Accounting
  /\ open = In({"working", "closing"})
  /\ \A r \in Requests : reply[r] # "none" <=> phase[r] \in DecidedPhases

(* The invariant is what concerns the reader and what concerns the          *)
(* requests.                                                                *)
LEMMA Parts ==
  /\ IInv <=> ReaderPart /\ RequestPart
  /\ IInv' <=> ReaderPart' /\ RequestPart'
BY DEF IInv, TypeOK, ReaderPart, RequestPart

(* The invariant holds before a line is read. *)
LEMMA InitIInv == Init => IInv
<1> SUFFICES ASSUME Init PROVE IInv
  OBVIOUS
<1>1. ReaderPart
  <2>1. <<>> \in Seq(Bytes)
    OBVIOUS
  <2> QED BY <2>1 DEF Init, ReaderInit, ReaderPart, ReaderFacts, FramingExact
<1>2. RequestPart
  <2>1. In(AdmittedPhases) = {} /\ In(HoldingPhases) = {} /\ In(CountedPhases) = {}
        /\ In({"working", "closing"}) = {}
    BY DEF Init, In, AdmittedPhases, HoldingPhases, CountedPhases
  <2>2. Accounting
    BY <2>1, FS_EmptySet DEF Init, Accounting
  <2> QED
    BY <2>1, <2>2, AdapterAssumption DEF Init, RequestPart, Phases, DecidedPhases, AnsweredPhases
<1> QED BY <1>1, <1>2, Parts

(* What moving one request between phases does to the number of requests in *)
(* P.                                                                       *)
Change(P, from, to) ==
  IF from \notin P /\ to \in P THEN 1 ELSE IF from \in P /\ to \notin P THEN -1 ELSE 0

(* How many requests are in a phase changes with the one that moves, *)
LEMMA RequestCount ==
  ASSUME NEW P, NEW r \in Requests, \A q \in Requests : q # r => phase'[q] = phase[q]
  PROVE  /\ Cardinality(In(P)) \in Nat
         /\ (phase[r] \in P <=> phase'[r] \in P) => Cardinality(In(P)') = Cardinality(In(P))
         /\ phase[r] \notin P /\ phase'[r] \in P => Cardinality(In(P)') = Cardinality(In(P)) + 1
         /\ phase[r] \in P /\ phase'[r] \notin P =>
              /\ Cardinality(In(P)') = Cardinality(In(P)) - 1
              /\ Cardinality(In(P)) > 0
<1>1. In(P) = Where(Requests, phase, P) /\ In(P)' = Where(Requests, phase', P)
  BY DEF In, Where
<1>2. /\ Cardinality(Where(Requests, phase, P)) \in Nat
      /\ (phase[r] \in P <=> phase'[r] \in P) =>
           Cardinality(Where(Requests, phase', P)) = Cardinality(Where(Requests, phase, P))
      /\ phase[r] \notin P /\ phase'[r] \in P =>
           Cardinality(Where(Requests, phase', P)) = Cardinality(Where(Requests, phase, P)) + 1
      /\ phase[r] \in P /\ phase'[r] \notin P =>
           /\ Cardinality(Where(Requests, phase', P)) = Cardinality(Where(Requests, phase, P)) - 1
           /\ Cardinality(Where(Requests, phase, P)) > 0
  BY CountMoves, AdapterAssumption, Zenon
<1> QED BY <1>1, <1>2, Zenon

(* and by as much as that one enters or leaves. *)
LEMMA PhaseCount ==
  ASSUME NEW P, NEW r \in Requests, NEW to, phase \in [Requests -> Phases],
         phase' = [phase EXCEPT ![r] = to]
  PROVE  Cardinality(In(P)') = Cardinality(In(P)) + Change(P, phase[r], to)
<1>1. phase'[r] = to /\ \A q \in Requests : q # r => phase'[q] = phase[q]
  OBVIOUS
<1> QED BY <1>1, RequestCount DEF Change

(* A step takes one request between two phases, and the channels, the wait  *)
(* group, the descriptors and the answer follow.                            *)
Moved(r, from, to) ==
  /\ phase[r] = from /\ phase' = [phase EXCEPT ![r] = to]
  /\ admission' = admission + Change(AdmittedPhases, from, to)
  /\ slots' = slots + Change(HoldingPhases, from, to)
  /\ wg' = wg + Change(CountedPhases, from, to)
  /\ admission' <= MaxAdmitted /\ slots' <= MaxConcurrent
  /\ open' = IF to \in {"working", "closing"} THEN open \cup {r} ELSE open \ {r}
  /\ expired' \subseteq Requests
  /\ reply' \in [Requests -> Codes \cup {"none"}]
  /\ \A q \in Requests : q # r => reply'[q] = reply[q]
  /\ reply'[r] # "none" <=> to \in DecidedPhases

(* A request that moves as its code allows leaves the requests in order. *)
LEMMA RequestMoves ==
  ASSUME RequestPart, NEW r \in Requests, NEW from, NEW to \in Phases, Moved(r, from, to)
  PROVE  RequestPart'
<1> USE DEF Moved
<1>1. phase \in [Requests -> Phases]
  BY DEF RequestPart
<1>2. Accounting'
  BY <1>1, PhaseCount DEF RequestPart, Accounting
<1>3. /\ Cardinality(In(AdmittedPhases)') \in Nat
      /\ Cardinality(In(HoldingPhases)') \in Nat
      /\ Cardinality(In(CountedPhases)') \in Nat
  <2>1. \A P : IsFiniteSet(In(P)')
    BY FS_Subset, AdapterAssumption DEF In
  <2> QED BY <2>1, FS_CardinalityType
<1>4. admission' \in 0..MaxAdmitted /\ slots' \in 0..MaxConcurrent /\ wg' \in Nat
  BY <1>2, <1>3, AdapterAssumption DEF Accounting
<1>5. open' = In({"working", "closing"})'
  BY <1>1 DEF RequestPart, In
<1>6. \A q \in Requests : reply'[q] # "none" <=> phase'[q] \in DecidedPhases
  BY <1>1 DEF RequestPart
<1>7. phase' \in [Requests -> Phases] /\ open' \subseteq Requests
  BY <1>1 DEF RequestPart
<1> QED BY <1>2, <1>4, <1>5, <1>6, <1>7 DEF RequestPart

(* A reader's part that no step of a request touches: serve has not         *)
(* returned while a request is at work.                                     *)
LEMMA ServingKeepsReader ==
  ASSUME IInv, Serving, NEW r \in Requests, phase[r] \in CountedPhases
  PROVE  ReaderPart'
<1>1. wg # 0
  <2>1. IsFiniteSet(In(CountedPhases)) /\ r \in In(CountedPhases)
    BY FS_Subset, AdapterAssumption DEF In
  <2>2. Cardinality(In(CountedPhases)) # 0
    BY <2>1, FS_EmptySet
  <2> QED BY <2>2 DEF IInv, Accounting
<1>2. server # "returned"
  BY <1>1 DEF IInv
<1> QED
  BY <1>2, Parts DEF ReaderPart, Serving, readerVars, ReaderFacts, FramingExact, WholeLine

-----------------------------------------------------------------------------
(* After a dispatched line the reader starts from nothing.                  *)
LEMMA NextLineKeeps ==
  ASSUME IInv, server = "dispatching", NextLine
  PROVE  ReaderPart'
<1>1. server' \in {"reading", "draining"} /\ kept' = <<>> /\ ~overflow' /\ overflow' \in BOOLEAN
  BY DEF NextLine, IInv, TypeOK, ReaderFacts
<1>2. raw' = <<>> /\ got' = <<>> /\ <<>> \in Seq(Bytes)
  BY DEF NextLine
<1>3. eof' \in BOOLEAN /\ inputEnded' \in BOOLEAN
  BY DEF NextLine, IInv, TypeOK
<1> QED BY <1>1, <1>2, <1>3 DEF ReaderPart, ReaderFacts, FramingExact

(* Reading a line keeps the invariant.                                      *)
LEMMA ReadingKeeps ==
  ASSUME IInv, ReadMore \/ LineArrives \/ InputEnds \/ ReadFails \/ ServeReturns \/ SkipBlank
  PROVE  IInv'
<1> USE DEF readerVars, adapterVars
<1>1. RequestPart'
  <2>1. UNCHANGED <<admission, slots, wg, phase, expired, open, reply>>
    BY DEF ReadMore, LineArrives, InputEnds, ReadFails, ServeReturns, SkipBlank
  <2> QED BY <2>1, Parts DEF RequestPart, Accounting, In
<1>2. CASE ReadMore
  <2>1. PICK chunk \in FullBuffer :
          kept' = KeptWith(chunk) /\ overflow' = OverflowWith(chunk) /\ raw' = raw \o chunk
    BY <1>2 DEF ReadMore, ReadOn
  <2>2. chunk \in Seq(Bytes) /\ kept \in Seq(Bytes) /\ raw \in Seq(Bytes) /\ Limit \in Nat
        /\ overflow \in BOOLEAN
    BY PiecesAreBytes, ReaderAssumption DEF IInv, TypeOK
  <2>3. kept' \in Seq(Bytes) /\ raw' \in Seq(Bytes) /\ overflow' \in BOOLEAN
        /\ Len(raw') = Len(raw) + Len(chunk) /\ Len(chunk) \in Nat /\ Len(raw) \in Nat
    <3>1. kept \o chunk \in Seq(Bytes) /\ <<>> \in Seq(Bytes)
      BY <2>2
    <3> QED BY <2>1, <2>2, <3>1 DEF KeptWith, OverflowWith
  <2>4. server = "reading" /\ server' = "reading"
    BY <1>2 DEF ReadMore
  <2>5. IF overflow' THEN kept' = <<>> /\ Len(raw') > Limit + 2 ELSE kept' = raw'
    <3>1. IF overflow THEN Len(raw) > Limit + 2 ELSE kept = raw
      BY <2>4 DEF IInv, ReaderFacts
    <3>2. overflow' <=> overflow \/ Len(kept) + Len(chunk) > Limit + 2
      BY <2>1, <2>2 DEF OverflowWith
    <3>3. overflow' => kept' = <<>>
      BY <2>1 DEF KeptWith
    <3>4. ~overflow' => kept' = kept \o chunk
      BY <2>1 DEF KeptWith
    <3>5. CASE overflow'
      <4>1. Len(raw') > Limit + 2
        BY <2>2, <2>3, <3>1, <3>2, <3>5
      <4> QED BY <3>3, <3>5, <4>1
    <3>6. CASE ~overflow'
      <4>1. kept = raw
        BY <3>1, <3>2, <3>6
      <4> QED BY <2>1, <3>4, <3>6, <4>1
    <3> QED BY <3>5, <3>6
  <2>6. ReaderFacts' /\ FramingExact'
    BY <2>4, <2>5 DEF ReaderFacts, FramingExact
  <2>7. ReaderPart'
    BY <1>2, <2>3, <2>4, <2>6 DEF ReaderPart, ReadMore, ReadOn, IInv, TypeOK
  <2> QED BY <1>1, <2>7, Parts
<1>3. CASE LineArrives \/ InputEnds
  <2>1. PICK chunk \in Seq(Bytes) : ReturnLine(chunk)
    BY <1>3, PiecesAreBytes DEF LineArrives, InputEnds, ReadToDelimiter, ReadToEnd
  <2>2. server = "reading" /\ server' = "dispatching" /\ eof' \in BOOLEAN /\ inputEnded' \in BOOLEAN
    BY <1>3 DEF LineArrives, InputEnds, ReadToDelimiter, ReadToEnd, IInv, TypeOK
  <2>3. /\ got' = WholeLine' /\ raw' \in Seq(Bytes) /\ got' \in Seq(Bytes) \cup {TooLarge}
        /\ kept' = <<>> /\ ~overflow' /\ overflow' \in BOOLEAN /\ kept' \in Seq(Bytes)
    <3>1. <<>> \in Seq(Bytes) /\ overflow' = FALSE
      BY <2>1 DEF ReturnLine
    <3> QED BY <2>1, <2>2, <3>1, LineReturnedIsWhole
  <2>4. ReaderPart'
    BY <2>2, <2>3 DEF ReaderPart, ReaderFacts, FramingExact
  <2> QED BY <1>1, <2>4, Parts
<1>4. CASE ReadFails \/ ServeReturns
  <2>1. server' \in {"draining", "returned"} /\ (server' = "returned" => wg' = 0)
    BY <1>4 DEF ReadFails, ServeReturns
  <2>2. UNCHANGED <<eof, inputEnded, overflow, kept, raw, got>>
    BY <1>4 DEF ReadFails, ServeReturns
  <2>3. ReaderPart'
    BY <2>1, <2>2 DEF ReaderPart, ReaderFacts, FramingExact, IInv, TypeOK
  <2> QED BY <1>1, <2>3, Parts
<1>5. CASE SkipBlank
  BY <1>1, <1>5, NextLineKeeps, Parts DEF SkipBlank
<1> QED BY <1>2, <1>3, <1>4, <1>5

(* What the steps of a request rest on: integers, and whether its descriptor *)
(* is open.                                                                 *)
LEMMA RequestState ==
  ASSUME IInv, NEW r \in Requests
  PROVE  /\ admission \in Int /\ slots \in Int /\ wg \in Int
         /\ admission <= MaxAdmitted /\ slots <= MaxConcurrent
         /\ MaxAdmitted \in Int /\ MaxConcurrent \in Int
         /\ expired \subseteq Requests
         /\ reply \in [Requests -> Codes \cup {"none"}]
         /\ phase[r] \in {"working", "closing"} => r \in open
         /\ phase[r] \notin {"working", "closing"} => r \notin open
         /\ reply[r] # "none" <=> phase[r] \in DecidedPhases
BY AdapterAssumption DEF IInv, TypeOK, In

(* The counters' changes between the phases of a request.                   *)
LEMMA Changes ==
  /\ \A from \in HoldingPhases, to \in HoldingPhases :
       /\ Change(AdmittedPhases, from, to) = 0
       /\ Change(HoldingPhases, from, to) = 0
       /\ Change(CountedPhases, from, to) = 0
  /\ \A from \in {"decoding", "queued", "replying", "unadmitting"},
        to \in {"decoding", "queued", "replying", "unadmitting"} :
       /\ Change(AdmittedPhases, from, to) = 0
       /\ Change(HoldingPhases, from, to) = 0
       /\ Change(CountedPhases, from, to) = 0
  /\ Change(AdmittedPhases, "unread", "refused") = 0
  /\ Change(HoldingPhases, "unread", "refused") = 0
  /\ Change(CountedPhases, "unread", "refused") = 0
  /\ Change(AdmittedPhases, "unread", "decoding") = 1
  /\ Change(HoldingPhases, "unread", "decoding") = 0
  /\ Change(CountedPhases, "unread", "decoding") = 1
  /\ Change(AdmittedPhases, "queued", "opening") = 0
  /\ Change(HoldingPhases, "queued", "opening") = 1
  /\ Change(CountedPhases, "queued", "opening") = 0
  /\ Change(AdmittedPhases, "unslotting", "replying") = 0
  /\ Change(HoldingPhases, "unslotting", "replying") = -1
  /\ Change(CountedPhases, "unslotting", "replying") = 0
  /\ Change(AdmittedPhases, "unadmitting", "finishing") = -1
  /\ Change(HoldingPhases, "unadmitting", "finishing") = 0
  /\ Change(CountedPhases, "unadmitting", "finishing") = 0
  /\ Change(AdmittedPhases, "finishing", "done") = 0
  /\ Change(HoldingPhases, "finishing", "done") = 0
  /\ Change(CountedPhases, "finishing", "done") = -1
BY DEF Change, AdmittedPhases, HoldingPhases, CountedPhases

(* Dispatching a nonblank line keeps it: a refusal leaves the channels alone, *)
(* an admission takes a token that was free.                                *)
LEMMA DispatchKeeps ==
  ASSUME IInv, NEW r \in Requests, RefuseTooLarge(r) \/ RefuseFull(r) \/ Admit(r)
  PROVE  IInv'
<1>1. server = "dispatching" /\ NextLine /\ phase[r] = "unread"
  BY DEF RefuseTooLarge, RefuseFull, Admit, Refuse
<1>2. ReaderPart' /\ RequestPart
  BY <1>1, NextLineKeeps, Parts
<1>3. r \notin open
  BY <1>1, RequestState
<1>4. CASE RefuseTooLarge(r) \/ RefuseFull(r)
  <2>1. PICK code \in Codes : Refuse(r, code)
    BY <1>4 DEF RefuseTooLarge, RefuseFull, Codes
  <2>2. Moved(r, "unread", "refused")
    BY <1>1, <1>3, <2>1, RequestState, Changes DEF Refuse, Moved, Codes, DecidedPhases, AnsweredPhases
  <2> QED BY <1>2, <2>2, RequestMoves, Parts DEF Phases
<1>5. CASE Admit(r)
  <2>1. admission + 1 <= MaxAdmitted
    BY <1>5, RequestState DEF Admit
  <2>2. Moved(r, "unread", "decoding")
    BY <1>1, <1>3, <1>5, <2>1, RequestState, Changes DEF Admit, Moved, DecidedPhases, AnsweredPhases
  <2> QED BY <1>2, <2>2, RequestMoves, Parts DEF Phases
<1> QED BY <1>4, <1>5

-----------------------------------------------------------------------------
(* A request's own steps, each with what it does to the channels.           *)
LEMMA StepKeeps ==
  ASSUME IInv, NEW r \in Requests, NEW from \in CountedPhases, NEW to \in Phases,
         Moved(r, from, to), Serving
  PROVE  IInv'
<1>1. ReaderPart'
  BY ServingKeepsReader DEF Moved
<1>2. RequestPart'
  BY Parts, RequestMoves
<1> QED BY <1>1, <1>2, Parts

(* The phases a step starts from and leads to.                              *)
LEMMA PhaseSets ==
  /\ CountedPhases = {"opening", "working", "closing", "unslotting", "decoding", "queued",
                      "replying", "unadmitting", "finishing"}
  /\ CountedPhases \cup {"done"} \subseteq Phases
  /\ HoldingPhases = {"opening", "working", "closing", "unslotting"}
  /\ DecidedPhases = {"refused", "closing", "unslotting", "replying", "unadmitting", "finishing",
                      "done"}
BY DEF CountedPhases, AdmittedPhases, HoldingPhases, Phases, AnsweredPhases, DecidedPhases

(* The steps up to a slot keep the invariant. *)
LEMMA QueueStepsKeep ==
  ASSUME IInv, NEW r \in Requests,
         DecodeInvalid(r) \/ DecodeValid(r) \/ AcquireSlot(r) \/ AbandonQueue(r)
  PROVE  IInv'
<1> USE RequestState, Changes, PhaseSets DEF Moved, Step, Answer, Codes
<1>1. CASE DecodeInvalid(r)
  <2>1. Moved(r, "decoding", "replying") /\ Serving
    BY <1>1 DEF DecodeInvalid
  <2> QED BY <2>1, StepKeeps
<1>2. CASE DecodeValid(r)
  <2>1. Moved(r, "decoding", "queued") /\ Serving
    BY <1>2 DEF DecodeValid
  <2> QED BY <2>1, StepKeeps
<1>3. CASE AcquireSlot(r)
  <2>1. Moved(r, "queued", "opening") /\ Serving
    BY <1>3 DEF AcquireSlot
  <2> QED BY <2>1, StepKeeps
<1>4. CASE AbandonQueue(r)
  <2>1. Moved(r, "queued", "replying") /\ Serving
    BY <1>4 DEF AbandonQueue
  <2> QED BY <2>1, StepKeeps
<1> QED BY <1>1, <1>2, <1>3, <1>4

(* So do the steps of an inspection. *)
LEMMA InspectionStepsKeep ==
  ASSUME IInv, NEW r \in Requests,
         OpenSucceeds(r) \/ OpenFails(r) \/ AbandonOpen(r) \/ WorkerReturns(r)
  PROVE  IInv'
<1> USE RequestState, Changes, PhaseSets DEF Moved, Step, Answer, Codes
<1>1. CASE OpenSucceeds(r)
  <2>1. Moved(r, "opening", "working") /\ Serving
    BY <1>1 DEF OpenSucceeds
  <2> QED BY <2>1, StepKeeps
<1>2. CASE OpenFails(r) \/ AbandonOpen(r)
  <2>1. Moved(r, "opening", "unslotting") /\ Serving
    BY <1>2 DEF OpenFails, AbandonOpen, CanonicalErrorCode
  <2> QED BY <2>1, StepKeeps
<1>3. CASE WorkerReturns(r)
  <2>1. \E code \in Codes : Answer(r, code)
    BY <1>3 DEF WorkerReturns, CanonicalErrorCode
  <2>2. Moved(r, "working", "closing") /\ Serving
    BY <1>3, <2>1 DEF WorkerReturns
  <2> QED BY <2>2, StepKeeps
<1> QED BY <1>1, <1>2, <1>3

(* So does giving back what a request held. *)
LEMMA ReleaseStepsKeep ==
  ASSUME IInv, NEW r \in Requests,
         CloseFile(r) \/ ReleaseSlot(r) \/ WriteResponse(r) \/ ReleaseAdmission(r) \/ RequestDone(r)
  PROVE  IInv'
<1> USE RequestState, Changes, PhaseSets DEF Moved, Step, Codes
<1>1. CASE CloseFile(r)
  <2>1. Moved(r, "closing", "unslotting") /\ Serving
    BY <1>1 DEF CloseFile
  <2> QED BY <2>1, StepKeeps
<1>2. CASE ReleaseSlot(r)
  <2>1. Moved(r, "unslotting", "replying") /\ Serving
    BY <1>2 DEF ReleaseSlot
  <2> QED BY <2>1, StepKeeps
<1>3. CASE WriteResponse(r)
  <2>1. Moved(r, "replying", "unadmitting") /\ Serving
    BY <1>3 DEF WriteResponse
  <2> QED BY <2>1, StepKeeps
<1>4. CASE ReleaseAdmission(r)
  <2>1. Moved(r, "unadmitting", "finishing") /\ Serving
    BY <1>4 DEF ReleaseAdmission
  <2> QED BY <2>1, StepKeeps
<1>5. CASE RequestDone(r)
  <2>1. Moved(r, "finishing", "done") /\ Serving
    BY <1>5 DEF RequestDone
  <2> QED BY <2>1, StepKeeps
<1> QED BY <1>1, <1>2, <1>3, <1>4, <1>5

(* A timer touches no channel and no phase.                                 *)
LEMMA DeadlineKeeps ==
  ASSUME IInv, NEW r \in Requests, Deadline(r)
  PROVE  IInv'
<1>1. phase[r] \in CountedPhases /\ Serving
  BY PhaseSets DEF Deadline
<1>2. ReaderPart'
  BY <1>1, ServingKeepsReader
<1>3. RequestPart'
  BY Parts DEF Deadline, RequestPart, Accounting, In
<1> QED BY <1>2, <1>3, Parts

(* Every step keeps the invariant. *)
LEMMA NextKeeps == IInv /\ [Next]_vars => IInv'
<1> SUFFICES ASSUME IInv, [Next]_vars PROVE IInv'
  OBVIOUS
<1>1. ASSUME UNCHANGED vars PROVE IInv'
  <2>1. UNCHANGED <<kept, overflow, raw, inputEnded, got, server, eof, admission, slots, wg, phase,
                    expired, open, reply>>
    BY <1>1 DEF vars, readerVars, adapterVars
  <2> QED
    BY <2>1 DEF IInv, TypeOK, Accounting, ReaderFacts, FramingExact, WholeLine, In
<1>2. CASE ReaderStep
  BY <1>2, ReadingKeeps, DispatchKeeps DEF ReaderStep, Dispatch
<1>3. CASE \E r \in Requests : OwnStep(r) \/ OutsideStep(r) \/ Deadline(r)
  BY <1>3, QueueStepsKeep, InspectionStepsKeep, ReleaseStepsKeep, DeadlineKeeps
     DEF OwnStep, OutsideStep
<1>4. CASE Terminated
  BY <1>1, <1>4 DEF Terminated
<1> QED BY <1>1, <1>2, <1>3, <1>4 DEF Next

(* The adapter's inductive invariant, for any number of requests, tokens and *)
(* slots, any budget and any buffer.                                        *)
THEOREM AdapterInvariance == Spec => []IInv
BY InitIInv, NextKeeps, PTL DEF Spec

-----------------------------------------------------------------------------
(* The line reader decides about a line as if it had been read at once, for *)
(* every budget and every buffer size: pieces, overflow and drain never     *)
(* shift the boundary of a request.                                         *)
THEOREM FramingCorrect == Spec => []FramingExact
<1>1. IInv => FramingExact
  BY DEF IInv
<1> QED BY AdapterInvariance, <1>1, PTL

(* No response leaves while its request holds a slot or a descriptor.       *)
THEOREM AnsweredClean == Spec => []AnsweredHoldsNothing
<1>1. ASSUME IInv PROVE AnsweredHoldsNothing
  <2>1. \A P : IsFiniteSet(In(P))
    BY FS_Subset, AdapterAssumption DEF In
  <2>2. open \cap In(AnsweredPhases) = {}
    BY <1>1 DEF IInv, In, AnsweredPhases
  <2>3. Cardinality(open) <= Cardinality(In(HoldingPhases))
    <3>1. open \subseteq In(HoldingPhases)
      BY <1>1 DEF IInv, In, HoldingPhases
    <3> QED BY <2>1, <3>1, FS_Subset
  <2>4. Cardinality(In(HoldingPhases)) <= Cardinality(Requests \ In(AnsweredPhases))
    <3>1. In(HoldingPhases) \subseteq Requests \ In(AnsweredPhases)
      BY DEF In, HoldingPhases, AnsweredPhases
    <3>2. IsFiniteSet(Requests \ In(AnsweredPhases))
      BY FS_Subset, AdapterAssumption
    <3> QED BY <3>1, <3>2, FS_Subset
  <2> QED BY <1>1, <2>2, <2>3, <2>4 DEF IInv, Accounting, AnsweredHoldsNothing
<1> QED BY AdapterInvariance, <1>1, PTL

(* serve returns owing nothing and holding nothing.                         *)
THEOREM DrainCorrect == Spec => []DrainIsQuiet
<1>1. ASSUME IInv PROVE DrainIsQuiet
  <2> SUFFICES ASSUME server = "returned" PROVE DrainIsQuiet
    BY DEF DrainIsQuiet
  <2>1. \A P : IsFiniteSet(In(P))
    BY FS_Subset, AdapterAssumption DEF In
  <2>2. In(CountedPhases) = {}
    BY <1>1, <2>1, FS_EmptySet DEF IInv, Accounting
  <2>3. \A r \in Requests : phase[r] \in {"unread", "refused", "done"}
    BY <1>1, <2>2 DEF IInv, TypeOK, In, Phases, CountedPhases, AdmittedPhases, HoldingPhases
  <2>4. In(AdmittedPhases) = {} /\ In(HoldingPhases) = {} /\ open = {}
    BY <1>1, <2>3 DEF IInv, In, AdmittedPhases, HoldingPhases
  <2>5. admission = 0 /\ slots = 0
    BY <1>1, <2>4, FS_EmptySet DEF IInv, Accounting
  <2>6. \A r \in Requests : phase[r] # "unread" => reply[r] # "none"
    BY <1>1, <2>3 DEF IInv, DecidedPhases, AnsweredPhases
  <2> QED BY <2>3, <2>4, <2>5, <2>6 DEF DrainIsQuiet, In
<1> QED BY AdapterInvariance, <1>1, PTL

-----------------------------------------------------------------------------
(* A step that moves no request's phase and answer, and does not return, is *)
(* invisible in the contract.                                               *)
LEMMA Unseen ==
  ASSUME UNCHANGED <<phase, reply>>, (server = "returned") = (server = "returned")'
  PROVE  UNCHANGED CC!contractVars
BY DEF CC!contractVars, ContractStatus, ContractVerdict

(* A step of one request that leaves serve alone changes the contract's view *)
(* of this request only.                                                    *)
LEMMA OneRequest ==
  ASSUME IInv, NEW r \in Requests, NEW to, phase' = [phase EXCEPT ![r] = to],
         \A q \in Requests : q # r => reply'[q] = reply[q]
  PROVE  /\ ContractStatus' = [ContractStatus EXCEPT ![r] = ContractStatus'[r]]
         /\ ContractVerdict' = [ContractVerdict EXCEPT ![r] = ContractVerdict'[r]]
<1>1. \A q \in Requests : q # r => phase'[q] = phase[q]
  BY DEF IInv, TypeOK
<1> QED BY <1>1 DEF ContractStatus, ContractVerdict

(* The reader takes a request or refuses it.                                *)
LEMMA DispatchKept ==
  ASSUME IInv, NEW r \in Requests, RefuseTooLarge(r) \/ RefuseFull(r) \/ Admit(r)
  PROVE  CC!ContractNext
<1> USE DEF IInv, TypeOK
<1>1. /\ phase[r] = "unread" /\ server = "dispatching" /\ server' # "returned"
      /\ reply[r] = "none" /\ ContractStatus[r] = "unseen"
  BY DEF RefuseTooLarge, RefuseFull, Admit, Refuse, NextLine, ContractStatus, DecidedPhases,
         AnsweredPhases
<1>2. CASE RefuseTooLarge(r) \/ RefuseFull(r)
  <2>1. PICK code \in Codes : Refuse(r, code)
    BY <1>2 DEF RefuseTooLarge, RefuseFull, Codes
  <2>2. phase'[r] = "refused" /\ reply'[r] = code /\ code # "none"
    BY <2>1 DEF Refuse, Codes
  <2>3. ContractStatus'[r] = "delivered" /\ ContractVerdict'[r] = "refused"
    BY <2>2 DEF ContractStatus, ContractVerdict, AnsweredPhases
  <2>4. CC!Refuse(r)
    BY <1>1, <2>1, <2>3, OneRequest DEF CC!Refuse, Refuse
  <2> QED BY <2>4 DEF CC!ContractNext
<1>3. CASE Admit(r)
  <2>1. phase'[r] = "decoding" /\ reply' = reply
    BY <1>3 DEF Admit
  <2>2. ContractStatus'[r] = "owed" /\ ContractVerdict'[r] = "none" /\ ContractVerdict[r] = "none"
    BY <1>1, <2>1 DEF ContractStatus, ContractVerdict
  <2>3. ContractVerdict' = ContractVerdict
    BY <1>3, <2>2, OneRequest DEF Admit, ContractVerdict
  <2>4. CC!Take(r)
    <3>1. "none" \in {"none", "shutdown"}
      OBVIOUS
    <3>2. [q \in Requests |-> "none"] = [[q \in Requests |-> "none"] EXCEPT ![r] = "none"]
      OBVIOUS
    <3> QED BY <1>1, <1>3, <2>2, <2>3, <3>1, <3>2, OneRequest DEF CC!Take, Admit
  <2> QED BY <2>4 DEF CC!ContractNext
<1> QED BY <1>2, <1>3

(* Answering a request decides it; the verdict is its own.                  *)
LEMMA DecisionKept ==
  ASSUME IInv, NEW r \in Requests,
         DecodeInvalid(r) \/ AbandonQueue(r) \/ OpenFails(r) \/ AbandonOpen(r) \/ WorkerReturns(r)
  PROVE  CC!ContractNext
<1> USE DEF Step
<1>1. PICK code \in Codes : reply' = [reply EXCEPT ![r] = code]
  BY DEF DecodeInvalid, AbandonQueue, OpenFails, AbandonOpen, WorkerReturns, Answer,
         CanonicalErrorCode, Codes
<1>2. PICK to \in {"replying", "unslotting", "closing"} : phase' = [phase EXCEPT ![r] = to]
  BY DEF DecodeInvalid, AbandonQueue, OpenFails, AbandonOpen, WorkerReturns
<1>3. phase[r] \in {"decoding", "queued", "opening", "working"} /\ Serving
  BY DEF DecodeInvalid, AbandonQueue, OpenFails, AbandonOpen, WorkerReturns
<1>4. /\ phase'[r] = to /\ reply'[r] = code /\ code # "none" /\ reply[r] = "none"
      /\ ContractStatus[r] = "owed"
  BY <1>1, <1>2, <1>3 DEF IInv, TypeOK, ContractStatus, Codes, DecidedPhases, AnsweredPhases
<1>5. ContractStatus'[r] = "decided" /\ ContractVerdict'[r] \in {"result", "failed"}
  BY <1>2, <1>4 DEF ContractStatus, ContractVerdict, AnsweredPhases
<1>6. PICK v \in {"result", "failed"} : ContractVerdict'[r] = v
  BY <1>5
<1>7. CC!Allowed(v, "none") /\ v \in CC!Verdicts
  BY <1>6 DEF CC!Allowed, CC!Verdicts
<1>8. \A q \in Requests : q # r => reply'[q] = reply[q]
  BY <1>1 DEF IInv, TypeOK
<1>9. CC!Decide(r, v)
  BY <1>2, <1>3, <1>4, <1>5, <1>6, <1>7, <1>8, OneRequest DEF CC!Decide, Serving
<1> QED BY <1>7, <1>9 DEF CC!ContractNext

(* The response's write delivers what was decided; the other steps of a     *)
(* request are its own affair.                                              *)
LEMMA OtherStepsKept ==
  ASSUME IInv, NEW r \in Requests,
         \/ DecodeValid(r) \/ AcquireSlot(r) \/ OpenSucceeds(r) \/ CloseFile(r) \/ ReleaseSlot(r)
         \/ WriteResponse(r) \/ ReleaseAdmission(r) \/ RequestDone(r) \/ Deadline(r)
  PROVE  CC!ContractNext \/ UNCHANGED CC!contractVars
<1> USE DEF Step
<1>1. reply' = reply /\ Serving
  BY DEF DecodeValid, AcquireSlot, OpenSucceeds, CloseFile, ReleaseSlot, WriteResponse,
         ReleaseAdmission, RequestDone, Deadline
<1>2. CASE Deadline(r)
  BY <1>1, <1>2, Unseen DEF Deadline, Serving
<1>3. CASE WriteResponse(r)
  <2>1. phase' = [phase EXCEPT ![r] = "unadmitting"] /\ phase[r] = "replying"
    BY <1>3 DEF WriteResponse
  <2>2. phase'[r] = "unadmitting" /\ reply[r] # "none"
    BY <2>1 DEF IInv, TypeOK, DecidedPhases
  <2>3. ContractStatus[r] = "decided" /\ ContractStatus'[r] = "delivered"
        /\ ContractVerdict'[r] = ContractVerdict[r]
    BY <1>1, <2>1, <2>2 DEF ContractStatus, ContractVerdict, AnsweredPhases
  <2>4. ContractVerdict' = ContractVerdict
    BY <1>1, <2>1, <2>3, OneRequest DEF ContractVerdict
  <2>5. CC!Deliver(r)
    BY <1>1, <2>1, <2>3, <2>4, OneRequest DEF CC!Deliver, Serving
  <2> QED BY <2>5 DEF CC!ContractNext
<1>4. ASSUME \/ DecodeValid(r) \/ AcquireSlot(r) \/ OpenSucceeds(r) \/ CloseFile(r)
             \/ ReleaseSlot(r) \/ ReleaseAdmission(r) \/ RequestDone(r)
      PROVE  UNCHANGED CC!contractVars
  <2>1. PICK to \in Phases : phase' = [phase EXCEPT ![r] = to]
    BY <1>4 DEF DecodeValid, AcquireSlot, OpenSucceeds, CloseFile, ReleaseSlot, ReleaseAdmission,
                RequestDone, Phases
  <2>2. /\ phase'[r] \in AnsweredPhases <=> phase[r] \in AnsweredPhases
        /\ {phase[r], phase'[r]} \cap {"unread", "refused"} = {}
    BY <1>4 DEF IInv, TypeOK, DecodeValid, AcquireSlot, OpenSucceeds, CloseFile, ReleaseSlot,
                ReleaseAdmission, RequestDone, AnsweredPhases
  <2>3. ContractStatus'[r] = ContractStatus[r] /\ ContractVerdict'[r] = ContractVerdict[r]
    BY <1>1, <2>2 DEF ContractStatus, ContractVerdict
  <2>4. ContractStatus' = ContractStatus /\ ContractVerdict' = ContractVerdict
    BY <1>1, <2>1, <2>3, OneRequest DEF ContractStatus, ContractVerdict
  <2> QED BY <1>1, <2>4 DEF CC!contractVars, Serving
<1> QED BY <1>2, <1>3, <1>4

(* Reading lines changes nothing the contract speaks of. *)
LEMMA ReadingKept ==
  ASSUME IInv, ReadMore \/ LineArrives \/ InputEnds \/ ReadFails \/ ServeReturns \/ SkipBlank
  PROVE  CC!ContractNext \/ UNCHANGED CC!contractVars
<1>1. UNCHANGED <<phase, reply>>
  BY DEF ReadMore, LineArrives, InputEnds, ReadFails, ServeReturns, SkipBlank, adapterVars
<1>2. CASE ServeReturns
  <2>1. server # "returned" /\ server' = "returned" /\ wg = 0
    BY <1>2 DEF ServeReturns
  <2>2. IsFiniteSet(In(CountedPhases)) /\ Cardinality(In(CountedPhases)) = 0
    BY <2>1, FS_Subset, AdapterAssumption DEF IInv, Accounting, In
  <2>7. In(CountedPhases) = {}
    BY <2>2, FS_EmptySet
  <2>3. \A r \in Requests : phase[r] \in {"unread", "refused", "done"}
    BY <2>7 DEF IInv, TypeOK, In, Phases, CountedPhases, AdmittedPhases, HoldingPhases
  <2>4. \A r \in Requests : ContractStatus[r] \in {"unseen", "delivered"}
    BY <2>3 DEF IInv, ContractStatus, DecidedPhases, AnsweredPhases
  <2>5. ContractStatus' = ContractStatus /\ ContractVerdict' = ContractVerdict
    BY <1>1 DEF ContractStatus, ContractVerdict
  <2>6. CC!Stop
    BY <2>1, <2>4, <2>5 DEF CC!Stop
  <2> QED BY <2>6 DEF CC!ContractNext
<1>3. ASSUME ReadMore \/ LineArrives \/ InputEnds \/ ReadFails \/ SkipBlank
      PROVE  UNCHANGED CC!contractVars
  <2>1. server # "returned" /\ server' # "returned"
    BY <1>3 DEF ReadMore, LineArrives, InputEnds, ReadFails, SkipBlank, NextLine, adapterVars
  <2> QED BY <1>1, <2>1, Unseen
<1> QED BY <1>2, <1>3

(* The adapter implements the contract of a call server, the same that the  *)
(* MCP server implements: each request decided once, answered once, and     *)
(* serve returns owing nothing.                                             *)
THEOREM AdapterContractKept == Spec => CC!ContractSafety
<1>1. Init => CC!ContractInit
  BY DEF Init, CC!ContractInit, ContractStatus, ContractVerdict
<1>2. IInv /\ [Next]_vars => [CC!ContractNext]_(CC!contractVars)
  <2> SUFFICES ASSUME IInv, [Next]_vars PROVE CC!ContractNext \/ UNCHANGED CC!contractVars
    OBVIOUS
  <2>1. CASE UNCHANGED vars
    BY <2>1, Unseen DEF vars, adapterVars
  <2>2. CASE ReaderStep
    BY <2>2, ReadingKept, DispatchKept DEF ReaderStep, Dispatch
  <2>3. CASE \E r \in Requests : OwnStep(r) \/ OutsideStep(r) \/ Deadline(r)
    BY <2>3, DecisionKept, OtherStepsKept DEF OwnStep, OutsideStep
  <2> QED BY <2>1, <2>2, <2>3 DEF Next, Terminated
<1> QED BY AdapterInvariance, <1>1, <1>2, PTL DEF Spec, CC!ContractSafety
=============================================================================
