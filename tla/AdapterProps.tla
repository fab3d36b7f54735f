---------------------------- MODULE AdapterProps ----------------------------
(***************************************************************************)
(* What the capability adapter and its line reader guarantee, and how the  *)
(* adapter keeps the contract it shares with the MCP server.               *)
(***************************************************************************)
EXTENDS CapabilityAdapter

HoldingPhases  == {"opening", "working", "closing", "unslotting"}
AdmittedPhases == HoldingPhases \cup {"decoding", "queued", "replying", "unadmitting"}
CountedPhases  == AdmittedPhases \cup {"finishing"}
AnsweredPhases == {"refused", "unadmitting", "finishing", "done"}
DecidedPhases  == AnsweredPhases \cup {"closing", "unslotting", "replying"}

In(P) == {r \in Requests : phase[r] \in P}

TypeOK ==
  /\ server \in {"reading", "dispatching", "draining", "returned"}
  /\ eof \in BOOLEAN /\ inputEnded \in BOOLEAN /\ overflow \in BOOLEAN
  /\ kept \in Seq(Bytes) /\ raw \in Seq(Bytes) /\ got \in Seq(Bytes) \cup {TooLarge}
  /\ admission \in 0..MaxAdmitted /\ slots \in 0..MaxConcurrent /\ wg \in Nat
  /\ phase \in [Requests -> Phases]
  /\ expired \subseteq Requests /\ open \subseteq Requests
  /\ reply \in [Requests -> Codes \cup {"none"}]

Accounting ==
  /\ admission = Cardinality(In(AdmittedPhases))
  /\ slots = Cardinality(In(HoldingPhases))
  /\ wg = Cardinality(In(CountedPhases))

(* A line's pieces so far, and what was decided about it, agree with its     *)
(* bytes; between lines nothing of the last one is left.                    *)
ReaderFacts ==
  /\ server = "reading" =>
       IF overflow THEN kept = <<>> /\ Len(raw) > Limit + 2 ELSE kept = raw
  /\ server = "dispatching" => kept = <<>> /\ ~overflow

(* Framing: the line that serve dispatches, a request or an oversized line,  *)
(* is the one its bytes make when read at once, whatever pieces the buffer   *)
(* delivered and whatever line came before (linereader.go:18-57).            *)
FramingExact == server = "dispatching" => got = WholeLine

(* A request whose response is on the wire holds neither a call slot nor a   *)
(* descriptor, and a descriptor is open only under a slot: the deferred      *)
(* functions of handleRequestWithTimeout run, in their order, before the     *)
(* write (main.go:135, 173-192).                                             *)
AnsweredHoldsNothing ==
  /\ open \cap In(AnsweredPhases) = {}
  /\ Cardinality(open) <= slots
  /\ slots <= Cardinality(Requests \ In(AnsweredPhases))

(* serve returns only when every nonblank line it read has its response and  *)
(* every goroutine it started is gone, with all tokens back: the drain of    *)
(* main.go:138-141.                                                          *)
DrainIsQuiet ==
  server = "returned" =>
    /\ In(Phases \ {"unread", "refused", "done"}) = {}
    /\ open = {} /\ admission = 0 /\ slots = 0
    /\ \A r \in Requests : phase[r] # "unread" => reply[r] # "none"

IInv ==
  /\ TypeOK
  /\ Accounting
  /\ ReaderFacts
  /\ FramingExact
  /\ open = In({"working", "closing"})
  /\ \A r \in Requests : reply[r] # "none" <=> phase[r] \in DecidedPhases
  /\ server = "returned" => wg = 0

-----------------------------------------------------------------------------
(* Refinement of the contract: slots, descriptors and the deadline hidden.   *)
(* The adapter does not report what ended a context, and a result that is    *)
(* late is delivered: no call of the contract is ever interrupted.           *)
ContractStatus ==
  [r \in Requests |-> IF phase[r] = "unread" THEN "unseen"
                      ELSE IF reply[r] = "none" THEN "owed"
                      ELSE IF phase[r] \in AnsweredPhases THEN "delivered"
                      ELSE "decided"]

ContractVerdict ==
  [r \in Requests |-> IF reply[r] = "none" THEN "none"
                      ELSE IF phase[r] = "refused" THEN "refused"
                      ELSE IF reply[r] = "OK" THEN "result"
                      ELSE "failed"]

CC == INSTANCE CallContract WITH
        Calls <- Requests, status <- ContractStatus,
        cause <- [r \in Requests |-> "none"],
        verdict <- ContractVerdict, stopped <- (server = "returned")

(* Each line that asks for something is decided once, answered once and,     *)
(* however the file system and the workers delay it, answered in the end     *)
(* (main.go:86-142, 154-216).                                                *)
AdapterKeepsContract == CC!Contract

(* Once the input has ended serve returns (main.go:138-141).                 *)
AdapterReturns == inputEnded ~> (server = "returned")
=============================================================================
