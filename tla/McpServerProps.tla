--------------------------- MODULE McpServerProps ---------------------------
(***************************************************************************)
(* The properties of the MCP server, and its refinement of CallContract.   *)
(***************************************************************************)
EXTENDS McpServer

TypeOK ==
  /\ reader \in {"reading", "answering", "cancelling", "returned"}
  /\ eof \in BOOLEAN /\ initialized \in BOOLEAN /\ shutdown \in BOOLEAN
  /\ syncAnswer \in SyncAnswers \cup {"none"}
  /\ toCancel \subseteq Calls /\ cancelId \in Ids \cup {NoId}
  /\ admissionSlots \in Nat /\ callSlots \in Nat /\ wg \in Nat
  /\ cancels \in [Ids -> SUBSET Calls]
  /\ phase \in [Calls -> Phases]
  /\ line \in [Calls -> Lines \cup {NoLine}]
  /\ afterInit \in [Calls -> BOOLEAN]
  /\ ctx \in [Calls -> CtxStates]
  /\ tried \in [Calls -> Nat] /\ files \in [Calls -> Nat]
  /\ held \in [Calls -> BOOLEAN]
  /\ reply \in [Calls -> Replies \cup {"none"}]
  /\ written \in [Calls -> Nat]

-----------------------------------------------------------------------------
(* Every exit of a call, early or late, gives back exactly the tokens it    *)
(* took: the admission channel holds one token per call that is queued,     *)
(* executing or answering, the call channel one per call whose release is   *)
(* deferred, and neither passes its capacity.                               *)
SlotAccounting ==
  /\ admissionSlots = Cardinality(Admitted) /\ admissionSlots <= MaxAdmitted
  /\ callSlots = Cardinality(Holding) /\ callSlots <= MaxConcurrent

(* A call holds descriptors only while it holds a call slot, so the slots   *)
(* bound the descriptors of the whole server: every return path closes its  *)
(* files before the deferred slot release runs.                             *)
DescriptorsUnderSlot ==
  \A c \in Calls : /\ files[c] > 0 => held[c]
                   /\ files[c] <= MaxPaths

(* The registry always holds exactly the calls between registration and     *)
(* cleanup under the id their line carried, so a second call with an id in  *)
(* use never loses its own entry to the first one's cleanup.                *)
RegistryExact ==
  \A i \in Ids : cancels[i] = {c \in Calls : /\ phase[c] \in RegisteredPhases
                                             /\ line[c].id = i}

(* A tools/call line gets one answer, written exactly when its call is past *)
(* the write, and the answer written is the one it decided on.              *)
OneAnswer ==
  \A c \in Calls :
    /\ written[c] = IF phase[c] \in {"unread", "spawned", "queued", "opening",
                                     "collecting", "working", "replying"} THEN 0 ELSE 1
    /\ reply[c] = "none" <=> phase[c] \in {"unread", "spawned", "queued", "opening",
                                           "collecting", "working"}

(* An answer that blames the context names what ended it: E_TIMEOUT only    *)
(* after the deadline fired first, E_CANCELLED only after a cancellation or *)
(* the end of the session, never because the call's own cleanup ran.        *)
AnswerNamesCause ==
  \A c \in Calls : /\ reply[c] = "E_TIMEOUT" => ctx[c] = "deadline"
                   /\ reply[c] = "E_CANCELLED" => ctx[c] \in {"client", "shutdown"}

(* A legacy call sent after initialize was read is never told the server is *)
(* not initialized, although the flag is read later, in another goroutine.  *)
InitializeIsOrdered ==
  \A c \in Calls : afterInit[c] => reply[c] # "notInitialized"

(* Serve returns with nothing in flight: every call it read is answered,    *)
(* both channels are empty, no descriptor is open and nothing is left in    *)
(* the registry.                                                            *)
QuietReturn ==
  reader = "returned" =>
    /\ \A c \in Calls : phase[c] # "unread" => written[c] = 1
    /\ admissionSlots = 0 /\ callSlots = 0
    /\ \A c \in Calls : files[c] = 0
    /\ \A i \in Ids : cancels[i] = {}

(* When cancel returns, the context of every call registered under the id   *)
(* has ended, whichever of the duplicates came first and however far they   *)
(* had got; calls under other ids keep theirs.                              *)
CancelReachesAll ==
  [][(reader = "cancelling" /\ reader' = "reading") =>
       \A c \in cancels[cancelId] : Ended(c)]_vars

CancelHitsOnlyItsId ==
  [][\A c \in Calls : (ctx[c] # "client" /\ ctx'[c] = "client") =>
       reader = "cancelling" /\ line[c].id = cancelId]_vars

(* A call whose context ended before the worker's answer was looked at is   *)
(* never answered with that answer: cancellation and the deadline beat a    *)
(* result that arrives late.                                                *)
LateResultDiscarded ==
  [][\A c \in Calls : (Ended(c) /\ reply[c] = "none") =>
       reply'[c] \notin {"result", "E_WORKER"}]_vars

-----------------------------------------------------------------------------
(* The inductive invariant behind the properties above: TypeOK, the         *)
(* properties that are inductive together, and what ties a call's phase to  *)
(* the rest of its state and the reader's position to the registry.         *)
Counted == {c \in Calls : phase[c] \in CountedPhases}

Accounting ==
  /\ admissionSlots = Cardinality(Admitted) /\ admissionSlots <= MaxAdmitted
  /\ callSlots = Cardinality(Holding) /\ callSlots <= MaxConcurrent
  /\ wg = Cardinality(Counted)

HoldingPhases == {"opening", "collecting", "working", "closing", "unslotting"}

CallFacts(c) ==
  /\ phase[c] \in HoldingPhases => held[c]
  /\ held[c] => phase[c] \in HoldingPhases \cup {"replying"}
  /\ phase[c] # "unread" => line[c] \in Lines /\ line[c].id \in Ids
  /\ ctx[c] = "none" <=> phase[c] \in {"unread", "refused"}
  /\ ctx[c] = "finished" => phase[c] \in {"deregistering", "finishing", "done"}
  /\ phase[c] \in {"unread", "refused", "spawned", "queued"} => tried[c] = 0
  /\ phase[c] = "opening" => files[c] <= tried[c] /\ tried[c] <= PathCount(line[c])
  /\ phase[c] = "unslotting" => files[c] = 0
  /\ afterInit[c] => initialized

ReaderFacts ==
  /\ reader = "cancelling" =>
       /\ cancelId \in Ids
       /\ \A c \in cancels[cancelId] \ toCancel : Ended(c)
       /\ \A c \in toCancel : line[c].id = cancelId /\ phase[c] \notin {"unread", "refused"}
  /\ reader = "returned" => wg = 0

IInv ==
  /\ TypeOK
  /\ Accounting
  /\ DescriptorsUnderSlot
  /\ RegistryExact
  /\ OneAnswer
  /\ AnswerNamesCause
  /\ InitializeIsOrdered
  /\ \A c \in Calls : CallFacts(c)
  /\ ReaderFacts

-----------------------------------------------------------------------------
(* Refinement: slots, files and phases hidden, the calls keep the contract. *)
ContractStatus ==
  [c \in Calls |-> IF phase[c] = "unread" THEN "unseen"
                   ELSE IF reply[c] = "none" THEN "owed"
                   ELSE IF phase[c] = "replying" THEN "decided"
                   ELSE "delivered"]

ContractCause ==
  [c \in Calls |-> IF ctx[c] \in {"client", "shutdown", "deadline"} THEN ctx[c] ELSE "none"]

VerdictOf(r) ==
  IF r \in Refusals THEN "refused"
  ELSE IF r \in {"none", "result"} \cup ContextFailures THEN r
  ELSE "failed"

ContractVerdict == [c \in Calls |-> VerdictOf(reply[c])]

CC == INSTANCE CallContract WITH
        status <- ContractStatus, cause <- ContractCause,
        verdict <- ContractVerdict, stopped <- (reader = "returned")

(* Every step of the server is a step of the contract or changes nothing    *)
(* the client could see.                                                    *)
KeepsContract == CC!ContractSafety

(* With the file system responding, the server also keeps the contract's    *)
(* promise that what it took is decided and delivered.                      *)
KeepsWholeContract == CC!Contract

-----------------------------------------------------------------------------
(* Once the input has ended, Serve returns. *)
ServeTerminates == eof ~> (reader = "returned")

(* A full server does not stay full: refusing a call for capacity is always *)
(* followed by room for another.                                            *)
CapacityRecovers == (admissionSlots = MaxAdmitted) ~> (admissionSlots < MaxAdmitted)

(* README: one deadline covers the call "from file-open and queue admission *)
(* through final response"; a call whose deadline has passed is answered.   *)
DeadlineEndsCall ==
  \A c \in Calls : (ctx[c] = "deadline") ~> (written[c] = 1)
=============================================================================
